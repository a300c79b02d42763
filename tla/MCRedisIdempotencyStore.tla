---------------------- MODULE MCRedisIdempotencyStore ----------------------
(* Instances of RedisIdempotencyStore for TLC. *)
EXTENDS RedisIdempotencyStore

CONSTANTS r1, r2, r3, a, b, h1, h2

MCReplicas == {a, b}

\* Two requests on two replicas.
TwoRequests == {r1, r2}
Apart == [r \in TwoRequests |-> IF r = r1 THEN a ELSE b]

\* A third request shares the first one's replica.
ThreeRequests == {r1, r2, r3}
Shared == [r \in ThreeRequests |-> IF r = r2 THEN b ELSE a]

TwoPayloads == [r \in {r1, r2, r3} |-> IF r = r3 THEN h2 ELSE h1]
OnePayloadOfTwo == [r \in TwoRequests |-> h1]

=============================================================================
