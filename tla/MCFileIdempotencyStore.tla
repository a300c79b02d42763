----------------------- MODULE MCFileIdempotencyStore -----------------------
(* An instance of FileIdempotencyStore for TLC. *)
EXTENDS FileIdempotencyStore

CONSTANTS r1, r2, r3, k1, h1, h2

MCRequests == {r1, r2, r3}

\* Three requests compete for k1, one of them with another payload.
OneKey == [r \in MCRequests |-> k1]
TwoPayloads == [r \in MCRequests |-> IF r = r3 THEN h2 ELSE h1]

=============================================================================
