--------------------------- MODULE MCTxSubmitter ---------------------------
(* An instance of TxSubmitter for TLC. *)
EXTENDS TxSubmitter

CONSTANTS r1, r2, r3, a, b

MCRequests == {r1, r2, r3}
MCNonces == 0..2

\* Two replicas, one of which has a queue.
TwoReplicas == {a, b}
Shared == [r \in MCRequests |-> IF r = r3 THEN b ELSE a]

=============================================================================
