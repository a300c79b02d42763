---------------------------- MODULE MCSolanaLaunch ----------------------------
(* Instances of SolanaLaunch for TLC. *)
EXTENDS SolanaLaunch

CONSTANTS a1, a2, a3, a4, k1

Calls4 == {a1, a2, a3, a4}

\* The fourth call comes without an idempotency key.
MCKeyOf == [a \in Calls4 |-> IF a = a4 THEN None ELSE k1]

Quiet == [callers |-> {a1, a2, a4}, alt |-> TRUE, large |-> FALSE, ambiguous |-> FALSE,
          forks |-> FALSE, confirmTicks |-> 1, slots |-> 0]

\* Three retries of one key where everything goes wrong.
Hostile == [Quiet EXCEPT !.callers = {a1, a2, a3}, !.ambiguous = TRUE, !.forks = TRUE]

\* One attempt that may need a lookup table of its own.
Large == [Quiet EXCEPT !.callers = {a1}, !.large = TRUE, !.confirmTicks = 2, !.slots = 2]

AllWorlds ==
    {Quiet, Hostile, Large, [Large EXCEPT !.alt = FALSE, !.ambiguous = TRUE]}

Ambiguous == {[Quiet EXCEPT !.callers = {a1}, !.ambiguous = TRUE]}

=============================================================================
