---------------------------- MODULE SolanaContract ----------------------------
(***************************************************************************)
(* What creating a Solana launch promises, with no word of RPC calls,      *)
(* lookup tables, slots or deadlines: which attempt's transaction made the *)
(* launch at an address, which attempts can never make one any more, and   *)
(* what an attempt may be told about it.                                   *)
(***************************************************************************)
CONSTANTS Attempts, Seeds, SeedOf, None

VARIABLES
    owner,     \* per seed: the attempt whose transaction created the launch
    closed,    \* the attempts whose transaction can never create a launch
    answer     \* what each attempt was told

vars == <<owner, closed, answer>>

Init ==
    /\ owner = [s \in Seeds |-> None]
    /\ closed = {}
    /\ answer = [a \in Attempts |-> None]

\* A transaction takes an address that is free, and not after it was closed.
Create(a) ==
    /\ owner[SeedOf[a]] = None
    /\ a \notin closed
    /\ owner' = [owner EXCEPT ![SeedOf[a]] = a]
    /\ UNCHANGED <<closed, answer>>

\* Attempts lose their last chance.
Close ==
    /\ closed \subseteq closed'
    /\ \A a \in closed' \ closed : owner[SeedOf[a]] # a
    /\ UNCHANGED <<owner, answer>>

\* Success names the transaction that made the launch; any failure but
\* IN_DOUBT means that this attempt makes none, now or later.
Truthful(a, kind) ==
    /\ kind = "ok" => owner[SeedOf[a]] = a
    /\ kind \notin {"ok", "in_doubt"} => a \in closed'

Tell(a) ==
    /\ answer[a] = None
    /\ \E kind \in {"ok", "in_doubt", "refused", "failed"} :
         /\ Truthful(a, kind)
         /\ answer' = [answer EXCEPT ![a] = kind]
    /\ closed' \in {closed, closed \union {a}}
    /\ a \in closed' => owner[SeedOf[a]] # a
    /\ UNCHANGED owner

Next == Close \/ \E a \in Attempts : Create(a) \/ Tell(a)

Spec == Init /\ [][Next]_vars

=============================================================================
