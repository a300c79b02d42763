--------------------------- MODULE SolanaLaunchProofs ---------------------------
(***************************************************************************)
(* Safety of SolanaLaunch for any number of attempts and keys, any         *)
(* deployment, node and cluster: the launch address of a key is taken      *)
(* once, its key stays closed, no table is used before it is warm, and the *)
(* contract of a launch is kept.  Then SolanaRequest, for any bodies,      *)
(* deployments and accounts of the initializer.                            *)
(***************************************************************************)
EXTENDS SolanaLaunch, SolanaRequest, FieldsProofs, FiniteSetTheorems, TLAPS

\* The table of an attempt: where the attempt is (pc), its table (t), the
\* slot that executed it (s), the slot the attempt marked, and the cluster's.
TableOk(pc, t, s, mark, now) ==
    /\ pc \in {"idle", "checks", "fetch_alt", "table_setup", "table_send"} => t = "none"
    /\ pc \in {"table_mark", "table_warm"} => t = "landed"
    /\ pc = "table_warm" => s <= mark
    /\ pc \in {"build", "simulate", "send", "confirm"}
         => t \in {"none", "landed"} /\ (t = "landed" => s < now)
    /\ s <= now

TableInv ==
    \A a \in Attempts : TableOk(at[a].pc, table[a], tableSlot[a], at[a].mark, slot)

\* What the store knows of a key, and the attempt that runs under it.
KeyInv ==
    \A a \in Attempts :
        /\ at[a].pc = "idle" => tx[a] = "none"
        /\ at[a].pc = "done" => at[a].answer \in Kinds
        /\ KeyOf[a] # None =>
             /\ at[a].pc \in Calls => key[KeyOf[a]] = "busy"
             /\ at[a].pc = "done" /\ at[a].answer \in {"ok", "in_doubt"}
                  => key[KeyOf[a]] \in {"done", "doubt"}
             /\ \A q \in Attempts :
                  KeyOf[q] = KeyOf[a] /\ at[q].pc \in Calls /\ at[a].pc \in Calls => q = a

IInv == TypeOK /\ TableInv /\ KeyInv /\ OneLaunchPerKey

-----------------------------------------------------------------------------
(* How one attempt moves *)

Others(a) == \A q \in Attempts \ {a} : at'[q] = at[q]

Stays(a) ==
    at'[a].pc \in Calls /\ at'[a].answer = at[a].answer /\ key' = key

Ends(a, kind) ==
    /\ at'[a].pc = "done" /\ at'[a].answer = kind
    /\ key' = IF KeyOf[a] = None THEN key ELSE [key EXCEPT ![KeyOf[a]] = Outcome(kind)]

\* What any step of an attempt amounts to.
Effect(a) ==
    /\ at' \in [Attempts -> AtRecords] /\ Others(a)
    /\ Stays(a) \/ \E kind \in Kinds : Ends(a, kind)
    /\ tx' = tx \/ tx' = [tx EXCEPT ![a] = "inflight"]
    /\ table' = table \/ table' = [table EXCEPT ![a] = "inflight"]
    /\ UNCHANGED <<world, tableSlot, slot>>
    /\ TableOk(at'[a].pc, table'[a], tableSlot[a], at'[a].mark, slot)

LEMMA WorldType ==
    ASSUME TypeOK
    PROVE  world.confirmTicks \in Nat /\ world.slots \in Nat /\ 0 \in 0..RpcAttempts - 1
BY SolanaAssumption DEF TypeOK

LEMMA GotoMoves ==
    ASSUME TypeOK, NEW a \in Attempts, NEW where \in Calls, Goto(a, where)
    PROVE  /\ at' \in [Attempts -> AtRecords] /\ Others(a)
           /\ at'[a].pc = where /\ at'[a].answer = at[a].answer /\ at'[a].mark = at[a].mark
<1>1. at \in [Attempts -> AtRecords] /\ at[a] \in AtRecords
    BY DEF TypeOK
<1> DEFINE c == [at[a] EXCEPT !.pc = where, !.tries = 0]
<1>2. /\ c \in AtRecords /\ c.pc = where /\ c.answer = at[a].answer /\ c.mark = at[a].mark
    BY <1>1, WorldType DEF AtRecords
<1>3. at' = [at EXCEPT ![a] = c]
    BY <1>1 DEF Goto
<1> QED
    BY <1>1, <1>2, <1>3 DEF Others

LEMMA PollMoves ==
    ASSUME TypeOK, NEW a \in Attempts, NEW where \in Calls, Poll(a, where)
    PROVE  /\ at' \in [Attempts -> AtRecords] /\ Others(a)
           /\ at'[a].pc = where /\ at'[a].answer = at[a].answer /\ at'[a].mark = at[a].mark
<1>1. at \in [Attempts -> AtRecords] /\ at[a] \in AtRecords
    BY DEF TypeOK
<1> DEFINE c == [at[a] EXCEPT !.pc = where, !.tries = 0, !.timer = world.confirmTicks]
<1>4. world.confirmTicks \in 0..world.confirmTicks /\ 0 \in 0..RpcAttempts - 1
    BY WorldType
<1>2. /\ c \in AtRecords /\ c.pc = where /\ c.answer = at[a].answer /\ c.mark = at[a].mark
    BY <1>1, <1>4 DEF AtRecords, Calls, Waiting
<1>3. at' = [at EXCEPT ![a] = c]
    BY <1>1 DEF Poll
<1> QED
    BY <1>1, <1>2, <1>3 DEF Others

LEMMA AnswerEnds ==
    ASSUME TypeOK, NEW a \in Attempts, NEW kind \in Kinds, Answer(a, kind)
    PROVE  at' \in [Attempts -> AtRecords] /\ Others(a) /\ Ends(a, kind)
<1>1. at \in [Attempts -> AtRecords] /\ at[a] \in AtRecords
    BY DEF TypeOK
<1> DEFINE c == [at[a] EXCEPT !.pc = "done", !.answer = kind, !.tries = 0]
<1>2. c \in AtRecords /\ c.pc = "done" /\ c.answer = kind
    BY <1>1, WorldType DEF AtRecords
<1>3. at' = [at EXCEPT ![a] = c]
    BY <1>1 DEF Answer
<1> QED
    BY <1>1, <1>2, <1>3 DEF Others, Ends, Answer

LEMMA StepEffect ==
    ASSUME TypeOK, NEW a \in Attempts, NEW where \in Calls, Step(a, where), UNCHANGED world,
           TableOk(where, table[a], tableSlot[a], at[a].mark, slot)
    PROVE  Effect(a)
<1>1. Goto(a, where) /\ UNCHANGED <<key, tx, table, tableSlot, slot>>
    BY DEF Step, cluster
<1> QED
    BY <1>1, GotoMoves DEF Effect, Stays

LEMMA AnswerEffect ==
    ASSUME TypeOK, TableInv, NEW a \in Attempts, NEW kind \in Kinds, Answer(a, kind),
           UNCHANGED <<world, tableSlot, slot>>,
           tx' = tx \/ tx' = [tx EXCEPT ![a] = "inflight"],
           table' = table \/ table' = [table EXCEPT ![a] = "inflight"]
    PROVE  Effect(a)
<1>1. at' \in [Attempts -> AtRecords] /\ Others(a) /\ Ends(a, kind)
    BY AnswerEnds
<1>2. TableOk("done", table'[a], tableSlot[a], at'[a].mark, slot)
    BY DEF TableInv, TableOk
<1> QED
    BY <1>1, <1>2 DEF Effect, Ends

LEMMA FailEffect ==
    ASSUME TypeOK, TableInv, NEW a \in Attempts, NEW kind \in Kinds, Fail(a, kind),
           UNCHANGED world
    PROVE  Effect(a)
<1>1. Answer(a, kind) /\ UNCHANGED <<tx, table, tableSlot, slot>>
    BY DEF Fail, cluster
<1> QED
    BY <1>1, AnswerEffect

-----------------------------------------------------------------------------
(* The steps of an attempt *)

LEMMA TableSendEffect ==
    ASSUME TypeOK, TableInv, NEW a \in Attempts, TableSend(a), UNCHANGED world
    PROVE  Effect(a)
<1>1. CASE Poll(a, "table_confirm") /\ UNCHANGED key /\ TableReached(a)
  <2>1. /\ at' \in [Attempts -> AtRecords] /\ Others(a)
        /\ at'[a].pc = "table_confirm" /\ at'[a].answer = at[a].answer
      BY <1>1, PollMoves DEF Calls, Waiting
  <2>2. TableOk("table_confirm", table'[a], tableSlot[a], at'[a].mark, slot)
      BY DEF TableInv, TableOk
  <2> QED
      BY <1>1, <2>1, <2>2 DEF Effect, Stays, TableReached, Calls, Waiting
<1>2. CASE Fail(a, "failed")
    BY <1>2, FailEffect DEF Kinds
<1>3. CASE Answer(a, "failed") /\ TableReached(a)
    BY <1>3, AnswerEffect DEF Kinds, TableReached
<1> QED
    BY <1>1, <1>2, <1>3 DEF TableSend

LEMMA TableMarkEffect ==
    ASSUME TypeOK, TableInv, NEW a \in Attempts, TableMark(a), UNCHANGED world
    PROVE  Effect(a)
<1>1. CASE /\ at' = [at EXCEPT ![a].pc = "table_warm", ![a].tries = 0, ![a].mark = slot]
           /\ UNCHANGED <<key, cluster>>
  <2> DEFINE c == [at[a] EXCEPT !.pc = "table_warm", !.tries = 0, !.mark = slot]
  <2>1. at \in [Attempts -> AtRecords] /\ at[a] \in AtRecords /\ slot \in 0..world.slots
      BY DEF TypeOK
  <2>2. "table_warm" \in Calls /\ 0 \in 0..RpcAttempts - 1
      BY WorldType DEF Calls, Waiting
  <2>3. /\ c \in AtRecords /\ c.pc = "table_warm" /\ c.answer = at[a].answer /\ c.mark = slot
      BY <2>1, <2>2 DEF AtRecords
  <2>4. at' = [at EXCEPT ![a] = c]
      BY <1>1, <2>1
  <2>5. at' \in [Attempts -> AtRecords] /\ Others(a) /\ at'[a] = c
      BY <2>1, <2>3, <2>4 DEF Others
  <2>6. TableOk("table_warm", table[a], tableSlot[a], slot, slot)
      BY DEF TableMark, TableInv, TableOk
  <2> QED
      BY <1>1, <2>2, <2>3, <2>5, <2>6 DEF Effect, Stays, cluster
<1>2. CASE Fail(a, "failed")
    BY <1>2, FailEffect DEF Kinds
<1> QED
    BY <1>1, <1>2 DEF TableMark

LEMMA SendEffect ==
    ASSUME TypeOK, TableInv, NEW a \in Attempts, Send(a), UNCHANGED world
    PROVE  Effect(a)
<1>1. CASE Poll(a, "confirm") /\ UNCHANGED key /\ Reached(a)
  <2>1. /\ at' \in [Attempts -> AtRecords] /\ Others(a)
        /\ at'[a].pc = "confirm" /\ at'[a].answer = at[a].answer
      BY <1>1, PollMoves DEF Calls, Waiting
  <2>2. TableOk("confirm", table[a], tableSlot[a], at'[a].mark, slot)
      BY DEF Send, TableInv, TableOk
  <2> QED
      BY <1>1, <2>1, <2>2 DEF Effect, Stays, Reached, Calls, Waiting
<1>2. CASE Fail(a, "failed")
    BY <1>2, FailEffect DEF Kinds
<1>3. CASE Answer(a, "failed") /\ Reached(a)
    BY <1>3, AnswerEffect DEF Kinds, Reached
<1> QED
    BY <1>1, <1>2, <1>3 DEF Send

LEMMA WorkEffect ==
    ASSUME TypeOK, TableInv, NEW a \in Attempts, Work(a)
    PROVE  Effect(a) /\ at[a].pc \in Calls
<1> USE DEF Kinds, Calls, Waiting
<1>1. world' = world /\ TableOk(at[a].pc, table[a], tableSlot[a], at[a].mark, slot)
    BY DEF Work, TableInv
<1>2. /\ table[a] \in {"none", "inflight", "landed", "failed"}
      /\ tableSlot[a] \in Nat /\ slot \in Nat /\ at[a].mark \in Nat
    BY WorldType DEF TypeOK, AtRecords
<1>3. CASE Checks(a)
  <2>1. \A where \in {"fetch_alt", "table_setup"} :
           TableOk(where, table[a], tableSlot[a], at[a].mark, slot)
      BY <1>1, <1>3 DEF Checks, TableOk
  <2> QED
      BY <1>1, <1>3, <2>1, StepEffect, FailEffect DEF Checks
<1>4. CASE FetchAlt(a)
  <2>1. TableOk("build", table[a], tableSlot[a], at[a].mark, slot)
      BY <1>1, <1>4 DEF FetchAlt, TableOk
  <2> QED
      BY <1>1, <1>4, <2>1, StepEffect, FailEffect DEF FetchAlt
<1>5. CASE TableSetup(a)
  <2>1. TableOk("table_send", table[a], tableSlot[a], at[a].mark, slot)
      BY <1>1, <1>5 DEF TableSetup, TableOk
  <2> QED
      BY <1>1, <1>5, <2>1, StepEffect, FailEffect DEF TableSetup
<1>6. CASE TableSend(a)
    BY <1>1, <1>6, TableSendEffect DEF TableSend
<1>7. CASE TableConfirm(a)
  <2>1. table[a] = "landed" => TableOk("table_mark", table[a], tableSlot[a], at[a].mark, slot)
      BY <1>1 DEF TableOk
  <2> QED
      BY <1>1, <1>7, <2>1, StepEffect, FailEffect DEF TableConfirm
<1>8. CASE TableMark(a)
    BY <1>1, <1>8, TableMarkEffect DEF TableMark
<1>9. CASE TableWarm(a)
  <2>1. slot > at[a].mark => TableOk("build", table[a], tableSlot[a], at[a].mark, slot)
      BY <1>1, <1>2, <1>9 DEF TableWarm, TableOk
  <2> QED
      BY <1>1, <1>9, <2>1, StepEffect, FailEffect DEF TableWarm
<1>10. CASE Build(a)
  <2>1. TableOk("simulate", table[a], tableSlot[a], at[a].mark, slot)
      BY <1>1, <1>10 DEF Build, TableOk
  <2>2. table[a] = "none" => TableOk("table_setup", table[a], tableSlot[a], at[a].mark, slot)
      BY <1>1 DEF TableOk
  <2> QED
      BY <1>1, <1>10, <2>1, <2>2, StepEffect, FailEffect DEF Build
<1>11. CASE Simulate(a)
  <2>1. TableOk("send", table[a], tableSlot[a], at[a].mark, slot)
      BY <1>1, <1>11 DEF Simulate, TableOk
  <2> QED
      BY <1>1, <1>11, <2>1, StepEffect, FailEffect DEF Simulate
<1>12. CASE Send(a)
    BY <1>1, <1>12, SendEffect DEF Send
<1>13. CASE Confirm(a)
  <2>1. \E kind \in Kinds : Fail(a, kind)
      BY <1>13 DEF Confirm, ReadStatus, StatusUnreadable, Unresolved
  <2> QED
      BY <1>1, <1>13, <2>1, FailEffect DEF Confirm
<1> QED
    BY <1>3, <1>4, <1>5, <1>6, <1>7, <1>8, <1>9, <1>10, <1>11, <1>12, <1>13 DEF Work

\* An answer that is retried, or asked for again.
LEMMA RetryEffect ==
    ASSUME TypeOK, TableInv, NEW a \in Attempts, RateLimited(a) \/ PollAgain(a),
           UNCHANGED world
    PROVE  Effect(a) /\ at[a].pc \in Calls
<1>1. at \in [Attempts -> AtRecords] /\ at[a] \in AtRecords
    BY DEF TypeOK
<1>2. CASE RateLimited(a)
  <2> DEFINE c == [at[a] EXCEPT !.tries = at[a].tries + 1]
  <2>1. at[a].tries + 1 \in 0..RpcAttempts - 1
      BY <1>1, <1>2, SolanaAssumption DEF AtRecords, RateLimited
  <2>2. /\ c \in AtRecords /\ c.pc = at[a].pc /\ c.answer = at[a].answer
        /\ c.mark = at[a].mark
      BY <1>1, <2>1 DEF AtRecords
  <2>3. at' = [at EXCEPT ![a] = c]
      BY <1>1, <1>2 DEF RateLimited
  <2>4. at' \in [Attempts -> AtRecords] /\ Others(a) /\ at'[a] = c
      BY <1>1, <2>2, <2>3 DEF Others
  <2> QED
      BY <1>2, <2>2, <2>4 DEF RateLimited, Effect, Stays, cluster, TableInv
<1>3. CASE PollAgain(a)
  <2>1. at[a].pc \in Calls
      BY <1>3 DEF PollAgain, Calls
  <2> QED
      BY <1>3, <2>1, GotoMoves DEF PollAgain, Effect, Stays, cluster, TableInv
<1> QED
    BY <1>2, <1>3

-----------------------------------------------------------------------------
(* The invariant is kept *)

\* At most one of two attempts of a key goes from nothing to a launch, and
\* none does in a step of an attempt.
LEMMA EffectKeepsLaunches ==
    ASSUME TypeOK, OneLaunchPerKey, NEW a \in Attempts, Effect(a)
    PROVE  OneLaunchPerKey'
<1>1. \A q \in Attempts : tx'[q] \in {"processed", "confirmed"} => tx'[q] = tx[q]
    BY DEF TypeOK, Effect
<1> QED
    BY <1>1 DEF OneLaunchPerKey

LEMMA EffectKeepsTables ==
    ASSUME TypeOK, TableInv, NEW a \in Attempts, Effect(a)
    PROVE  TableInv'
<1> SUFFICES ASSUME NEW q \in Attempts
             PROVE  TableOk(at'[q].pc, table'[q], tableSlot'[q], at'[q].mark, slot')
    BY DEF TableInv, TableOk
<1>1. CASE q = a
    BY <1>1 DEF Effect
<1>2. CASE q # a
  <2>1. at'[q] = at[q] /\ table'[q] = table[q]
      BY <1>2 DEF Effect, Others, TypeOK
  <2> QED
      BY <2>1 DEF Effect, TableInv
<1> QED
    BY <1>1, <1>2

LEMMA EffectKeepsType ==
    ASSUME TypeOK, NEW a \in Attempts, Effect(a)
    PROVE  TypeOK'
<1>1. \A kind \in Kinds : Outcome(kind) \in {"free", "busy", "done", "doubt"}
    BY DEF Outcome
<1>2. key' \in [Keys -> {"free", "busy", "done", "doubt"}]
  <2>1. CASE Stays(a)
      BY <2>1 DEF Stays, TypeOK
  <2>2. CASE \E kind \in Kinds : Ends(a, kind)
      BY <1>1, <2>2 DEF Ends, TypeOK
  <2> QED
      BY <2>1, <2>2 DEF Effect
<1>3. tx' \in [Attempts -> TxStates]
    BY DEF Effect, TypeOK, TxStates
<1>4. table' \in [Attempts -> {"none", "inflight", "landed", "failed"}]
    BY DEF Effect, TypeOK
<1>5. (at \in [Attempts -> AtRecords])'
    BY DEF Effect, AtRecords
<1> QED
    BY <1>2, <1>3, <1>4, <1>5 DEF Effect, TypeOK

LEMMA EffectKeepsKeys ==
    ASSUME TypeOK, KeyInv, NEW a \in Attempts, at[a].pc \in Calls, Effect(a)
    PROVE  KeyInv'
<1>1. \A q \in Attempts \ {a} : at'[q] = at[q] /\ tx'[q] = tx[q]
    BY DEF Effect, Others, TypeOK
<1>2. at'[a].pc # "idle"
    BY DEF Effect, Stays, Ends, Calls, Waiting
<1>3. at'[a].pc = "done" => at'[a].answer \in Kinds
    BY DEF Effect, Stays, Ends, Calls, Waiting
<1>4. \A q \in Attempts : at'[q].pc \in Calls => at[q].pc \in Calls
    BY <1>1
<1>5. ASSUME NEW q \in Attempts, KeyOf[q] # None
      PROVE  /\ at'[q].pc \in Calls => key'[KeyOf[q]] = "busy"
             /\ at'[q].pc = "done" /\ at'[q].answer \in {"ok", "in_doubt"}
                  => key'[KeyOf[q]] \in {"done", "doubt"}
  <2>1. CASE Stays(a)
    <3>1. key' = key /\ at'[a].pc # "done" /\ at'[a].pc \in Calls
        BY <2>1 DEF Stays, Calls, Waiting
    <3>2. CASE q = a
        BY <1>5, <3>1, <3>2 DEF KeyInv
    <3>3. CASE q # a
        BY <1>1, <1>5, <3>1, <3>3 DEF KeyInv
    <3> QED
        BY <3>2, <3>3
  <2>2. ASSUME NEW kind \in Kinds, Ends(a, kind)
        PROVE  /\ at'[q].pc \in Calls => key'[KeyOf[q]] = "busy"
               /\ at'[q].pc = "done" /\ at'[q].answer \in {"ok", "in_doubt"}
                    => key'[KeyOf[q]] \in {"done", "doubt"}
    <3>1. KeyOf[q] \in Keys /\ key \in [Keys -> {"free", "busy", "done", "doubt"}]
        BY <1>5, SolanaAssumption DEF TypeOK
    <3>2. CASE q = a
      <4>1. key'[KeyOf[q]] = Outcome(kind) /\ at'[q].pc = "done" /\ at'[q].answer = kind
          BY <1>5, <2>2, <3>1, <3>2 DEF Ends
      <4>2. kind \in {"ok", "in_doubt"} => Outcome(kind) \in {"done", "doubt"}
          BY DEF Outcome
      <4> QED
          BY <4>1, <4>2 DEF Calls, Waiting
    <3>3. CASE q # a /\ KeyOf[q] = KeyOf[a]
      <4>1. key[KeyOf[q]] = "busy" /\ at[q].pc \notin Calls
          BY <1>5, <3>3 DEF KeyInv
      <4> QED
          BY <1>1, <1>5, <3>3, <4>1 DEF KeyInv
    <3>4. CASE q # a /\ KeyOf[q] # KeyOf[a]
      <4>1. key'[KeyOf[q]] = key[KeyOf[q]]
          BY <2>2, <3>1, <3>4 DEF Ends
      <4> QED
          BY <1>1, <1>5, <3>4, <4>1 DEF KeyInv
    <3> QED
        BY <3>2, <3>3, <3>4
  <2> QED
      BY <2>1, <2>2 DEF Effect
<1>6. ASSUME NEW q \in Attempts, NEW p \in Attempts, KeyOf[q] # None, KeyOf[p] = KeyOf[q],
             at'[p].pc \in Calls, at'[q].pc \in Calls
      PROVE  p = q
    BY <1>4, <1>6 DEF KeyInv
<1>7. ASSUME NEW q \in Attempts
      PROVE  /\ at'[q].pc = "idle" => tx'[q] = "none"
             /\ at'[q].pc = "done" => at'[q].answer \in Kinds
    BY <1>1, <1>2, <1>3 DEF KeyInv
<1> QED
    BY <1>5, <1>6, <1>7 DEF KeyInv, Calls, Waiting, Kinds

LEMMA EffectKeeps ==
    ASSUME IInv, NEW a \in Attempts, at[a].pc \in Calls, Effect(a)
    PROVE  IInv'
BY EffectKeepsLaunches, EffectKeepsTables, EffectKeepsType, EffectKeepsKeys DEF IInv

\* A key is free only when no attempt of it runs or has left a launch.
LEMMA BeginKeeps == ASSUME IInv, NEW a \in Attempts, Begin(a), UNCHANGED world PROVE IInv'
<1>1. /\ at[a].pc = "idle" /\ UNCHANGED <<tx, table, tableSlot, slot, world>>
      /\ at \in [Attempts -> AtRecords]
    BY DEF Begin, cluster, IInv, TypeOK
<1>2. /\ at' \in [Attempts -> AtRecords] /\ Others(a)
      /\ at'[a].pc = "checks" /\ at'[a].mark = at[a].mark
    BY GotoMoves DEF Begin, IInv, Calls
<1>3. \A q \in Attempts \ {a} : at'[q] = at[q]
    BY <1>2 DEF Others
<1>4. TypeOK'
  <2>1. key' \in [Keys -> {"free", "busy", "done", "doubt"}]
      BY DEF Begin, IInv, TypeOK
  <2>2. (at \in [Attempts -> AtRecords])'
      BY <1>1, <1>2 DEF AtRecords
  <2> QED
      BY <1>1, <2>1, <2>2 DEF IInv, TypeOK
<1>5. TableInv'
  <2> SUFFICES ASSUME NEW q \in Attempts
               PROVE  TableOk(at'[q].pc, table[q], tableSlot[q], at'[q].mark, slot)
      BY <1>1 DEF TableInv, TableOk
  <2>1. TableOk(at[q].pc, table[q], tableSlot[q], at[q].mark, slot)
      BY DEF IInv, TableInv
  <2>2. CASE q = a
      BY <1>1, <1>2, <2>1, <2>2 DEF TableOk
  <2>3. CASE q # a
      BY <1>3, <2>1, <2>3
  <2> QED
      BY <2>2, <2>3
<1>6. KeyInv'
  <2>1. CASE KeyOf[a] = None
    <3>1. key' = key
        BY <2>1 DEF Begin
    <3> QED
        BY <1>1, <1>2, <1>3, <2>1, <3>1 DEF IInv, KeyInv, Calls, Waiting, Kinds
  <2>2. CASE KeyOf[a] # None
    <3>1. /\ KeyOf[a] \in Keys /\ key[KeyOf[a]] = "free"
          /\ key' = [key EXCEPT ![KeyOf[a]] = "busy"]
          /\ key \in [Keys -> {"free", "busy", "done", "doubt"}]
        BY <2>2, SolanaAssumption DEF Begin, IInv, TypeOK
    <3>2. \A q \in Attempts :
            KeyOf[q] = KeyOf[a]
            => at[q].pc \notin Calls
               /\ ~(at[q].pc = "done" /\ at[q].answer \in {"ok", "in_doubt"})
        BY <2>2, <3>1 DEF IInv, KeyInv
    <3>3. \A q \in Attempts :
            KeyOf[q] # None /\ KeyOf[q] # KeyOf[a] => key'[KeyOf[q]] = key[KeyOf[q]]
        BY <3>1, SolanaAssumption
    <3>4. key'[KeyOf[a]] = "busy"
        BY <3>1
    <3>5. ASSUME NEW q \in Attempts, KeyOf[q] # None
          PROVE  /\ at'[q].pc \in Calls => key'[KeyOf[q]] = "busy"
                 /\ at'[q].pc = "done" /\ at'[q].answer \in {"ok", "in_doubt"}
                      => key'[KeyOf[q]] \in {"done", "doubt"}
      <4>1. CASE KeyOf[q] = KeyOf[a]
          BY <1>2, <1>3, <3>2, <3>4, <4>1
      <4>2. CASE KeyOf[q] # KeyOf[a]
          BY <1>3, <3>3, <3>5, <4>2 DEF IInv, KeyInv
      <4> QED
          BY <4>1, <4>2
    <3>6. ASSUME NEW q \in Attempts, NEW p \in Attempts, KeyOf[q] # None,
                 KeyOf[p] = KeyOf[q], at'[p].pc \in Calls, at'[q].pc \in Calls
          PROVE  p = q
      <4>1. CASE p = a \/ q = a
          BY <1>3, <3>2, <3>6, <4>1
      <4>2. CASE p # a /\ q # a
          BY <1>3, <3>6, <4>2 DEF IInv, KeyInv
      <4> QED
          BY <4>1, <4>2
    <3>7. ASSUME NEW q \in Attempts
          PROVE  /\ at'[q].pc = "idle" => tx[q] = "none"
                 /\ at'[q].pc = "done" => at'[q].answer \in Kinds
        BY <1>2, <1>3 DEF IInv, KeyInv
    <3> QED
        BY <1>1, <3>5, <3>6, <3>7 DEF KeyInv, Calls, Waiting, Kinds
  <2> QED
      BY <2>1, <2>2
<1>7. OneLaunchPerKey'
    BY <1>1 DEF IInv, OneLaunchPerKey
<1> QED
    BY <1>4, <1>5, <1>6, <1>7 DEF IInv

LEMMA TickKeeps == ASSUME IInv, Tick PROVE IInv'
<1>1. /\ at \in [Attempts -> AtRecords] /\ UNCHANGED <<world, key, tx, table, tableSlot, slot>>
      /\ at' = [a \in Attempts |->
                  [at[a] EXCEPT !.timer = IF at[a].timer > 0 THEN at[a].timer - 1 ELSE 0]]
    BY DEF Tick, cluster, IInv, TypeOK
<1>2. ASSUME NEW a \in Attempts
      PROVE  /\ at'[a] \in AtRecords /\ at'[a].pc = at[a].pc
             /\ at'[a].mark = at[a].mark /\ at'[a].answer = at[a].answer
  <2>1. at[a] \in AtRecords /\ world.confirmTicks \in Nat
      BY <1>1, WorldType DEF IInv
  <2>2. (IF at[a].timer > 0 THEN at[a].timer - 1 ELSE 0) \in 0..world.confirmTicks
      BY <2>1 DEF AtRecords
  <2> QED
      BY <1>1, <2>1, <2>2 DEF AtRecords
<1>3. TypeOK'
  <2>1. at' \in [Attempts -> AtRecords]
      BY <1>1, <1>2
  <2>2. (at \in [Attempts -> AtRecords])'
      BY <1>1, <2>1 DEF AtRecords
  <2> QED
      BY <1>1, <2>2 DEF IInv, TypeOK
<1>4. TableInv'
    BY <1>1, <1>2 DEF IInv, TableInv, TableOk
<1>5. KeyInv'
    BY <1>1, <1>2 DEF IInv, KeyInv, Calls, Waiting, Kinds
<1>6. OneLaunchPerKey'
    BY <1>1 DEF IInv, OneLaunchPerKey
<1> QED
    BY <1>3, <1>4, <1>5, <1>6 DEF IInv

\* The launch transactions that the cluster moves.
LEMMA ClusterKeepsRest ==
    ASSUME IInv, UNCHANGED <<world, at, key, table, tableSlot, slot>>,
           tx' \in [Attempts -> TxStates],
           \A a \in Attempts : tx[a] = "none" => tx'[a] = "none"
    PROVE  TypeOK' /\ TableInv' /\ KeyInv'
<1>1. TypeOK'
    BY DEF IInv, TypeOK, AtRecords, TxStates
<1>2. TableInv'
    BY DEF IInv, TableInv, TableOk
<1>3. KeyInv'
    BY DEF IInv, KeyInv, Calls, Waiting, Kinds
<1> QED
    BY <1>1, <1>2, <1>3

\* initialize_launch finds the account of a rival.
LEMMA ExecuteKeeps == ASSUME IInv, NEW a \in Attempts, Execute(a), UNCHANGED world PROVE IInv'
<1>1. UNCHANGED <<world, at, key, table, tableSlot, slot>> /\ tx \in [Attempts -> TxStates]
    BY DEF Execute, IInv, TypeOK
<1>2. /\ tx' \in [Attempts -> TxStates]
      /\ \A q \in Attempts : tx[q] = "none" => tx'[q] = "none"
    BY <1>1 DEF Execute, TxStates
<1>3. OneLaunchPerKey'
  <2>1. CASE /\ \A q \in Rivals(a) : tx[q] \notin {"processed", "confirmed"}
             /\ tx' = [tx EXCEPT ![a] = "processed"]
    <3>1. \A q \in Attempts \ {a} :
            KeyOf[a] # None /\ KeyOf[q] = KeyOf[a]
            => tx'[q] \notin {"processed", "confirmed"}
        BY <1>1, <2>1 DEF Rivals, Seed
    <3>2. \A q \in Attempts \ {a} : tx'[q] = tx[q]
        BY <1>1, <2>1
    <3> QED
        BY <3>1, <3>2 DEF IInv, OneLaunchPerKey
  <2>2. CASE tx' = [tx EXCEPT ![a] = "failing"]
      BY <1>1, <2>2 DEF IInv, OneLaunchPerKey
  <2> QED
      BY <2>1, <2>2 DEF Execute
<1> QED
    BY <1>1, <1>2, <1>3, ClusterKeepsRest DEF IInv

LEMMA ExpireKeeps == ASSUME IInv, NEW a \in Attempts, Expire(a), UNCHANGED world PROVE IInv'
<1>1. UNCHANGED <<world, at, key, table, tableSlot, slot>> /\ tx \in [Attempts -> TxStates]
    BY DEF Expire, IInv, TypeOK
<1>2. /\ tx' \in [Attempts -> TxStates]
      /\ \A q \in Attempts : tx[q] = "none" => tx'[q] = "none"
      /\ \A q \in Attempts : tx'[q] \in {"processed", "confirmed"} => tx'[q] = tx[q]
    BY <1>1 DEF Expire, TxStates
<1>3. OneLaunchPerKey'
    BY <1>2 DEF IInv, OneLaunchPerKey
<1> QED
    BY <1>1, <1>2, <1>3, ClusterKeepsRest DEF IInv

LEMMA VoteKeeps == ASSUME IInv, Vote, UNCHANGED world PROVE IInv'
<1>1. UNCHANGED <<world, at, key, table, tableSlot, slot>> /\ tx \in [Attempts -> TxStates]
    BY DEF Vote, IInv, TypeOK
<1>2. ASSUME NEW q \in Attempts
      PROVE  /\ tx'[q] \in TxStates /\ (tx[q] = "none" => tx'[q] = "none")
             /\ tx'[q] \in {"processed", "confirmed"} => tx[q] \in {"processed", "confirmed"}
    BY <1>1 DEF Vote, Settled, Dropped, TxStates
<1>3. tx' \in [Attempts -> TxStates]
    BY <1>1, <1>2 DEF Vote
<1>4. OneLaunchPerKey'
    BY <1>2 DEF IInv, OneLaunchPerKey
<1> QED
    BY <1>1, <1>2, <1>3, <1>4, ClusterKeepsRest DEF IInv

\* Tables are executed while their attempt waits, or after it has ended.
LEMMA ExecuteTableKeeps ==
    ASSUME IInv, NEW a \in Attempts, ExecuteTable(a), UNCHANGED world
    PROVE  IInv'
<1>1. /\ UNCHANGED <<world, at, key, tx, slot>> /\ table[a] = "inflight"
      /\ tableSlot' = [tableSlot EXCEPT ![a] = slot]
      /\ slot \in 0..world.slots
      /\ table \in [Attempts -> {"none", "inflight", "landed", "failed"}]
      /\ tableSlot \in [Attempts -> 0..world.slots]
    BY DEF ExecuteTable, IInv, TypeOK
<1>2. PICK result \in {"landed", "failed"} : table' = [table EXCEPT ![a] = result]
    BY DEF ExecuteTable
<1>3. TypeOK'
  <2>1. /\ table' \in [Attempts -> {"none", "inflight", "landed", "failed"}]
        /\ tableSlot' \in [Attempts -> 0..world.slots]
      BY <1>1, <1>2
  <2> QED
      BY <1>1, <2>1 DEF IInv, TypeOK, AtRecords
<1>4. TableInv'
  <2> SUFFICES ASSUME NEW q \in Attempts
               PROVE  TableOk(at[q].pc, table'[q], tableSlot'[q], at[q].mark, slot)
      BY <1>1 DEF TableInv, TableOk
  <2>1. TableOk(at[q].pc, table[q], tableSlot[q], at[q].mark, slot)
      BY DEF IInv, TableInv
  <2>2. CASE q = a
    <3>1. table'[q] = result /\ tableSlot'[q] = slot /\ slot \in Int
        BY <1>1, <1>2, <2>2, WorldType DEF IInv
    <3>2. at[q].pc \notin {"idle", "checks", "fetch_alt", "table_setup", "table_send",
                          "table_mark", "table_warm", "build", "simulate", "send", "confirm"}
        BY <1>1, <2>1, <2>2 DEF TableOk
    <3> QED
        BY <3>1, <3>2 DEF TableOk
  <2>3. CASE q # a
      BY <1>1, <1>2, <2>1, <2>3
  <2> QED
      BY <2>2, <2>3
<1>5. KeyInv'
    BY <1>1 DEF IInv, KeyInv, Calls, Waiting, Kinds
<1>6. OneLaunchPerKey'
    BY <1>1 DEF IInv, OneLaunchPerKey
<1> QED
    BY <1>3, <1>4, <1>5, <1>6 DEF IInv

LEMMA NextSlotKeeps == ASSUME IInv, NextSlot, UNCHANGED world PROVE IInv'
<1>1. /\ UNCHANGED <<world, at, key, tx, table, tableSlot>>
      /\ slot' = slot + 1 /\ slot < world.slots /\ slot \in Nat /\ world.slots \in Nat
    BY WorldType DEF NextSlot, IInv, TypeOK
<1>2. TypeOK'
  <2>1. slot' \in 0..world.slots
      BY <1>1
  <2> QED
      BY <1>1, <2>1 DEF IInv, TypeOK, AtRecords
<1>3. TableInv'
  <2> SUFFICES ASSUME NEW q \in Attempts
               PROVE  TableOk(at[q].pc, table[q], tableSlot[q], at[q].mark, slot + 1)
      BY <1>1 DEF TableInv, TableOk
  <2>1. /\ TableOk(at[q].pc, table[q], tableSlot[q], at[q].mark, slot)
        /\ tableSlot[q] \in Nat
      BY <1>1 DEF IInv, TableInv, TypeOK
  <2> QED
      BY <1>1, <2>1 DEF TableOk
<1>4. KeyInv'
    BY <1>1 DEF IInv, KeyInv, Calls, Waiting, Kinds
<1>5. OneLaunchPerKey'
    BY <1>1 DEF IInv, OneLaunchPerKey
<1> QED
    BY <1>2, <1>3, <1>4, <1>5 DEF IInv

LEMMA StutterKeeps == ASSUME IInv, UNCHANGED vars PROVE IInv'
<1>1. /\ world' = world /\ at' = at /\ key' = key /\ tx' = tx /\ table' = table
      /\ tableSlot' = tableSlot /\ slot' = slot
    BY DEF vars
<1>2. TypeOK'
    BY <1>1 DEF IInv, TypeOK, AtRecords
<1>3. TableInv'
    BY <1>1 DEF IInv, TableInv, TableOk
<1>4. KeyInv'
    BY <1>1 DEF IInv, KeyInv, Calls, Waiting, Kinds
<1>5. OneLaunchPerKey'
    BY <1>1 DEF IInv, OneLaunchPerKey
<1> QED
    BY <1>2, <1>3, <1>4, <1>5 DEF IInv

LEMMA InitHolds == ASSUME Init PROVE IInv
<1>1. world.confirmTicks \in Nat /\ world.slots \in Nat /\ 0 \in 0..RpcAttempts - 1
    BY SolanaAssumption DEF Init
<1>2. /\ 0 \in 0..world.confirmTicks /\ 0 \in 0..world.slots
    BY <1>1
<1>3. at \in [Attempts -> AtRecords]
    BY <1>1, <1>2 DEF Init, AtRecords
<1>4. TypeOK
    BY <1>2, <1>3 DEF Init, TypeOK, TxStates
<1>5. TableInv
    BY DEF Init, TableInv, TableOk
<1>6. KeyInv /\ OneLaunchPerKey
    BY DEF Init, KeyInv, OneLaunchPerKey, Calls, Waiting
<1> QED
    BY <1>4, <1>5, <1>6 DEF IInv

THEOREM Inductive == Spec => []IInv
<1>1. IInv /\ [Next]_vars => IInv'
  <2> SUFFICES ASSUME IInv, [Next]_vars PROVE IInv'
      OBVIOUS
  <2>1. ASSUME NEW a \in Attempts, Work(a) PROVE IInv'
      BY <2>1, WorkEffect, EffectKeeps DEF IInv
  <2>2. ASSUME NEW a \in Attempts, RateLimited(a) \/ PollAgain(a), UNCHANGED world PROVE IInv'
      BY <2>2, RetryEffect, EffectKeeps DEF IInv
  <2>3. ASSUME NEW a \in Attempts, Begin(a), UNCHANGED world PROVE IInv'
      BY <2>3, BeginKeeps
  <2>4. CASE Tick
      BY <2>4, TickKeeps
  <2>5. CASE UNCHANGED world /\ Cluster
      BY <2>5, NextSlotKeeps, VoteKeeps, ExecuteTableKeeps, ExecuteKeeps, ExpireKeeps
         DEF Cluster
  <2>6. CASE UNCHANGED vars
      BY <2>6, StutterKeeps
  <2> QED
      BY <2>1, <2>2, <2>3, <2>4, <2>5, <2>6 DEF Next
<1>2. Init => IInv
    BY InitHolds
<1> QED
    BY <1>1, <1>2, PTL DEF Spec

\* The state of createLaunch() and of the cluster keeps its shape.
THEOREM TypeCorrect == Spec => []TypeOK
<1>1. IInv => TypeOK
    BY DEF IInv
<1> QED
    BY Inductive, <1>1, PTL

\* However many attempts retry a key, and whatever the node and the cluster
\* do, one transaction at most creates the launch at the key's address.
THEOREM LaunchesOnce == Spec => []OneLaunchPerKey
<1>1. IInv => OneLaunchPerKey
    BY DEF IInv
<1> QED
    BY Inductive, <1>1, PTL

\* Until its attempt is answered with a plain error, a transaction that may
\* create a launch keeps its key from being used again.
THEOREM KeysStayClosed == Spec => []LiveLaunchHoldsItsKey
<1>1. IInv => LiveLaunchHoldsItsKey
  <2> SUFFICES ASSUME IInv, NEW a \in Attempts, KeyOf[a] # None,
                      at[a].answer \notin {"refused", "failed"},
                      tx[a] \in {"inflight", "processed", "confirmed"}
               PROVE  key[KeyOf[a]] # "free"
      BY DEF LiveLaunchHoldsItsKey
  <2>1. at[a].pc \in Calls \union {"done"}
    <3>1. at[a].pc \in {"idle", "done"} \union Calls
        BY DEF IInv, TypeOK, AtRecords
    <3>2. at[a].pc # "idle"
        BY DEF IInv, KeyInv
    <3> QED
        BY <3>1, <3>2
  <2>2. at[a].pc \in Calls => key[KeyOf[a]] = "busy"
      BY DEF IInv, KeyInv
  <2>3. at[a].pc = "done" => key[KeyOf[a]] \in {"done", "doubt"}
      BY DEF IInv, KeyInv, Kinds
  <2> QED
      BY <2>1, <2>2, <2>3
<1> QED
    BY Inductive, <1>1, PTL

\* solana-rpc.ts hands out a lookup table only in a slot after the one that
\* executed its setup.
THEOREM TablesAreWarm == Spec => []OwnTableIsWarm
<1>1. IInv => OwnTableIsWarm
  <2> SUFFICES ASSUME IInv, NEW a \in Attempts,
                      at[a].pc \in {"build", "simulate", "send", "confirm"},
                      table[a] # "none"
               PROVE  table[a] = "landed" /\ slot > tableSlot[a]
      BY DEF OwnTableIsWarm
  <2>1. TableOk(at[a].pc, table[a], tableSlot[a], at[a].mark, slot)
      BY DEF IInv, TableInv
  <2>2. slot \in Nat /\ tableSlot[a] \in Nat
      BY WorldType DEF IInv, TypeOK
  <2> QED
      BY <2>1, <2>2 DEF TableOk
<1> QED
    BY Inductive, <1>1, PTL

-----------------------------------------------------------------------------
(* The contract *)

\* On a cluster without forks, with sends that fail only when they failed, a
\* transaction is on its way only for an attempt that confirms it or has ended,
\* an attempt that failed has none that may create a launch, and two of one
\* address never do.
Made == {"processed", "confirmed"}
Open == {"inflight"} \union Made
Dead == {"failing", "rejected", "expired"}

PromiseInv ==
    Promised =>
        /\ \A a \in Attempts :
             /\ tx[a] # "none" => at[a].pc \in {"confirm", "done"}
             /\ at[a].pc # "done" => at[a].answer = None
             /\ at[a].pc = "done" /\ at[a].answer \in {"refused", "failed"}
                  => tx[a] \notin Open
        /\ \A a, q \in Attempts :
             a # q /\ Seed(a) = Seed(q) => tx[a] \notin Open \/ tx[q] \notin Open

\* What a step of an attempt does besides its effect.
Detail(a) ==
    /\ \/ tx' = tx
       \/ /\ at[a].pc = "send" /\ at'[a].pc = "confirm"
          /\ tx' = [tx EXCEPT ![a] = "inflight"]
    /\ at'[a].pc = "done" =>
         /\ tx' = tx
         /\ at'[a].answer = "ok" => AccountExists(a)
         /\ at'[a].answer \in {"refused", "failed"}
              => at[a].pc # "confirm" \/ tx[a] \in Dead
    /\ at[a].pc = "confirm" => at'[a].pc \in {"confirm", "done"}

LEMMA FailDetail ==
    ASSUME TypeOK, NEW a \in Attempts, NEW kind \in Kinds, Fail(a, kind),
           kind = "ok" => AccountExists(a),
           kind \in {"refused", "failed"} => at[a].pc # "confirm" \/ tx[a] \in Dead
    PROVE  Detail(a)
<1>1. at'[a].pc = "done" /\ at'[a].answer = kind /\ tx' = tx
    BY AnswerEnds DEF Fail, Ends, cluster
<1> QED
    BY <1>1 DEF Detail

LEMMA StepDetail ==
    ASSUME TypeOK, NEW a \in Attempts, NEW where \in Calls, Step(a, where),
           at[a].pc # "confirm"
    PROVE  Detail(a)
<1>1. at'[a].pc = where /\ tx' = tx /\ where # "done"
    BY GotoMoves DEF Step, cluster, Calls, Waiting
<1> QED
    BY <1>1 DEF Detail

LEMMA WorkDetail ==
    ASSUME TypeOK, Promised, NEW a \in Attempts, Work(a)
    PROVE  Detail(a)
<1> USE DEF Kinds, Calls, Waiting
<1>1. ~world.ambiguous
    BY DEF Promised
<1>2. CASE Checks(a) \/ FetchAlt(a) \/ TableSetup(a)
    BY <1>2, StepDetail, FailDetail DEF Checks, FetchAlt, TableSetup
<1>3. CASE TableSend(a)
  <2>1. CASE Poll(a, "table_confirm") /\ UNCHANGED key /\ TableReached(a)
    <3>1. at'[a].pc = "table_confirm" /\ tx' = tx /\ at[a].pc = "table_send"
        BY <1>3, <2>1, PollMoves DEF TableReached, TableSend
    <3> QED
        BY <3>1 DEF Detail
  <2>2. CASE Fail(a, "failed")
      BY <1>3, <2>2, FailDetail DEF TableSend
  <2> QED
      BY <1>1, <1>3, <2>1, <2>2 DEF TableSend
<1>4. CASE TableConfirm(a) \/ TableWarm(a)
    BY <1>4, StepDetail, FailDetail DEF TableConfirm, TableWarm
<1>5. CASE TableMark(a)
  <2>1. CASE /\ at' = [at EXCEPT ![a].pc = "table_warm", ![a].tries = 0, ![a].mark = slot]
             /\ UNCHANGED <<key, cluster>>
    <3>1. at'[a].pc = "table_warm" /\ tx' = tx /\ at[a].pc = "table_mark"
        BY <1>5, <2>1 DEF TypeOK, AtRecords, cluster, TableMark
    <3> QED
        BY <3>1 DEF Detail
  <2>2. CASE Fail(a, "failed")
      BY <1>5, <2>2, FailDetail DEF TableMark
  <2> QED
      BY <1>5, <2>1, <2>2 DEF TableMark
<1>6. CASE Build(a) \/ Simulate(a)
    BY <1>6, StepDetail, FailDetail DEF Build, Simulate
<1>7. CASE Send(a)
  <2>1. CASE Poll(a, "confirm") /\ UNCHANGED key /\ Reached(a)
    <3>1. /\ at'[a].pc = "confirm" /\ at[a].pc = "send"
          /\ tx' = [tx EXCEPT ![a] = "inflight"]
        BY <1>7, <2>1, PollMoves DEF Reached, Send
    <3> QED
        BY <3>1 DEF Detail
  <2>2. CASE Fail(a, "failed")
      BY <1>7, <2>2, FailDetail DEF Send
  <2> QED
      BY <1>1, <1>7, <2>1, <2>2 DEF Send
<1>8. CASE Confirm(a)
  <2>1. CASE RejectedStatus(a) /\ Fail(a, "failed")
      BY <2>1, FailDetail DEF RejectedStatus, Dead
  <2>2. CASE ConfirmedStatus(a) /\ Fail(a, "ok")
      BY <2>2, FailDetail DEF ConfirmedStatus, AccountExists
  <2>3. CASE AccountExists(a) /\ Fail(a, "ok")
      BY <2>3, FailDetail
  <2>4. CASE Fail(a, "in_doubt")
      BY <2>4, FailDetail
  <2> QED
      BY <1>8, <2>1, <2>2, <2>3, <2>4
         DEF Confirm, ReadStatus, StatusUnreadable, Unresolved
<1> QED
    BY <1>2, <1>3, <1>4, <1>5, <1>6, <1>7, <1>8 DEF Work

LEMMA RetryDetail ==
    ASSUME TypeOK, NEW a \in Attempts, RateLimited(a) \/ PollAgain(a)
    PROVE  Detail(a)
<1>1. CASE RateLimited(a)
  <2>1. at'[a].pc = at[a].pc /\ tx' = tx /\ at[a].pc # "done"
      BY <1>1 DEF RateLimited, cluster, TypeOK, AtRecords, Calls, Waiting
  <2> QED
      BY <2>1 DEF Detail
<1>2. CASE PollAgain(a)
  <2>1. at'[a].pc = at[a].pc /\ tx' = tx /\ at[a].pc # "done"
      BY <1>2, GotoMoves DEF PollAgain, cluster, Calls, Waiting
  <2> QED
      BY <2>1 DEF Detail
<1> QED
    BY <1>1, <1>2

\* A running attempt is alone at its address.
LEMMA NoRivals ==
    ASSUME IInv, PromiseInv, Promised, NEW a \in Attempts, at[a].pc \in Calls,
           NEW q \in Attempts, q # a, Seed(q) = Seed(a)
    PROVE  tx[q] \notin Open
<1>1. KeyOf[a] # None /\ KeyOf[q] = KeyOf[a]
    BY SolanaAssumption DEF Seed
<1>2. key[KeyOf[a]] = "busy" /\ at[q].pc \notin Calls
    BY <1>1 DEF IInv, KeyInv
<1>3. CASE at[q].pc = "idle"
    BY <1>3 DEF IInv, KeyInv, Open, Made
<1>4. CASE at[q].pc = "done"
  <2>1. at[q].answer \in {"refused", "failed"}
      BY <1>1, <1>2, <1>4 DEF IInv, KeyInv, Kinds
  <2> QED
      BY <1>4, <2>1 DEF PromiseInv
<1> QED
    BY <1>2, <1>3, <1>4 DEF IInv, TypeOK, AtRecords

\* What the contract sees of a step: the owners, who is out, the answers.
Shut == {a \in Attempts : Promised /\ Closed(a)}
Heard(a) == IF Promised THEN at[a].answer ELSE None

LEMMA Unseen ==
    ASSUME \A a \in Attempts : OwnerOf(Seed(a))' = OwnerOf(Seed(a)), Shut' = Shut,
           \A a \in Attempts : Heard(a)' = Heard(a)
    PROVE  UNCHANGED Promise!vars
BY DEF Promise!vars, Shut, Heard

LEMMA OwnersSteady ==
    ASSUME UNCHANGED world, \A q \in Attempts : tx'[q] \in Made <=> tx[q] \in Made
    PROVE  \A s : OwnerOf(s)' = OwnerOf(s)
<1> SUFFICES ASSUME NEW s PROVE OwnerOf(s)' = OwnerOf(s)
    OBVIOUS
<1>1. Owners(s)' = Owners(s)
    BY DEF Owners, Made, Promised
<1> QED
    BY <1>1 DEF OwnerOf

LEMMA OwnerMade ==
    ASSUME NEW a \in Attempts, OwnerOf(Seed(a)) = a
    PROVE  tx[a] \in Made
<1>1. Owners(Seed(a)) # {} /\ a = CHOOSE q \in Owners(Seed(a)) : TRUE
    BY SolanaAssumption DEF OwnerOf
<1>2. a \in Owners(Seed(a))
    BY <1>1
<1> QED
    BY <1>2 DEF Owners, Made

LEMMA MadeOwns ==
    ASSUME PromiseInv, Promised, NEW a \in Attempts, tx[a] \in Made
    PROVE  OwnerOf(Seed(a)) = a
<1>1. Owners(Seed(a)) = {a}
    BY DEF Owners, Made, Open, PromiseInv
<1> QED
    BY <1>1 DEF OwnerOf

\* Nothing is promised of such a world, and nothing happens in it.
LEMMA Unpromised ==
    ASSUME ~Promised, UNCHANGED world
    PROVE  PromiseInv' /\ UNCHANGED Promise!vars
<1>1. ~Promised'
    BY DEF Promised
<1>2. \A s : Owners(s) = {} /\ Owners(s)' = {}
    BY <1>1 DEF Owners
<1>3. \A s : OwnerOf(s)' = OwnerOf(s)
    BY <1>2 DEF OwnerOf
<1>4. Shut' = Shut /\ \A a \in Attempts : Heard(a)' = Heard(a)
    BY <1>1 DEF Shut, Heard
<1> QED
    BY <1>1, <1>3, <1>4, Unseen DEF PromiseInv

\* A step that creates no launch and answers nobody closes attempts at most.
LEMMA QuietStep ==
    ASSUME PromiseInv, Promised, UNCHANGED world,
           \A q \in Attempts :
               /\ at'[q].answer = at[q].answer
               /\ at'[q].pc = "done" <=> at[q].pc = "done"
               /\ at[q].pc = "confirm" => at'[q].pc = "confirm"
               /\ tx'[q] \in Made <=> tx[q] \in Made
               /\ tx[q] \in Dead => tx'[q] \in Dead
               /\ tx'[q] = "none" <=> tx[q] = "none"
               /\ tx'[q] \in Open => tx[q] \in Open
    PROVE  PromiseInv' /\ Promise!Close
<1>1. Promised'
    BY DEF Promised
<1>2. PromiseInv'
  <2>1. ASSUME NEW q \in Attempts
        PROVE  /\ tx'[q] # "none" => at'[q].pc \in {"confirm", "done"}
               /\ at'[q].pc # "done" => at'[q].answer = None
               /\ at'[q].pc = "done" /\ at'[q].answer \in {"refused", "failed"}
                    => tx'[q] \notin Open
      BY DEF PromiseInv
  <2>2. ASSUME NEW q \in Attempts, NEW r \in Attempts, q # r, Seed(q) = Seed(r)
        PROVE  tx'[q] \notin Open \/ tx'[r] \notin Open
      BY <2>2 DEF PromiseInv
  <2> QED
      BY <2>1, <2>2 DEF PromiseInv, Open, Made
<1>3. \A s : OwnerOf(s)' = OwnerOf(s)
    BY OwnersSteady
<1>4. \A q \in Attempts : Closed(q) => Closed(q)'
    BY DEF Closed, Dead
<1>5. ASSUME NEW q \in Attempts, Closed(q)', ~Closed(q)
      PROVE  OwnerOf(Seed(q)) # q
  <2>1. tx'[q] \in Dead
      BY <1>5 DEF Closed, Dead
  <2>2. tx[q] \notin Made
      BY <2>1 DEF Dead, Made
  <2> QED
      BY <2>2, OwnerMade
<1>6. Promise!Close
    BY <1>1, <1>3, <1>4, <1>5 DEF Promise!Close
<1> QED
    BY <1>2, <1>6

\* The service works on an attempt: it is answered, or nothing is seen.
LEMMA AttemptStep ==
    ASSUME IInv, PromiseInv, Promised, NEW a \in Attempts, at[a].pc \in Calls,
           Effect(a), Detail(a)
    PROVE  PromiseInv' /\ [Promise!Next]_(Promise!vars)
<1>1. /\ Promised' /\ UNCHANGED world
      /\ at \in [Attempts -> AtRecords] /\ tx \in [Attempts -> TxStates]
      /\ \A q \in Attempts \ {a} : at'[q] = at[q] /\ tx'[q] = tx[q]
    BY DEF Effect, Others, Promised, IInv, TypeOK
<1>2. at[a].pc # "confirm" => tx[a] = "none"
    BY DEF PromiseInv, Calls, Waiting
<1>3. at[a].pc # "done" /\ at[a].answer = None
    BY DEF PromiseInv, Calls, Waiting
<1>4. tx'[a] = tx[a] \/ (tx[a] = "none" /\ tx'[a] = "inflight" /\ at'[a].pc = "confirm")
    BY <1>1, <1>2 DEF Detail
<1>5. PromiseInv'
  <2>1. ASSUME NEW q \in Attempts
        PROVE  /\ tx'[q] # "none" => at'[q].pc \in {"confirm", "done"}
               /\ at'[q].pc # "done" => at'[q].answer = None
               /\ at'[q].pc = "done" /\ at'[q].answer \in {"refused", "failed"}
                    => tx'[q] \notin Open
    <3>1. CASE q # a
        BY <1>1, <3>1 DEF PromiseInv
    <3>2. tx'[a] # "none" => at'[a].pc \in {"confirm", "done"}
        BY <1>2, <1>4 DEF Detail
    <3>3. at'[a].pc # "done" => at'[a].answer = None
        BY <1>3 DEF Effect, Stays, Ends
    <3>4. at'[a].pc = "done" /\ at'[a].answer \in {"refused", "failed"} => tx'[a] \notin Open
        BY <1>2 DEF Detail, Open, Made, Dead
    <3> QED
        BY <3>1, <3>2, <3>3, <3>4
  <2>2. ASSUME NEW q \in Attempts, NEW r \in Attempts, q # r, Seed(q) = Seed(r)
        PROVE  tx'[q] \notin Open \/ tx'[r] \notin Open
    <3>1. CASE q = a
        BY <1>1, <2>2, <3>1, NoRivals
    <3>2. CASE r = a
        BY <1>1, <2>2, <3>2, NoRivals
    <3>3. CASE q # a /\ r # a
        BY <1>1, <2>2, <3>3 DEF PromiseInv
    <3> QED
        BY <3>1, <3>2, <3>3
  <2> QED
      BY <2>1, <2>2 DEF PromiseInv, Open, Made
<1>6. \A s : OwnerOf(s)' = OwnerOf(s)
    BY <1>1, <1>4, OwnersSteady DEF Made
<1>7. \A q \in Attempts \ {a} : Closed(q)' <=> Closed(q)
    BY <1>1 DEF Closed
<1>8. CASE Stays(a)
  <2>1. Closed(a)' <=> Closed(a)
      BY <1>3, <1>4, <1>8 DEF Closed, Stays, Calls, Waiting
  <2>2. Shut' = Shut
      BY <1>1, <1>7, <2>1 DEF Shut
  <2>3. \A q \in Attempts : Heard(q)' = Heard(q)
      BY <1>1, <1>8 DEF Heard, Stays
  <2>4. UNCHANGED Promise!vars
      BY <1>6, <2>2, <2>3, Unseen
  <2> QED
      BY <1>5, <2>4
<1>9. ASSUME NEW kind \in Kinds, Ends(a, kind) PROVE Promise!Tell(a)
  <2>1. at'[a].pc = "done" /\ at'[a].answer = kind /\ tx' = tx
      BY <1>9 DEF Ends, Detail
  <2>2. kind = "ok" => OwnerOf(Seed(a)) = a
    <3> SUFFICES ASSUME kind = "ok" PROVE tx[a] \in Made
        BY MadeOwns
    <3>1. AccountExists(a)
        BY <2>1 DEF Detail
    <3>2. \A q \in Rivals(a) : tx[q] # "confirmed"
        BY NoRivals DEF Rivals, Open, Made
    <3> QED
        BY <3>1, <3>2 DEF AccountExists, Made
  <2>3. kind \notin {"ok", "in_doubt"} => Closed(a)'
    <3> SUFFICES ASSUME kind \in {"refused", "failed"} PROVE Closed(a)'
        BY DEF Kinds
    <3>1. tx[a] = "none" \/ tx[a] \in Dead
        BY <1>2, <2>1 DEF Detail
    <3> QED
        BY <2>1, <3>1 DEF Closed, Dead
  <2>4. Closed(a) => Closed(a)'
      BY <2>1 DEF Closed
  <2>5. Closed(a)' => OwnerOf(Seed(a)) # a
    <3>1. Closed(a)' => tx[a] \notin Made
        BY <2>1 DEF Closed, Made
    <3> QED
        BY <3>1, OwnerMade
  <2>6. Shut' \in {Shut, Shut \union {a}} /\ (a \in Shut' <=> Closed(a)')
      BY <1>1, <1>7, <2>4 DEF Shut
  <2>7. /\ \A q \in Attempts \ {a} : Heard(q)' = Heard(q)
        /\ Heard(a) = None /\ Heard(a)' = kind
      BY <1>1, <1>3, <2>1 DEF Heard
  <2> QED
      BY <1>6, <2>2, <2>3, <2>5, <2>6, <2>7
         DEF Promise!Tell, Promise!Truthful, Shut, Heard, Kinds
<1> QED
    BY <1>5, <1>8, <1>9 DEF Effect, Promise!Next

\* A transaction that is executed creates the launch at its address.
LEMMA ExecuteStep ==
    ASSUME IInv, PromiseInv, Promised, UNCHANGED world, NEW a \in Attempts, Execute(a)
    PROVE  PromiseInv' /\ [Promise!Next]_(Promise!vars)
<1>1. UNCHANGED at /\ tx[a] = "inflight" /\ tx \in [Attempts -> TxStates] /\ Promised'
    BY DEF Execute, IInv, TypeOK, Promised
<1>2. CASE tx' = [tx EXCEPT ![a] = "failing"]
  <2>1. PromiseInv' /\ Promise!Close
      BY <1>1, <1>2, QuietStep DEF Made, Dead, Open
  <2> QED
      BY <2>1 DEF Promise!Next
<1>3. CASE /\ \A q \in Rivals(a) : tx[q] \notin {"processed", "confirmed"}
           /\ tx' = [tx EXCEPT ![a] = "processed"]
  <2>1. tx'[a] = "processed" /\ \A q \in Attempts \ {a} : tx'[q] = tx[q]
      BY <1>1, <1>3
  <2>2. PromiseInv'
    <3>1. \A q \in Attempts : (tx'[q] \in Open <=> tx[q] \in Open)
                             /\ (tx'[q] = "none" <=> tx[q] = "none")
        BY <1>1, <2>1 DEF Open, Made
    <3> QED
        BY <1>1, <3>1 DEF PromiseInv, Open, Made
  <2>3. Owners(Seed(a)) = {} /\ Owners(Seed(a))' = {a}
      BY <1>1, <1>3, <2>1 DEF Owners, Rivals
  <2>4. OwnerOf(Seed(a)) = None /\ OwnerOf(Seed(a))' = a
      BY <2>3 DEF OwnerOf
  <2>5. ASSUME NEW s, s # Seed(a) PROVE OwnerOf(s)' = OwnerOf(s)
    <3>1. Owners(s)' = Owners(s)
        BY <1>1, <2>1, <2>5 DEF Owners
    <3> QED
        BY <3>1 DEF OwnerOf
  <2>6. ~Closed(a) /\ \A q \in Attempts : Closed(q)' <=> Closed(q)
      BY <1>1, <2>1 DEF Closed
  <2>7. Shut' = Shut /\ a \notin Shut /\ \A q \in Attempts : Heard(q)' = Heard(q)
      BY <1>1, <2>6 DEF Shut, Heard
  <2>8. Promise!Create(a)
      BY <2>4, <2>5, <2>7 DEF Promise!Create, Shut, Heard
  <2> QED
      BY <2>2, <2>8 DEF Promise!Next
<1> QED
    BY <1>2, <1>3 DEF Execute

\* The other steps of the cluster, of the clock and of a caller.
LEMMA OtherStep ==
    ASSUME IInv, PromiseInv, Promised, UNCHANGED world,
           \/ Tick \/ NextSlot \/ Vote
           \/ \E a \in Attempts : Begin(a) \/ ExecuteTable(a) \/ Expire(a)
    PROVE  PromiseInv' /\ [Promise!Next]_(Promise!vars)
<1> SUFFICES PromiseInv' /\ Promise!Close
    BY DEF Promise!Next
<1>1. at \in [Attempts -> AtRecords] /\ tx \in [Attempts -> TxStates] /\ ~world.forks
    BY DEF IInv, TypeOK, Promised
<1>2. CASE Tick
  <2>1. /\ \A q \in Attempts : at'[q].pc = at[q].pc /\ at'[q].answer = at[q].answer
        /\ UNCHANGED tx
      BY <1>1, <1>2 DEF Tick, cluster, AtRecords
  <2> QED
      BY <2>1, QuietStep
<1>3. CASE NextSlot
    BY <1>3, QuietStep DEF NextSlot
<1>4. CASE Vote
  <2>1. UNCHANGED at /\ tx' = [q \in Attempts |-> Settled(tx[q])]
      BY <1>1, <1>4 DEF Vote
  <2>2. ASSUME NEW q \in Attempts
        PROVE  /\ tx'[q] \in Made <=> tx[q] \in Made
               /\ tx[q] \in Dead => tx'[q] \in Dead
               /\ tx'[q] = "none" <=> tx[q] = "none"
               /\ tx'[q] \in Open => tx[q] \in Open
      BY <2>1 DEF Settled, Made, Dead, Open
  <2> QED
      BY <2>1, <2>2, QuietStep
<1>5. ASSUME NEW a \in Attempts, Begin(a) PROVE PromiseInv' /\ Promise!Close
  <2>1. /\ UNCHANGED tx /\ at[a].pc = "idle"
        /\ at' = [at EXCEPT ![a].pc = "checks", ![a].tries = 0]
      BY <1>5 DEF Begin, cluster, Goto
  <2>2. ASSUME NEW q \in Attempts
        PROVE  /\ at'[q].answer = at[q].answer
               /\ at'[q].pc = at[q].pc \/ (at[q].pc = "idle" /\ at'[q].pc = "checks")
      BY <1>1, <2>1 DEF AtRecords
  <2> QED
      BY <2>1, <2>2, QuietStep
<1>6. ASSUME NEW a \in Attempts, ExecuteTable(a) PROVE PromiseInv' /\ Promise!Close
    BY <1>6, QuietStep DEF ExecuteTable
<1>7. ASSUME NEW a \in Attempts, Expire(a) PROVE PromiseInv' /\ Promise!Close
    BY <1>1, <1>7, QuietStep DEF Expire, Made, Dead, Open
<1> QED
    BY <1>2, <1>3, <1>4, <1>5, <1>6, <1>7

LEMMA PromiseStep ==
    ASSUME IInv, PromiseInv, [Next]_vars
    PROVE  PromiseInv' /\ [Promise!Next]_(Promise!vars)
<1>1. CASE UNCHANGED vars
  <2>1. UNCHANGED <<world, at, tx>>
      BY <1>1 DEF vars
  <2>2. PromiseInv'
      BY <2>1 DEF PromiseInv, Promised
  <2>3. \A s : OwnerOf(s)' = OwnerOf(s)
      BY <2>1, OwnersSteady
  <2>4. Shut' = Shut /\ \A a \in Attempts : Heard(a)' = Heard(a)
      BY <2>1 DEF Shut, Closed, Heard, Promised
  <2> QED
      BY <2>2, <2>3, <2>4, Unseen
<1>2. CASE Next
  <2>1. UNCHANGED world
      BY <1>2 DEF Next, Tick, Work
  <2>2. CASE ~Promised
      BY <2>1, <2>2, Unpromised
  <2>3. ASSUME Promised, NEW a \in Attempts, Work(a)
        PROVE  PromiseInv' /\ [Promise!Next]_(Promise!vars)
    <3>1. at[a].pc \in Calls
        BY <2>3 DEF Work, Calls, Waiting, Checks, FetchAlt, TableSetup, TableSend,
                    TableConfirm, TableMark, TableWarm, Build, Simulate, Send, Confirm
    <3> QED
        BY <2>3, <3>1, WorkEffect, WorkDetail, AttemptStep DEF IInv
  <2>4. ASSUME Promised, NEW a \in Attempts, RateLimited(a) \/ PollAgain(a)
        PROVE  PromiseInv' /\ [Promise!Next]_(Promise!vars)
    <3>1. at[a].pc \in Calls
        BY <2>4 DEF RateLimited, PollAgain, Calls
    <3> QED
        BY <2>1, <2>4, <3>1, RetryEffect, RetryDetail, AttemptStep DEF IInv
  <2>5. ASSUME Promised, NEW a \in Attempts, Execute(a)
        PROVE  PromiseInv' /\ [Promise!Next]_(Promise!vars)
      BY <2>1, <2>5, ExecuteStep
  <2> QED
      BY <1>2, <2>1, <2>2, <2>3, <2>4, <2>5, OtherStep DEF Next, Cluster
<1> QED
    BY <1>1, <1>2

LEMMA PromiseInit == ASSUME Init PROVE PromiseInv /\ Promise!Init
<1>1. \A s : Owners(s) = {}
    BY DEF Init, Owners
<1>2. \A s : OwnerOf(s) = None
    BY <1>1 DEF OwnerOf
<1>3. \A a \in Attempts : ~Closed(a) /\ Heard(a) = None
    BY DEF Init, Closed, Heard
<1>4. PromiseInv
    BY DEF Init, PromiseInv, Open, Made
<1> QED
    BY <1>2, <1>3, <1>4 DEF Promise!Init, Heard

\* createLaunch() implements the contract of a launch: where sends fail only
\* when they failed and no fork is rolled back, success names the transaction
\* that made the launch, and an attempt that failed never makes one.
THEOREM ImplementsContract == Spec => KeepsPromise
<1>1. IInv /\ PromiseInv /\ [Next]_vars => PromiseInv' /\ [Promise!Next]_(Promise!vars)
    BY PromiseStep
<1>2. Init => PromiseInv /\ Promise!Init
    BY PromiseInit
<1> QED
    BY Inductive, <1>1, <1>2, PTL DEF Spec, KeepsPromise, Promise!Spec

-----------------------------------------------------------------------------
(* Lists of beneficiaries *)

Entries == [address : STRING, shareBps : Nat]

\* Counting the accounts of a list tells whether they are distinct.
LEMMA DistinctIsCounted ==
    ASSUME NEW list \in Seq(Entries)
    PROVE  Distinct(list)
             <=> Cardinality({list[i].address : i \in DOMAIN list}) = Len(list)
  <1> DEFINE T == {list[i].address : i \in DOMAIN list}
             f == [i \in DOMAIN list |-> list[i].address]
  <1>1. Len(list) \in Nat /\ DOMAIN list = 1..Len(list)
    OBVIOUS
  <1>2. IsFiniteSet(DOMAIN list) /\ Cardinality(DOMAIN list) = Len(list)
    BY <1>1, FS_Interval
  <1>3. f \in Surjection(DOMAIN list, T)
    BY DEF Surjection
  <1>4. Cardinality(T) = Cardinality(DOMAIN list) <=> f \in Injection(DOMAIN list, T)
    BY <1>2, <1>3, FS_Surjection
  <1>5. f \in Injection(DOMAIN list, T) <=> Distinct(list)
    BY <1>3 DEF Injection, Surjection, IsInjective, Distinct
  <1> QED BY <1>2, <1>4, <1>5

\* A list whose shares make one whole has no share above it.
LEMMA SharesOfAWhole ==
    ASSUME NEW list \in Seq(Entries), Bps(list) = BPS
    PROVE  \A i \in DOMAIN list : list[i].shareBps \in 0..BPS
  <1> DEFINE s == [i \in DOMAIN list |-> list[i].shareBps]
  <1>0. Len(list) \in Nat /\ DOMAIN list = 1..Len(list) /\ \A i \in DOMAIN list : list[i] \in Entries
    OBVIOUS
  <1>1. s \in Seq(Nat) /\ DOMAIN s = DOMAIN list
    <2>1. s \in [1..Len(list) -> Nat]
      BY <1>0 DEF Entries
    <2> QED BY <1>0, <2>1, IsASeq
  <1>2. \A i \in DOMAIN s : s[i] <= SumOf(s)
    BY <1>1, PartsAreAtMostTheSum
  <1>3. \A i \in DOMAIN list : s[i] = list[i].shareBps /\ s[i] \in Nat
    BY <1>0 DEF Entries
  <1>4. SumOf(s) = BPS
    BY DEF Bps
  <1> QED BY <1>1, <1>2, <1>3, <1>4, RequestAssumption

\* One beneficiary who takes everything
LEMMA OneTakesAll ==
    ASSUME NEW payer
    PROVE  Bps(<<[address |-> payer, shareBps |-> BPS]>>) = BPS
  <1> DEFINE list == <<[address |-> payer, shareBps |-> BPS]>>
  <1>1. [i \in DOMAIN list |-> list[i].shareBps] = <<BPS>>
    OBVIOUS
  <1>2. SumOf(<<BPS>>) = BPS
    BY SumOfOne, RequestAssumption
  <1> QED BY <1>1, <1>2 DEF Bps

-----------------------------------------------------------------------------
(* What the documentation says and what the schema and the rules check *)

LEMMA BeneficiariesAsDocumented ==
    ASSUME NEW r, Body(r), NEW shares, shares = Or(r.beneficiaries, <<>>)
    PROVE  BeneficiariesWellFormed(r.beneficiaries)
             <=> (shares # <<>> =>
                    /\ Bps(shares) = BPS /\ \A i \in DOMAIN shares : shares[i].shareBps > 0
                    /\ Cardinality({shares[i].address : i \in DOMAIN shares}) = Len(shares)
                    /\ Len(shares) <= MAX_BENEFICIARIES)
  <1>1. CASE r.beneficiaries = None
    BY <1>1 DEF Or, BeneficiariesWellFormed
  <1>2. CASE r.beneficiaries # None
    <2>1. shares \in Seq(Entries) /\ shares = r.beneficiaries
      BY <1>2 DEF Body, Entries, Or
    <2>2. Distinct(shares)
            <=> Cardinality({shares[i].address : i \in DOMAIN shares}) = Len(shares)
      BY <2>1, DistinctIsCounted
    <2>3. Bps(shares) = BPS => \A i \in DOMAIN shares : shares[i].shareBps \in 0..BPS
      BY <2>1, SharesOfAWhole
    <2>4. \A i \in DOMAIN shares : shares[i].shareBps \in Nat
      <3>1. \A i \in DOMAIN shares : shares[i] \in Entries
        BY <2>1
      <3> QED BY <3>1 DEF Entries
    <2>5. BeneficiariesWellFormed(r.beneficiaries)
            <=> (shares # <<>> => /\ Len(shares) <= MAX_BENEFICIARIES
                                  /\ \A i \in DOMAIN shares : shares[i].shareBps \in 1..BPS
                                  /\ Distinct(shares) /\ Bps(shares) = BPS)
      BY <1>2, <2>1 DEF BeneficiariesWellFormed
    <2>6. Bps(shares) = BPS => ((\A i \in DOMAIN shares : shares[i].shareBps \in 1..BPS)
                                  <=> \A i \in DOMAIN shares : shares[i].shareBps > 0)
      BY <2>3, <2>4, RequestAssumption
    <2> QED BY <2>2, <2>5, <2>6
  <1> QED BY <1>1, <1>2

LEMMA NoIssues ==
    ASSUME NEW r
    PROVE  Issues(r) = {} <=>
             /\ r.network \in NetworksOf(r.route) /\ r.metadata /\ AuctionWellFormed(r)
             /\ EconomicsWellFormed(r) /\ ~r.unknown /\ r.price # 0
             /\ BeneficiariesWellFormed(r.beneficiaries) /\ MigrationWellFormed(r)
  BY DEF Issues

LEMMA EconomicsAsDocumented ==
    ASSUME NEW r, Body(r), ~SchemaThrows(r)
    PROVE  LET reserved == Or(r.distribution, 0) + Or(r.liquidity, 0)
           IN EconomicsWellFormed(r) <=> r.supply \in 1..U64_MAX /\ reserved < r.supply
  <1>1. {r.distribution, r.liquidity} \subseteq Nat \union {None}
    BY DEF Body, SchemaThrows, IntegerStrings
  <1>2. Or(r.distribution, 0) \in Nat /\ Or(r.liquidity, 0) \in Nat
    BY <1>1 DEF Or
  <1>3. /\ r.distribution # None => r.distribution = Or(r.distribution, 0)
        /\ r.liquidity # None => r.liquidity = Or(r.liquidity, 0)
    BY DEF Or
  <1> QED BY <1>1, <1>2, <1>3, RequestAssumption DEF EconomicsWellFormed

LEMMA AuctionAsDocumented ==
    ASSUME NEW r, Body(r), ~SchemaThrows(r)
    PROVE  AuctionWellFormed(r) <=>
             /\ r.gate \in 0..U64_MAX \union {None}
             /\ Cardinality({r.curveFee, r.swapFee} \ {None}) < 2
             /\ r.dynamic # None => \/ r.dynamic.start = r.dynamic.end
                                    \/ r.dynamic.start > r.dynamic.end /\ r.dynamic.duration # 0
  <1>1. (r.curveFee # None /\ r.swapFee # None => r.curveFee = r.swapFee)
          <=> Cardinality({r.curveFee, r.swapFee} \ {None}) < 2
    <2> DEFINE fees == {r.curveFee, r.swapFee} \ {None}
    <2>1. CASE r.curveFee # None /\ r.swapFee # None /\ r.curveFee # r.swapFee
      <3>1. fees = {r.curveFee} \union {r.swapFee} /\ r.swapFee \notin {r.curveFee}
        BY <2>1
      <3>2. IsFiniteSet({r.curveFee}) /\ Cardinality({r.curveFee}) = 1
        BY FS_Singleton
      <3>3. Cardinality({r.curveFee} \union {r.swapFee}) = 2
        BY <3>1, <3>2, FS_AddElement
      <3> QED BY <2>1, <3>1, <3>3
    <2>2. CASE ~(r.curveFee # None /\ r.swapFee # None /\ r.curveFee # r.swapFee)
      <3>1. fees = {} \/ \E x : fees = {x}
        BY <2>2
      <3>2. Cardinality(fees) < 2
        <4>1. CASE fees = {}
          <5>1. Cardinality({}) = 0
            BY FS_EmptySet
          <5> QED BY <4>1, <5>1
        <4>2. CASE \E x : fees = {x}
          <5>1. PICK x : fees = {x}
            BY <4>2
          <5>2. Cardinality({x}) = 1
            BY FS_Singleton
          <5> QED BY <5>1, <5>2
        <4> QED BY <3>1, <4>1, <4>2
      <3> QED BY <2>2, <3>2
    <2> QED BY <2>1, <2>2
  <1>2. DynamicFeeWellFormed(r.dynamic) <=>
          (r.dynamic # None => \/ r.dynamic.start = r.dynamic.end
                               \/ r.dynamic.start > r.dynamic.end /\ r.dynamic.duration # 0)
    <2>1. CASE r.dynamic = None
      BY <2>1 DEF DynamicFeeWellFormed
    <2>2. CASE r.dynamic # None
      <3>1. r.dynamic.start \in Nat /\ r.dynamic.end \in Nat
        BY <2>2, RequestAssumption DEF Body
      <3>2. r.dynamic.duration \in Nat
        BY <2>2 DEF Body, SchemaThrows, IntegerStrings
      <3> QED BY <2>2, <3>1, <3>2 DEF DynamicFeeWellFormed
    <2> QED BY <2>1, <2>2
  <1> QED BY <1>1, <1>2 DEF AuctionWellFormed

LEMMA MigrationAsDocumented ==
    ASSUME NEW r, Body(r), ~SchemaThrows(r)
    PROVE  MigrationWellFormed(r) <=>
             /\ r.raise \in 0..U64_MAX \union {None} /\ r.raise # 0
             /\ r.cpmm => r.raise # None
  <1>1. r.raise \in Nat \union {None} /\ None \notin Nat
    BY CasesAssumption DEF Body, SchemaThrows, IntegerStrings
  <1> QED BY <1>1, RequestAssumption DEF MigrationWellFormed

\* What Rules lets through
Ruled(r, d) ==
    /\ d.enabled /\ Canonical(r, d) # "solanaMainnetBeta" /\ r.numeraire # "other"
    /\ Or(r.distribution, 0) + Or(r.liquidity, 0) > 0 => r.cpmm

TextOk(r) == ~SchemaThrows(r) /\ Issues(r) = {}

LEMMA NetworksAsDocumented ==
    ASSUME NEW r, NEW d, Body(r), Deployed(d)
    PROVE  r.network \in NetworksOf(r.route) /\ Canonical(r, d) # "solanaMainnetBeta"
             <=> \/ <<r.route, r.network>> \in
                       {<<"generic", "solanaDevnet">>, <<"dedicated", "devnet">>}
                 \/ <<r.route, r.network>> = <<"dedicated", None>>
                       /\ d.defaultNetwork = "solanaDevnet"
  <1>1. None \notin {"solanaDevnet", "solanaMainnetBeta", "devnet", "mainnet-beta"}
    BY CasesAssumption
  <1>2. CASE r.route = "generic"
    BY <1>1, <1>2 DEF NetworksOf, Canonical
  <1>3. CASE r.route = "dedicated"
    BY <1>1, <1>3 DEF NetworksOf, Canonical, Deployed
  <1> QED BY <1>2, <1>3 DEF Body

\* The checks of the schema, the rules of the deployment and the first check
\* of the curve say together what the documentation says of a body.
LEMMA DocumentedIsChecked ==
    ASSUME NEW r, NEW d, Body(r), Deployed(d)
    PROVE  RequestDocumented(r, d) /\ d.enabled <=> TextOk(r) /\ Ruled(r, d) /\ r.root > 1
  <1>1. CASE SchemaThrows(r)
    BY <1>1 DEF RequestDocumented, TextOk, SchemaThrows
  <1>2. CASE ~SchemaThrows(r)
    <2> DEFINE shares == Or(r.beneficiaries, <<>>)
               reserved == Or(r.distribution, 0) + Or(r.liquidity, 0)
               listed == shares # <<>> =>
                 /\ Bps(shares) = BPS /\ \A i \in DOMAIN shares : shares[i].shareBps > 0
                 /\ Cardinality({shares[i].address : i \in DOMAIN shares}) = Len(shares)
                 /\ Len(shares) <= MAX_BENEFICIARIES
               network == \/ <<r.route, r.network>> \in
                               {<<"generic", "solanaDevnet">>, <<"dedicated", "devnet">>}
                          \/ <<r.route, r.network>> = <<"dedicated", None>>
                               /\ d.defaultNetwork = "solanaDevnet"
               economics == r.supply \in 1..U64_MAX /\ reserved < r.supply
               fees == Cardinality({r.curveFee, r.swapFee} \ {None}) < 2
               dynamic == r.dynamic # None =>
                            \/ r.dynamic.start = r.dynamic.end
                            \/ r.dynamic.start > r.dynamic.end /\ r.dynamic.duration # 0
               gate == r.gate \in 0..U64_MAX \union {None}
               raise == r.raise \in 0..U64_MAX \union {None}
    <2>1. RequestDocumented(r, d) <=>
            /\ r.metadata /\ ~r.unknown /\ r.price # 0 /\ network /\ economics
            /\ reserved > 0 => r.cpmm
            /\ r.cpmm => r.raise # None
            /\ raise /\ gate /\ r.raise # 0 /\ r.numeraire # "other" /\ r.root > 1
            /\ fees /\ dynamic /\ listed
      BY <1>2 DEF RequestDocumented, SchemaThrows
    <2>2. BeneficiariesWellFormed(r.beneficiaries) <=> listed
      BY BeneficiariesAsDocumented
    <2>3. r.network \in NetworksOf(r.route) /\ Canonical(r, d) # "solanaMainnetBeta" <=> network
      BY NetworksAsDocumented
    <2>4. EconomicsWellFormed(r) <=> economics
      BY <1>2, EconomicsAsDocumented
    <2>5. AuctionWellFormed(r) <=> gate /\ fees /\ dynamic
      BY <1>2, AuctionAsDocumented
    <2>6. MigrationWellFormed(r) <=> raise /\ r.raise # 0 /\ (r.cpmm => r.raise # None)
      BY <1>2, MigrationAsDocumented
    <2>7. TextOk(r) <=>
            /\ r.network \in NetworksOf(r.route) /\ r.metadata /\ AuctionWellFormed(r)
            /\ EconomicsWellFormed(r) /\ ~r.unknown /\ r.price # 0
            /\ BeneficiariesWellFormed(r.beneficiaries) /\ MigrationWellFormed(r)
      BY <1>2, NoIssues DEF TextOk
    <2>8. Ruled(r, d) <=>
            /\ d.enabled /\ Canonical(r, d) # "solanaMainnetBeta" /\ r.numeraire # "other"
            /\ reserved > 0 => r.cpmm
      BY DEF Ruled
    <2> HIDE DEF shares, reserved, listed, network, economics, fees, dynamic, gate, raise
    <2> QED BY <2>1, <2>2, <2>3, <2>4, <2>5, <2>6, <2>7, <2>8
  <1> QED BY <1>1, <1>2

-----------------------------------------------------------------------------
(* The invariant *)

Stages == {"parse", "rules", "price", "curve", "readiness", "fetch", "fees", "gate", "done"}

\* What the schema, the rules and the curve have let through by each stage
PassedSoFar ==
    /\ stage \in Stages \ {"parse", "done"} => TextOk(request)
    /\ stage \in Stages \ {"parse", "rules", "done"} => Ruled(request, config)
    /\ stage \in {"readiness", "fetch", "fees", "gate"} => request.root > 1

\* What has been resolved by each stage
Resolved ==
    /\ DOMAIN terms = {"price", "virtualBase", "config", "swapFee", "fees"}
    /\ stage \in {"curve", "readiness", "fetch", "fees", "gate"} => terms.price # None
    /\ stage \in {"fees", "gate"} => terms.config # None

\* The fees that the last look-up is made with
Routed(r, t) ==
    /\ Distinct(t.fees)
    /\ \A i \in DOMAIN t.fees : t.fees[i].address # t.config.admin
    /\ IF t.fees = <<>>
       THEN t.config.protocolFee >= BPS /\ Or(r.beneficiaries, <<>>) = <<>>
       ELSE Bps(t.fees) = BPS
    /\ t.swapFee \in t.config.minFee..t.config.maxFee

CaseInv == \E c \in Cases : request \in c.bodies /\ config \in c.deployments

RequestInv ==
    /\ CaseInv /\ chain \in Configs /\ stage \in Stages
    /\ stage # "done" => answer = None
    /\ PassedSoFar /\ Resolved
    /\ stage = "gate" \/ answer = "built" => Routed(request, terms)
    /\ answer = "SOLANA_NOT_READY" => RequestDocumented(request, config) /\ config.enabled
    /\ RefusalsHaveACause

LEMMA CaseIsTyped == CaseInv => Body(request) /\ Deployed(config)
  BY CasesAssumption DEF CaseInv

LEMMA RequestInvInit == RequestInit => RequestInv
  BY CasesAssumption DEF RequestInit, RequestInv, CaseInv, Stages, PassedSoFar, Resolved,
     RefusalsHaveACause

\* A step that goes on: what the next stage needs is what the step found.
LEMMA GoingOn ==
    ASSUME RequestInv, NEW next \in Stages \ {"done"}, Go(next), stage # "done",
           PassedSoFar', Resolved', next = "gate" => Routed(request, terms')
    PROVE  RequestInv'
  <1>1. answer = None /\ answer' = None /\ stage' = next /\ UNCHANGED <<request, config, chain>>
    BY DEF Go, RequestInv
  <1>2. RefusalsHaveACause'
    BY <1>1 DEF RefusalsHaveACause
  <1>3. CaseInv' /\ chain' \in Configs
    BY <1>1 DEF RequestInv, CaseInv
  <1>4. answer' \notin {"built", "SOLANA_NOT_READY"}
    BY <1>1, CasesAssumption
  <1>5. stage' = "gate" => Routed(request, terms)'
    BY <1>1 DEF Routed
  <1> QED BY <1>1, <1>2, <1>3, <1>4, <1>5 DEF RequestInv

\* A refusal that has a cause
LEMMA Refusing ==
    ASSUME RequestInv, NEW code, Refuse(code), code # "built",
           code = "SOLANA_NOT_READY" => RequestDocumented(request, config) /\ config.enabled,
           RequestDocumented(request, config) /\ config.enabled =>
             \/ code \in {"SOLANA_NOT_READY", "PRICE_FETCH_FAILED"}
             \/ code = "INTERNAL_ERROR" /\ terms.price # None
             \/ /\ code \in {"SOLANA_NUMERAIRE_PRICE_REQUIRED", "PRICE_REQUIRED"}
                /\ request.price = None /\ config.fixed = None
             \/ code = "SOLANA_INVALID_CURVE" /\ terms.price # None
             \/ code = "SOLANA_INVALID_FEE_BENEFICIARIES" /\ terms.config # None
    PROVE  RequestInv'
  <1>1. answer' = code /\ stage' = "done" /\ UNCHANGED <<request, config, chain, terms>>
    BY DEF Refuse
  <1>2. RefusalsHaveACause'
    BY <1>1 DEF RefusalsHaveACause, Built
  <1>3. CaseInv' /\ chain' \in Configs
    BY <1>1 DEF RequestInv, CaseInv
  <1>4. PassedSoFar'
    BY <1>1 DEF PassedSoFar
  <1>5. Resolved'
    BY <1>1 DEF Resolved, RequestInv
  <1> QED BY <1>1, <1>2, <1>3, <1>4, <1>5 DEF RequestInv, Stages

LEMMA ParseKeepsInv ==
    ASSUME RequestInv, Parse
    PROVE  RequestInv'
  <1>1. Body(request) /\ Deployed(config) /\ stage = "parse"
    BY CaseIsTyped DEF RequestInv, Parse
  <1>2. CASE ~TextOk(request)
    <2>1. ~(RequestDocumented(request, config) /\ config.enabled)
      BY <1>1, <1>2, DocumentedIsChecked
    <2>2. PICK code \in {"INTERNAL_ERROR", "SOLANA_INVALID_METADATA", "SOLANA_INVALID_CURVE",
                         "SOLANA_INVALID_ECONOMICS", "SOLANA_INVALID_FEE_BENEFICIARIES",
                         "INVALID_REQUEST"} : Refuse(code)
      BY <1>2 DEF Parse, TextOk, ErrorOf
    <2> QED BY <2>1, <2>2, Refusing
  <1>3. CASE TextOk(request)
    <2>1. Go("rules") /\ UNCHANGED terms
      BY <1>3 DEF Parse, TextOk
    <2>2. stage' = "rules" /\ UNCHANGED request
      BY <2>1 DEF Go
    <2>3. PassedSoFar'
      BY <1>3, <2>2 DEF PassedSoFar
    <2>4. Resolved'
      BY <2>1, <2>2 DEF Resolved, RequestInv
    <2> QED BY <1>1, <2>1, <2>3, <2>4, GoingOn DEF Stages
  <1> QED BY <1>2, <1>3

LEMMA RulesKeepInv ==
    ASSUME RequestInv, Rules
    PROVE  RequestInv'
  <1>1. Body(request) /\ Deployed(config) /\ stage = "rules" /\ TextOk(request)
    BY CaseIsTyped DEF RequestInv, Rules, PassedSoFar, Stages
  <1>2. Ruled(request, config) <=>
          /\ config.enabled /\ Canonical(request, config) # "solanaMainnetBeta"
          /\ request.cpmm \/ ~ReservesBase
          /\ request.numeraire # "other"
    BY DEF Ruled, ReservesBase
  <1>3. CASE ~Ruled(request, config)
    <2>1. ~(RequestDocumented(request, config) /\ config.enabled)
      BY <1>1, <1>3, DocumentedIsChecked
    <2>2. PICK code \in {"SOLANA_NETWORK_UNSUPPORTED", "SOLANA_INVALID_ECONOMICS",
                         "SOLANA_NUMERAIRE_UNSUPPORTED"} : Refuse(code)
      BY <1>2, <1>3 DEF Rules
    <2> QED BY <2>1, <2>2, Refusing
  <1>4. CASE Ruled(request, config)
    <2>1. Go("price") /\ UNCHANGED terms
      BY <1>2, <1>4 DEF Rules
    <2>2. stage' = "price" /\ UNCHANGED <<request, config>>
      BY <2>1 DEF Go
    <2>3. PassedSoFar'
      BY <1>1, <1>4, <2>2 DEF PassedSoFar
    <2>4. Resolved'
      BY <2>1, <2>2 DEF Resolved, RequestInv
    <2> QED BY <1>1, <2>1, <2>3, <2>4, GoingOn DEF Stages
  <1> QED BY <1>3, <1>4

LEMMA PriceKeepsInv ==
    ASSUME RequestInv, Price
    PROVE  RequestInv'
  <1> DEFINE own == Or(request.price, config.fixed)
  <1>1. stage = "price" /\ TextOk(request) /\ Ruled(request, config)
    BY DEF RequestInv, Price, PassedSoFar, Stages
  <1>2. ASSUME NEW price, price # None, Go("curve"), terms' = [terms EXCEPT !.price = price]
        PROVE  RequestInv'
    <2>1. stage' = "curve" /\ UNCHANGED <<request, config>>
      BY <1>2 DEF Go
    <2>2. PassedSoFar'
      BY <1>1, <2>1 DEF PassedSoFar
    <2>3. Resolved'
      BY <1>2, <2>1 DEF Resolved, RequestInv
    <2> QED BY <1>1, <1>2, <2>2, <2>3, GoingOn DEF Stages
  <1>3. CASE own # None /\ Go("curve") /\ terms' = [terms EXCEPT !.price = own]
    BY <1>2, <1>3
  <1>4. CASE own = None /\ (Refuse("SOLANA_NUMERAIRE_PRICE_REQUIRED") \/ Refuse("PRICE_REQUIRED"))
    <2>1. request.price = None /\ config.fixed = None
      BY <1>4 DEF Or
    <2> QED BY <1>4, <2>1, Refusing
  <1>5. CASE Go("curve") /\ terms' = [terms EXCEPT !.price = config.market]
    <2>1. config.market # None
      BY CaseIsTyped DEF RequestInv, Deployed
    <2> QED BY <1>2, <1>5, <2>1
  <1>6. CASE Refuse("PRICE_FETCH_FAILED")
    BY <1>6, Refusing
  <1> QED BY <1>3, <1>4, <1>5, <1>6 DEF Price

LEMMA CurveKeepsInv ==
    ASSUME RequestInv, Curve
    PROVE  RequestInv'
  <1>1. stage = "curve" /\ TextOk(request) /\ Ruled(request, config) /\ terms.price # None
    BY DEF RequestInv, Curve, PassedSoFar, Resolved, Stages
  <1>2. CASE Refuse("SOLANA_INVALID_CURVE")
    BY <1>1, <1>2, Refusing
  <1>3. CASE ~Refuse("SOLANA_INVALID_CURVE")
    <2>1. /\ Go("readiness") /\ terms' = [terms EXCEPT !.virtualBase = VirtualBase(request)]
          /\ request.root > 1
      BY <1>3 DEF Curve
    <2>2. stage' = "readiness" /\ UNCHANGED <<request, config>>
      BY <2>1 DEF Go
    <2>3. PassedSoFar'
      BY <1>1, <2>1, <2>2 DEF PassedSoFar
    <2>4. Resolved'
      BY <1>1, <2>1, <2>2 DEF Resolved, RequestInv
    <2> QED BY <1>1, <2>1, <2>3, <2>4, GoingOn DEF Stages
  <1> QED BY <1>2, <1>3

\* Whoever is past the curve is as documented.
LEMMA LateIsDocumented ==
    ASSUME RequestInv, stage \in {"readiness", "fetch", "fees", "gate"}
    PROVE  RequestDocumented(request, config) /\ config.enabled /\ terms.price # None
  <1>1. TextOk(request) /\ Ruled(request, config) /\ request.root > 1
    BY DEF RequestInv, PassedSoFar, Stages
  <1>2. Body(request) /\ Deployed(config)
    BY CaseIsTyped DEF RequestInv
  <1> QED BY <1>1, <1>2, DocumentedIsChecked DEF RequestInv, Resolved

LEMMA LateStepsKeepInv ==
    ASSUME RequestInv, Readiness \/ Fetch
    PROVE  RequestInv'
  <1>1. CASE Readiness
    <2>1. stage = "readiness"
      BY <1>1 DEF Readiness
    <2>2. CASE Go("fetch") /\ UNCHANGED terms
      <3>1. stage' = "fetch" /\ UNCHANGED <<request, config>>
        BY <2>2 DEF Go
      <3>2. PassedSoFar'
        BY <2>1, <3>1 DEF PassedSoFar, RequestInv, Stages
      <3>3. Resolved'
        BY <2>1, <2>2, <3>1 DEF Resolved, RequestInv
      <3> QED BY <2>1, <2>2, <3>2, <3>3, GoingOn DEF Stages
    <2>3. CASE Refuse("SOLANA_NOT_READY")
      BY <2>1, <2>3, LateIsDocumented, Refusing
    <2> QED BY <1>1, <2>2, <2>3 DEF Readiness
  <1>2. CASE Fetch
    <2>1. stage = "fetch"
      BY <1>2 DEF Fetch
    <2>2. CASE Go("fees") /\ terms' = [terms EXCEPT !.config = chain]
      <3>1. stage' = "fees" /\ UNCHANGED <<request, config>>
        BY <2>2 DEF Go
      <3>2. PassedSoFar'
        BY <2>1, <3>1 DEF PassedSoFar, RequestInv, Stages
      <3>3. chain # None
        BY CasesAssumption DEF RequestInv
      <3>4. Resolved'
        BY <2>1, <2>2, <3>1, <3>3 DEF Resolved, RequestInv
      <3> QED BY <2>1, <2>2, <3>2, <3>4, GoingOn DEF Stages
    <2>3. CASE Refuse("INTERNAL_ERROR")
      BY <2>1, <2>3, LateIsDocumented, Refusing
    <2> QED BY <1>2, <2>2, <2>3 DEF Fetch
  <1> QED BY <1>1, <1>2

\* Whoever the fees go to, by request or by default: distinct accounts, and
\* one whole unless the protocol takes it.
LEMMA BeneficiariesMakeOneWhole ==
    ASSUME BeneficiariesWellFormed(request.beneficiaries)
    PROVE  /\ Distinct(Beneficiaries)
           /\ IF Beneficiaries = <<>>
              THEN terms.config.protocolFee >= BPS /\ RequestedList = <<>>
              ELSE Bps(Beneficiaries) = BPS
  <1>1. CASE RequestedList # <<>>
    <2>1. Beneficiaries = RequestedList /\ RequestedList = request.beneficiaries
      BY <1>1 DEF Beneficiaries, RequestedList, Or
    <2>2. request.beneficiaries \notin {None, <<>>}
      BY <1>1 DEF RequestedList, Or
    <2> QED BY <1>1, <2>1, <2>2 DEF BeneficiariesWellFormed
  <1>2. CASE RequestedList = <<>> /\ terms.config.protocolFee >= BPS
    BY <1>2 DEF Beneficiaries, Distinct
  <1>3. CASE RequestedList = <<>> /\ ~(terms.config.protocolFee >= BPS)
    <2>1. Beneficiaries = <<[address |-> config.payer, shareBps |-> BPS]>>
      BY <1>3 DEF Beneficiaries
    <2>2. Distinct(Beneficiaries) /\ Beneficiaries # <<>>
      BY <2>1 DEF Distinct
    <2> QED BY <2>1, <2>2, OneTakesAll
  <1> QED BY <1>1, <1>2, <1>3

LEMMA FeesKeepInv ==
    ASSUME RequestInv, Fees
    PROVE  RequestInv'
  <1>1. stage = "fees" /\ TextOk(request) /\ terms.config # None
    BY DEF Fees, RequestInv, PassedSoFar, Resolved, Stages
  <1>2. terms.price # None
    BY <1>1, LateIsDocumented
  <1>3. CASE Refuse("SOLANA_INVALID_CURVE") \/ Refuse("SOLANA_INVALID_FEE_BENEFICIARIES")
    BY <1>1, <1>2, <1>3, Refusing
  <1>4. CASE ~(Refuse("SOLANA_INVALID_CURVE") \/ Refuse("SOLANA_INVALID_FEE_BENEFICIARIES"))
    <2>1. /\ Go("gate") /\ ProtocolStaysOut /\ SwapFee \in terms.config.minFee..terms.config.maxFee
          /\ terms' = [terms EXCEPT !.swapFee = SwapFee, !.fees = Beneficiaries]
      BY <1>4 DEF Fees
    <2>2. stage' = "gate" /\ UNCHANGED <<request, config>>
      BY <2>1 DEF Go
    <2>3. PassedSoFar'
      BY <1>1, <2>2 DEF PassedSoFar, RequestInv, Stages
    <2>4. DOMAIN terms = {"price", "virtualBase", "config", "swapFee", "fees"}
      BY DEF RequestInv, Resolved
    <2>5. /\ terms'.price = terms.price /\ terms'.config = terms.config
          /\ terms'.swapFee = SwapFee /\ terms'.fees = Beneficiaries
          /\ DOMAIN terms' = DOMAIN terms
      BY <2>1, <2>4
    <2>6. Resolved'
      BY <1>1, <1>2, <2>4, <2>5 DEF Resolved
    <2>7. BeneficiariesWellFormed(request.beneficiaries)
      BY <1>1, NoIssues DEF TextOk
    <2>8. Routed(request, terms')
      BY <2>1, <2>5, <2>7, BeneficiariesMakeOneWhole DEF Routed, ProtocolStaysOut, RequestedList
    <2> QED BY <1>1, <2>1, <2>3, <2>6, <2>8, GoingOn DEF Stages
  <1> QED BY <1>3, <1>4

LEMMA GateKeepsInv ==
    ASSUME RequestInv, Gate
    PROVE  RequestInv'
  <1>1. stage = "gate" /\ Routed(request, terms)
    BY DEF Gate, RequestInv
  <1>2. CASE Refuse("SOLANA_NOT_READY")
    BY <1>1, <1>2, LateIsDocumented, Refusing
  <1>3. CASE ~Refuse("SOLANA_NOT_READY")
    <2>1. stage' = "done" /\ answer' = "built" /\ UNCHANGED <<request, config, chain, terms>>
      BY <1>3 DEF Gate
    <2>2. CaseInv' /\ PassedSoFar' /\ RefusalsHaveACause'
      BY <2>1 DEF RequestInv, CaseInv, PassedSoFar, RefusalsHaveACause, Built
    <2>3. Resolved'
      BY <2>1 DEF RequestInv, Resolved
    <2>4. Routed(request, terms)'
      BY <1>1, <2>1 DEF Routed
    <2> QED BY <2>1, <2>2, <2>3, <2>4 DEF RequestInv, Stages
  <1> QED BY <1>2, <1>3

LEMMA RequestInvNext ==
    ASSUME RequestInv, [RequestNext]_requestVars
    PROVE  RequestInv'
  <1>1. CASE Reconfigure \/ UNCHANGED requestVars
    <2>1. UNCHANGED <<request, config, stage, terms, answer>> /\ chain' \in Configs
      BY <1>1 DEF Reconfigure, requestVars, RequestInv
    <2>2. CaseInv' /\ PassedSoFar' /\ Resolved' /\ RefusalsHaveACause'
      BY <2>1 DEF RequestInv, CaseInv, PassedSoFar, Resolved, RefusalsHaveACause, Built
    <2>3. Routed(request, terms)' <=> Routed(request, terms)
      BY <2>1
    <2> QED BY <2>1, <2>2, <2>3 DEF RequestInv
  <1> QED
    BY <1>1, ParseKeepsInv, RulesKeepInv, PriceKeepsInv, CurveKeepsInv, LateStepsKeepInv,
       FeesKeepInv, GateKeepsInv DEF RequestNext

\* Exactly the requests that docs/api-reference.md describes get past what
\* can be decided without the outside: no other costs a readiness check, and
\* none of them is refused but for what the outside says.
THEOREM RequestsAreAcceptedAsDocumented == RequestSpec => []AcceptsWhatIsDocumented
  <1>1. RequestInv => AcceptsWhatIsDocumented
    BY LateIsDocumented DEF RequestInv, AcceptsWhatIsDocumented, DeterministicFirst
  <1> QED BY <1>1, RequestInvInit, RequestInvNext, PTL DEF RequestSpec

\* However the account of the initializer changes around the fetch, fees go
\* to distinct accounts that are not the protocol's, in shares that make one
\* whole unless the protocol takes all.
THEOREM FeesGoWhereTheyMay == RequestSpec => []FeesAreRouted
  <1>1. RequestInv => FeesAreRouted
    BY DEF RequestInv, FeesAreRouted, Routed, Built
  <1> QED BY <1>1, RequestInvInit, RequestInvNext, PTL DEF RequestSpec

=============================================================================
