-------------------- MODULE RedisIdempotencyStoreProofs --------------------
(***************************************************************************)
(* Proofs about RedisIdempotencyStore, for any number of requests and      *)
(* replicas and any number of failed commands, lapses and crashes.         *)
(***************************************************************************)
EXTENDS RedisIdempotencyStore, TLAPS

USE DEF redisVars, localVars, bounds

-----------------------------------------------------------------------------
(* Type correctness *)

LEMMA ReplyType ==
    ASSUME NEW kind \in {"ok", "replayed", "mismatch", "in_doubt", "rejected",
                         "store_error"},
           NEW l \in MaybeRequest
    PROVE  Reply(kind, l) \in Answer /\ Reply(kind, l) # None
BY NoneAssumption DEF Reply, Answer

LEMMA RecordType ==
    ASSUME NEW state \in {"in_progress", "completed", "in_doubt"},
           NEW r \in Requests, NEW l \in MaybeRequest
    PROVE  NewRecord(state, r, l) \in Record /\ NewRecord(state, r, l) # None
BY NoneAssumption DEF NewRecord, Record, Hashes

\* A stored record answers with a launch it names, or not at all.
LEMMA StoredAnswerType ==
    ASSUME NEW rec \in Record, NEW h
    PROVE  StoredAnswer(rec, h) \in Answer \cup {None}
BY ReplyType DEF StoredAnswer, Record, MaybeRequest

LEMMA PromiseAnswerType ==
    ASSUME NEW q \in Requests
    PROVE  PromiseAnswer(q) \in Answer \cup {None}
<1>1. \/ PromiseAnswer(q) = Reply("replayed", q)
      \/ PromiseAnswer(q) = Reply("in_doubt", q)
      \/ PromiseAnswer(q) = Reply("rejected", None)
      \/ PromiseAnswer(q) = None
  BY DEF PromiseAnswer
<1> QED
  BY <1>1, ReplyType DEF MaybeRequest

LEMMA GoToType ==
    ASSUME TypeOK, NEW r \in Requests, NEW step \in Steps, GoTo(r, step)
    PROVE  pc' \in [Requests -> Steps] /\ answer' \in [Requests -> Answer \cup {None}]
BY DEF TypeOK, GoTo

LEMMA FinishType ==
    ASSUME TypeOK, NEW r \in Requests, NEW a \in Answer \cup {None}, Finish(r, a)
    PROVE  pc' \in [Requests -> Steps] /\ answer' \in [Requests -> Answer \cup {None}]
BY DEF TypeOK, Finish, Steps

LEMMA StepType == TypeOK /\ [Next]_vars => TypeOK'
<1> SUFFICES ASSUME TypeOK, [Next]_vars PROVE TypeOK'
  OBVIOUS
<1> USE RequestsAssumption, BoundsAssumption
<1>A. /\ Reply("store_error", None) \in Answer
      /\ Reply("mismatch", None) \in Answer
      /\ Reply("in_doubt", None) \in Answer
      /\ Reply("rejected", None) \in Answer
      /\ \A r \in Requests : /\ Reply("ok", r) \in Answer
                             /\ Reply("in_doubt", r) \in Answer
                             /\ Reply("replayed", r) \in Answer
  BY ReplyType DEF MaybeRequest
<1>R. \A r \in Requests : /\ NewRecord("in_progress", r, None) \in Record
                          /\ NewRecord("completed", r, r) \in Record
                          /\ NewRecord("in_doubt", r, r) \in Record
  BY RecordType DEF MaybeRequest
<1>L. \A r \in Requests, h \in MaybeRequest :
        [payloadHash |-> HashOf[r], holder |-> h] \in Lock
  BY DEF Lock, Hashes
<1>1. ASSUME NEW r \in Requests, NEW step \in {"new", "read", "pollRecord",
                                               "pollLock", "afterWait"},
             ReadFails(r, step)
      PROVE  TypeOK'
  BY <1>1, <1>A, FinishType DEF ReadFails, Fails, TypeOK
<1>2. ASSUME NEW r \in Requests, Read(r) PROVE TypeOK'
  <2>1. record # None => StoredAnswer(record, HashOf[r]) \in Answer \cup {None}
    BY StoredAnswerType DEF TypeOK
  <2>0. inFlight[ReplicaOf[r]] # None =>
          PromiseAnswer(inFlight[ReplicaOf[r]]) \in Answer \cup {None}
    BY PromiseAnswerType DEF TypeOK, MaybeRequest
  <2>2. /\ pc' \in [Requests -> Steps]
        /\ answer' \in [Requests -> Answer \cup {None}]
    BY <1>2, <1>A, <2>0, <2>1, GoToType, FinishType DEF Read, Steps, Polling
  <2>3. /\ sawRecord' \in [Requests -> BOOLEAN]
        /\ leader' \in [Requests -> MaybeRequest]
    BY <1>2 DEF Read, TypeOK, MaybeRequest
  <2> QED
    BY <1>2, <2>2, <2>3 DEF Read, TypeOK
<1>3. ASSUME NEW r \in Requests, Acquire(r) PROVE TypeOK'
  <2>1. /\ pc' \in [Requests -> Steps]
        /\ answer' \in [Requests -> Answer \cup {None}]
    BY <1>3, GoToType DEF Acquire, Steps, Holding
  <2>2. lock' \in Lock
    BY <1>3, <1>L DEF Acquire, MaybeRequest
  <2>3. windows' \subseteq {"stale_read", "lock_lapsed", "record_expired"}
    BY <1>3 DEF Acquire, TypeOK
  <2>4. UNCHANGED <<record, inFlight, sawRecord, leader, outcome, launch, bounds>>
    BY <1>3 DEF Acquire
  <2> QED
    BY <2>1, <2>2, <2>3, <2>4 DEF TypeOK
<1>4. ASSUME NEW r \in Requests, AcquireBusy(r) PROVE TypeOK'
  BY <1>4, GoToType DEF AcquireBusy, TypeOK, Steps, Polling
<1>5. ASSUME NEW r \in Requests, AcquireFails(r) PROVE TypeOK'
  <2>1. /\ pc' \in [Requests -> Steps]
        /\ answer' \in [Requests -> Answer \cup {None}]
    BY <1>5, <1>A, GoToType, FinishType DEF AcquireFails, Steps, Polling
  <2>2. lock' \in Lock \cup {None}
    BY <1>5, <1>L DEF AcquireFails, TypeOK, MaybeRequest
  <2>3. faults' \in 0..MaxFaults
    BY <1>5 DEF AcquireFails, Fails, TypeOK
  <2>4. sawRecord' \in [Requests -> BOOLEAN]
    <3>1. sawRecord' = sawRecord \/ sawRecord' = [sawRecord EXCEPT ![r] = FALSE]
      BY <1>5 DEF AcquireFails
    <3> QED
      BY <3>1 DEF TypeOK
  <2>5. UNCHANGED <<record, inFlight, leader, outcome, launch, windows, lapses,
                    expiries, crashes>>
    BY <1>5 DEF AcquireFails
  <2> QED
    BY <2>1, <2>2, <2>3, <2>4, <2>5 DEF TypeOK
<1>6. ASSUME NEW r \in Requests, PollRecord(r) PROVE TypeOK'
  <2>1. record # None => StoredAnswer(record, HashOf[r]) \in Answer \cup {None}
    BY StoredAnswerType DEF TypeOK
  <2> QED
    BY <1>6, <2>1, GoToType, FinishType
       DEF PollRecord, TypeOK, Steps, Polling
<1>7. ASSUME NEW r \in Requests, PollLock(r) PROVE TypeOK'
  <2>1. /\ pc' \in [Requests -> Steps]
        /\ answer' \in [Requests -> Answer \cup {None}]
    BY <1>7, <1>A, GoToType, FinishType DEF PollLock, Steps, Polling
  <2> QED
    BY <1>7, <2>1 DEF PollLock, TypeOK
<1>8. ASSUME NEW r \in Requests, AfterWait(r) PROVE TypeOK'
  BY <1>8, <1>A, GoToType, FinishType DEF AfterWait, TypeOK, Steps
<1>9. ASSUME NEW r \in Requests, WriteProgress(r) PROVE TypeOK'
  BY <1>9, <1>A, <1>R, GoToType
     DEF WriteProgress, Writes, WriteFails, Fails, TypeOK, Steps, Holding,
         MaybeRequest
<1>10. ASSUME NEW r \in Requests, NEW step \in Holding, NEW own \in Answer,
              NEW joined \in Answer, Settle(r, step, own, joined),
              launch' \in [Requests -> {"none", "pending", "landed", "rejected"}]
       PROVE  TypeOK'
  BY <1>10 DEF Settle, TypeOK, Steps
<1>11. ASSUME NEW r \in Requests, Resolve(r) PROVE TypeOK'
  BY <1>10, <1>11, <1>A DEF Resolve, TypeOK, Holding
<1>12. ASSUME NEW r \in Requests, Doubt(r) PROVE TypeOK'
  BY <1>10, <1>12, <1>A DEF Doubt, TypeOK, Holding
<1>13. ASSUME NEW r \in Requests, Reject(r) PROVE TypeOK'
  BY <1>10, <1>13, <1>A DEF Reject, TypeOK, Holding
<1>14. ASSUME NEW r \in Requests, WriteDone(r) PROVE TypeOK'
  BY <1>14, <1>A, <1>R, GoToType
     DEF WriteDone, Writes, WriteFails, Fails, Leave, TypeOK, Steps, Holding,
         MaybeRequest
<1>15. ASSUME NEW r \in Requests, WriteDoubt(r) PROVE TypeOK'
  BY <1>15, <1>A, <1>R, GoToType
     DEF WriteDoubt, Writes, WriteFails, Fails, Leave, TypeOK, Steps, Holding,
         MaybeRequest
<1>16. ASSUME NEW r \in Requests, WriteLateDoubt(r) PROVE TypeOK'
  BY <1>16, <1>R, GoToType
     DEF WriteLateDoubt, Writes, WriteFails, Fails, Leave, TypeOK, Steps,
         Holding, MaybeRequest
<1>17. ASSUME NEW r \in Requests, Clear(r) PROVE TypeOK'
  BY <1>17, GoToType
     DEF Clear, Writes, WriteFails, Fails, Leave, TypeOK, Steps, Holding,
         MaybeRequest
<1>18. ASSUME NEW r \in Requests, Release(r) PROVE TypeOK'
  <2>1. outcome[r] \in Answer \cup {None}
    BY DEF TypeOK
  <2>2. /\ pc' \in [Requests -> Steps]
        /\ answer' \in [Requests -> Answer \cup {None}]
    BY <1>18, <2>1, FinishType DEF Release
  <2>3. lock' \in Lock \cup {None} /\ faults' \in 0..MaxFaults
    BY <1>18 DEF Release, Fails, TypeOK
  <2> QED
    BY <1>18, <2>2, <2>3 DEF Release, TypeOK
<1>19. ASSUME NEW r \in Requests, Land(r) PROVE TypeOK'
  BY <1>19 DEF Land, TypeOK
<1>20. CASE OrphanLapses
  BY <1>20 DEF OrphanLapses, TypeOK
<1>21. CASE HeldLapses
  BY <1>21 DEF HeldLapses, TypeOK
<1>22. CASE RecordExpires
  BY <1>22 DEF RecordExpires, TypeOK
<1>23. ASSUME NEW p \in Replicas, Crash(p) PROVE TypeOK'
  <2>1. pc' \in [Requests -> Steps] /\ inFlight' \in [Replicas -> MaybeRequest]
    BY <1>23 DEF Crash, TypeOK, Steps, MaybeRequest
  <2> QED
    BY <1>23, <2>1 DEF Crash, TypeOK
<1>24. CASE UNCHANGED vars
  BY <1>24 DEF vars, TypeOK
<1> QED
  BY <1>1, <1>2, <1>3, <1>4, <1>5, <1>6, <1>7, <1>8, <1>9, <1>11, <1>12, <1>13,
     <1>14, <1>15, <1>16, <1>17, <1>18, <1>19, <1>20, <1>21, <1>22, <1>23, <1>24
     DEF Next, Execute, Lookup, Wait, ExecuteWithLock

\* Every variable keeps its type: in particular what is stored in Redis is a
\* well-formed record or lock, whatever commands fail.
THEOREM TypeCorrect == Spec => []TypeOK
<1>1. Init => TypeOK
  BY BoundsAssumption DEF Init, TypeOK, MaybeRequest, Steps
<1> QED
  BY <1>1, StepType, PTL DEF Spec

-----------------------------------------------------------------------------
(* A second launch needs a window                                          *)
(*                                                                         *)
(* While no window has opened, the lock is a mutual exclusion: whoever is   *)
(* between SET NX and release owns it.  Its holder is then the only one to  *)
(* write the record, and it finds none when it starts.                      *)

\* Not yet, or never, past the write of in_progress.
Unstarted == Steps \ (Holding \cup {"done", "lost"})

UnstartedHasNoLaunch ==
    \A r \in Requests :
        pc[r] \in Unstarted \cup {"writeProgress"} => launch[r] = "none"

HolderOwnsLock == \A r \in Requests : pc[r] \in Holding => Holds(r)

StartsFromNothing ==
    \A r \in Requests : pc[r] = "writeProgress" => record = None

ClearsNothingLive ==
    \A q, r \in Requests : pc[r] = "clear" => ~Live(q)

\* The action's own launch is what it can be at this step.
RunningIsLive ==
    \A r \in Requests :
        pc[r] \in {"acting", "writeDone", "writeDoubt", "writeLateDoubt"} => Live(r)

Remembered == \A r \in Requests : Live(r) => record # None

Closed ==
    /\ HolderOwnsLock
    /\ StartsFromNothing
    /\ ClearsNothingLive
    /\ Remembered
    /\ AtMostOneLaunch

WindowInv ==
    /\ TypeOK
    /\ UnstartedHasNoLaunch
    /\ RunningIsLive
    /\ windows = {} => Closed

\* A step that neither writes to Redis nor enters or leaves the lock.
LEMMA QuietStep ==
    ASSUME WindowInv, TypeOK', UNCHANGED <<record, lock, launch, windows>>,
           \A r \in Requests :
             \/ pc'[r] = pc[r]
             \/ pc[r] \in Unstarted /\ pc'[r] \in Unstarted \cup {"done"}
             \/ pc'[r] = "lost"
    PROVE  WindowInv'
BY DEF WindowInv, UnstartedHasNoLaunch, RunningIsLive, Closed, HolderOwnsLock,
       StartsFromNothing, ClearsNothingLive, Remembered, AtMostOneLaunch, Live,
       Holds, Unstarted, Holding, Polling, Steps

\* One holder at a time.
LEMMA OneHolder ==
    ASSUME HolderOwnsLock, NEW q \in Requests, NEW r \in Requests,
           pc[q] \in Holding, pc[r] \in Holding
    PROVE  q = r
BY DEF HolderOwnsLock, Holds

\* In the lock, what matters of a step is where the holder goes, what becomes of
\* its launch, and that a record is left for a live launch.
LEMMA HolderStep ==
    ASSUME WindowInv, TypeOK', NEW r \in Requests, pc[r] \in Holding,
           pc'[r] \in Holding \ {"writeProgress"},
           UNCHANGED <<lock, windows>>,
           \A q \in Requests \ {r} :
             /\ launch'[q] = launch[q]
             /\ pc'[q] = pc[q] \/ (pc[q] = "joined" /\ pc'[q] = "done"),
           pc'[r] \in {"acting", "writeDone", "writeDoubt", "writeLateDoubt"} =>
             Live(r)',
           windows = {} =>
             /\ pc'[r] = "clear" => ~Live(r)' /\ \A q \in Requests \ {r} : ~Live(q)
             /\ Live(r)' => record' # None
             /\ record' = None => record = None \/ pc[r] = "clear"
             /\ Live(r)' => Live(r) \/ pc[r] = "writeProgress"
    PROVE  WindowInv'
<1> USE DEF WindowInv
<1>1. UnstartedHasNoLaunch' /\ RunningIsLive'
  <2> SUFFICES ASSUME NEW q \in Requests
               PROVE  /\ pc'[q] \in Unstarted \cup {"writeProgress"} =>
                            launch'[q] = "none"
                      /\ pc'[q] \in {"acting", "writeDone", "writeDoubt",
                                     "writeLateDoubt"} => Live(q)'
    BY DEF UnstartedHasNoLaunch, RunningIsLive
  <2>1. CASE q = r
    BY <2>1 DEF Unstarted, Holding
  <2>2. CASE q # r
    BY <2>2 DEF UnstartedHasNoLaunch, RunningIsLive, Live, Unstarted
  <2> QED
    BY <2>1, <2>2
<1>2. ASSUME windows' = {} PROVE Closed'
  <2>1. windows = {} /\ Closed
    BY <1>2
  <2>2. \A q \in Requests \ {r} : pc[q] \notin Holding /\ pc'[q] \notin Holding
    BY <2>1, OneHolder DEF Closed, Holding
  <2>3. HolderOwnsLock' /\ StartsFromNothing'
    BY <2>1, <2>2
       DEF Closed, HolderOwnsLock, Holds, StartsFromNothing, Holding
  <2>4. ClearsNothingLive'
    BY <2>1, <2>2 DEF ClearsNothingLive, Live, Holding
  <2>5. Remembered'
    BY <2>1 DEF Closed, Remembered, ClearsNothingLive, Live
  <2>6. AtMostOneLaunch'
    BY <2>1
       DEF Closed, AtMostOneLaunch, Remembered, StartsFromNothing, Live
  <2> QED
    BY <2>3, <2>4, <2>5, <2>6 DEF Closed
<1> QED
  BY <1>1, <1>2

LEMMA WindowInit == Init => WindowInv
<1> SUFFICES ASSUME Init PROVE WindowInv
  OBVIOUS
<1>1. TypeOK
  BY BoundsAssumption DEF Init, TypeOK, MaybeRequest, Steps
<1> QED
  BY <1>1
     DEF Init, WindowInv, UnstartedHasNoLaunch, RunningIsLive, Closed,
         HolderOwnsLock, StartsFromNothing, ClearsNothingLive, Remembered,
         AtMostOneLaunch, Live, Holding

LEMMA WindowStep == WindowInv /\ [Next]_vars => WindowInv'
<1> SUFFICES ASSUME WindowInv, [Next]_vars PROVE WindowInv'
  OBVIOUS
<1>T. TypeOK /\ TypeOK'
  BY StepType DEF WindowInv
<1> USE DEF WindowInv
<1>1. ASSUME NEW r \in Requests, NEW step \in {"new", "read", "pollRecord",
                                               "pollLock", "afterWait"},
             ReadFails(r, step)
      PROVE  WindowInv'
  BY <1>1, <1>T, QuietStep
     DEF ReadFails, Finish, TypeOK, Unstarted, Steps, Polling, Holding
<1>2. ASSUME NEW r \in Requests, Read(r) PROVE WindowInv'
  BY <1>2, <1>T, QuietStep
     DEF Read, Finish, GoTo, TypeOK, Unstarted, Steps, Polling, Holding
<1>3. ASSUME NEW r \in Requests, Acquire(r) PROVE WindowInv'
  <2>0. /\ pc[r] = "acquire" /\ pc' = [pc EXCEPT ![r] = "writeProgress"]
        /\ lock = None /\ lock' = [payloadHash |-> HashOf[r], holder |-> r]
        /\ UNCHANGED <<record, launch>>
    BY <1>3 DEF Acquire, GoTo
  <2>a. lock' \in Lock /\ lock'.holder = r
    BY <2>0 DEF Lock, Hashes, MaybeRequest
  <2>b. windows' = {} => windows = {} /\ record = None
    BY <1>3 DEF Acquire
  <2>1. /\ pc[r] = "acquire" /\ pc' = [pc EXCEPT ![r] = "writeProgress"]
        /\ lock = None /\ lock'.holder = r /\ lock' # None
        /\ UNCHANGED <<record, launch>>
        /\ windows' = {} => windows = {} /\ record = None
    BY <2>0, <2>a, <2>b, NoneAssumption
  <2>2. UnstartedHasNoLaunch' /\ RunningIsLive'
    BY <2>1, <1>T
       DEF UnstartedHasNoLaunch, RunningIsLive, Live, TypeOK, Unstarted, Steps,
           Holding, Polling
  <2>3. ASSUME windows' = {} PROVE Closed'
    <3>1. windows = {} /\ record = None /\ Closed
      BY <2>1, <2>3
    <3>2. \A q \in Requests : pc[q] \notin Holding
      BY <2>1, <3>1 DEF Closed, HolderOwnsLock, Holds
    <3>3. HolderOwnsLock' /\ StartsFromNothing' /\ ClearsNothingLive'
      BY <2>1, <3>1, <3>2, <1>T
         DEF HolderOwnsLock, Holds, StartsFromNothing, ClearsNothingLive, TypeOK,
             Holding
    <3> QED
      BY <2>1, <3>1, <3>3 DEF Closed, Remembered, AtMostOneLaunch, Live
  <2> QED
    BY <1>T, <2>2, <2>3
<1>4. ASSUME NEW r \in Requests, AcquireBusy(r) PROVE WindowInv'
  BY <1>4, <1>T, QuietStep
     DEF AcquireBusy, GoTo, TypeOK, Unstarted, Steps, Polling, Holding
<1>5. ASSUME NEW r \in Requests, AcquireFails(r) PROVE WindowInv'
  <2>1. /\ UNCHANGED <<record, launch, windows>>
        /\ pc[r] = "acquire"
        /\ \E step \in {"done", "pollRecord"} : pc' = [pc EXCEPT ![r] = step]
        /\ lock' = lock \/ lock = None
    BY <1>5 DEF AcquireFails, Finish, GoTo
  <2>2. UnstartedHasNoLaunch' /\ RunningIsLive'
    BY <2>1, <1>T
       DEF UnstartedHasNoLaunch, RunningIsLive, Live, TypeOK, Unstarted, Steps,
           Holding, Polling
  <2>3. ASSUME windows' = {} PROVE Closed'
    <3>1. Closed
      BY <2>1, <2>3
    <3>2. HolderOwnsLock'
      BY <2>1, <3>1, <1>T DEF Closed, HolderOwnsLock, Holds, TypeOK, Holding
    <3>3. StartsFromNothing' /\ ClearsNothingLive'
      BY <2>1, <3>1, <1>T
         DEF Closed, StartsFromNothing, ClearsNothingLive, Live, TypeOK
    <3> QED
      BY <2>1, <3>1, <3>2, <3>3 DEF Closed, Remembered, AtMostOneLaunch, Live
  <2> QED
    BY <1>T, <2>2, <2>3
<1>6. ASSUME NEW r \in Requests, PollRecord(r) PROVE WindowInv'
  BY <1>6, <1>T, QuietStep
     DEF PollRecord, Finish, GoTo, TypeOK, Unstarted, Steps, Polling, Holding
<1>7. ASSUME NEW r \in Requests, PollLock(r) PROVE WindowInv'
  BY <1>7, <1>T, QuietStep
     DEF PollLock, Finish, GoTo, TypeOK, Unstarted, Steps, Polling, Holding
<1>8. ASSUME NEW r \in Requests, AfterWait(r) PROVE WindowInv'
  BY <1>8, <1>T, QuietStep
     DEF AfterWait, Finish, GoTo, TypeOK, Unstarted, Steps, Polling, Holding
<1>9. ASSUME NEW r \in Requests, WriteProgress(r) PROVE WindowInv'
  <2>1. /\ pc[r] = "writeProgress"
        /\ UNCHANGED <<lock, windows>>
        /\ \/ /\ record' = NewRecord("in_progress", r, None)
              /\ pc' = [pc EXCEPT ![r] = "acting"]
              /\ launch' = [launch EXCEPT ![r] = "pending"]
           \/ /\ record' \in {record, NewRecord("in_progress", r, None)}
              /\ pc' = [pc EXCEPT ![r] = "clear"]
              /\ launch' = launch
    BY <1>9 DEF WriteProgress, Writes, WriteFails, GoTo
  <2>2. NewRecord("in_progress", r, None) # None
    BY RecordType DEF MaybeRequest
  <2>3. windows = {} => \A q \in Requests : ~Live(q)
    BY <2>1 DEF Closed, StartsFromNothing, Remembered
  <2>4. pc'[r] = "acting" => Live(r)' /\ record' # None
    BY <1>T, <2>1, <2>2 DEF Live, TypeOK
  <2>5. pc'[r] \in {"acting", "clear"} /\ (pc'[r] = "clear" => ~Live(r)')
    BY <1>T, <2>1 DEF UnstartedHasNoLaunch, Live, TypeOK
  <2>6. \A q \in Requests \ {r} : launch'[q] = launch[q] /\ pc'[q] = pc[q]
    BY <1>T, <2>1 DEF TypeOK
  <2> QED
    BY <1>T, <2>1, <2>2, <2>3, <2>4, <2>5, <2>6, HolderStep DEF Holding
<1>10. ASSUME NEW r \in Requests, NEW own, NEW joined, Settle(r, "writeDone", own, joined)
              \/ Settle(r, "writeDoubt", own, joined),
              UNCHANGED launch
       PROVE  WindowInv'
  <2>1. /\ pc[r] = "acting" /\ pc'[r] \in {"writeDone", "writeDoubt"}
        /\ UNCHANGED <<record, lock, windows>>
        /\ \A q \in Requests \ {r} :
             pc'[q] = pc[q] \/ (pc[q] = "joined" /\ pc'[q] = "done")
    BY <1>10, <1>T DEF Settle, Joined, TypeOK
  <2>2. Live(r) /\ Live(r)' /\ (windows = {} => record # None)
    BY <1>10, <2>1 DEF RunningIsLive, Closed, Remembered, Live
  <2> QED
    BY <1>10, <1>T, <2>1, <2>2, HolderStep DEF Holding
<1>11. ASSUME NEW r \in Requests, Resolve(r) \/ Doubt(r) PROVE WindowInv'
  BY <1>10, <1>11 DEF Resolve, Doubt
<1>12. ASSUME NEW r \in Requests, Reject(r) PROVE WindowInv'
  <2>1. /\ pc[r] = "acting" /\ pc'[r] = "clear"
        /\ UNCHANGED <<record, lock, windows>>
        /\ \A q \in Requests \ {r} :
             /\ pc'[q] = pc[q] \/ (pc[q] = "joined" /\ pc'[q] = "done")
             /\ launch'[q] = launch[q]
        /\ launch'[r] = "rejected"
    BY <1>12, <1>T DEF Reject, Settle, Joined, TypeOK
  <2>2. Live(r) /\ ~Live(r)'
    BY <2>1 DEF RunningIsLive, Live
  <2>3. windows = {} => record # None /\ \A q \in Requests \ {r} : ~Live(q)
    BY <2>2 DEF Closed, Remembered, AtMostOneLaunch
  <2> QED
    BY <1>T, <2>1, <2>2, <2>3, HolderStep DEF Holding
\* The writes of the settled holder.
<1>13. ASSUME NEW r \in Requests, NEW rec \in Record,
              pc[r] \in {"writeDone", "writeDoubt", "writeLateDoubt"},
              NEW step \in {"release", "writeLateDoubt"},
              pc' = [pc EXCEPT ![r] = step],
              record' \in {record, rec},
              UNCHANGED <<lock, launch, windows>>
       PROVE  WindowInv'
  <2>1. Live(r) /\ Live(r)' /\ (windows = {} => record # None) /\ rec # None
    BY <1>13, NoneAssumption DEF RunningIsLive, Closed, Remembered, Live
  <2> QED
    BY <1>13, <1>T, <2>1, HolderStep DEF Holding, TypeOK
<1>14. ASSUME NEW r \in Requests, WriteDone(r) \/ WriteDoubt(r) \/ WriteLateDoubt(r)
       PROVE  WindowInv'
  <2>1. /\ NewRecord("completed", r, r) \in Record
        /\ NewRecord("in_doubt", r, r) \in Record
    BY RecordType DEF MaybeRequest
  <2> QED
    BY <1>13, <1>14, <2>1
       DEF WriteDone, WriteDoubt, WriteLateDoubt, Writes, WriteFails, Leave, GoTo
<1>15. ASSUME NEW r \in Requests, Clear(r) PROVE WindowInv'
  <2>1. /\ pc[r] = "clear" /\ pc' = [pc EXCEPT ![r] = "release"]
        /\ UNCHANGED <<lock, launch, windows>>
    BY <1>15 DEF Clear, Leave, GoTo
  <2>2. windows = {} => \A q \in Requests : ~Live(q) /\ ~Live(q)'
    BY <2>1 DEF Closed, ClearsNothingLive, Live
  <2> QED
    BY <1>T, <2>1, <2>2, HolderStep DEF Holding, TypeOK
<1>16. ASSUME NEW r \in Requests, Release(r) PROVE WindowInv'
  <2>1. /\ pc[r] = "release" /\ pc' = [pc EXCEPT ![r] = "done"]
        /\ UNCHANGED <<record, launch, windows>>
        /\ lock' = lock \/ (Holds(r) /\ lock' = None)
    BY <1>16 DEF Release, Finish
  <2>2. UnstartedHasNoLaunch' /\ RunningIsLive'
    BY <2>1, <1>T DEF UnstartedHasNoLaunch, RunningIsLive, Live, TypeOK, Unstarted
  <2>3. ASSUME windows' = {} PROVE Closed'
    <3>1. windows = {} /\ Closed
      BY <2>1, <2>3
    <3>2. \A q \in Requests \ {r} : pc[q] \in Holding => ~Holds(r)
      BY <3>1 DEF Closed, HolderOwnsLock, Holds
    <3>3. HolderOwnsLock'
      BY <2>1, <3>1, <3>2, <1>T DEF Closed, HolderOwnsLock, Holds, Holding, TypeOK
    <3> QED
      BY <2>1, <3>1, <3>3, <1>T
         DEF Closed, StartsFromNothing, ClearsNothingLive, Remembered,
             AtMostOneLaunch, Live, TypeOK
  <2> QED
    BY <1>T, <2>2, <2>3
<1>17. ASSUME NEW r \in Requests, Land(r) PROVE WindowInv'
  <2>1. /\ UNCHANGED <<record, lock, pc, windows>>
        /\ \A q \in Requests : Live(q)' <=> Live(q)
        /\ \A q \in Requests : launch[q] = "none" => launch'[q] = "none"
    BY <1>17, <1>T DEF Land, Live, TypeOK
  <2> QED
    BY <1>T, <2>1
       DEF UnstartedHasNoLaunch, RunningIsLive, Closed, HolderOwnsLock, Holds,
           StartsFromNothing, ClearsNothingLive, Remembered, AtMostOneLaunch
<1>18. CASE OrphanLapses
  <2>1. /\ UNCHANGED <<record, pc, launch, windows>> /\ lock' = None
        /\ \A r \in Requests : pc[r] \in Holding => ~Holds(r)
    BY <1>18, NoneAssumption DEF OrphanLapses, Holds
  <2> QED
    BY <1>T, <2>1
       DEF UnstartedHasNoLaunch, RunningIsLive, Closed, HolderOwnsLock,
           StartsFromNothing, ClearsNothingLive, Remembered, AtMostOneLaunch, Live
<1>19. CASE HeldLapses \/ RecordExpires
  <2>1. UNCHANGED <<pc, launch>> /\ windows' # {}
    BY <1>19 DEF HeldLapses, RecordExpires
  <2> QED
    BY <1>T, <2>1 DEF UnstartedHasNoLaunch, RunningIsLive, Live
<1>20. ASSUME NEW p \in Replicas, Crash(p) PROVE WindowInv'
  BY <1>20, <1>T, QuietStep DEF Crash, TypeOK
<1>21. CASE UNCHANGED vars
  BY <1>21, <1>T, QuietStep DEF vars
<1> QED
  BY <1>1, <1>2, <1>3, <1>4, <1>5, <1>6, <1>7, <1>8, <1>9, <1>11, <1>12, <1>14,
     <1>15, <1>16, <1>17, <1>18, <1>19, <1>20, <1>21
     DEF Next, Execute, Lookup, Wait, ExecuteWithLock

LEMMA Window == Spec => []WindowInv
BY WindowInit, WindowStep, PTL DEF Spec

\* No interleaving of requests and replicas, failed command, lost reply or crash
\* leads to a second launch by itself: a lapsed lock, an expired record or a
\* stale look at the record must come first.
THEOREM NoSecondLaunch == Spec => []SecondLaunchNeedsWindow
<1>1. WindowInv => SecondLaunchNeedsWindow
  BY DEF WindowInv, Closed, SecondLaunchNeedsWindow
<1> QED
  BY <1>1, Window, PTL

\* Until one of these has happened, Redis holds a record for every live launch.
THEOREM LaunchesRemembered == Spec => []LaunchRemembered
<1>1. WindowInv => LaunchRemembered
  BY DEF WindowInv, Closed, Remembered, LaunchRemembered
<1> QED
  BY <1>1, Window, PTL

-----------------------------------------------------------------------------
(* Honest answers                                                          *)
(*                                                                         *)
(* The record, the outcome of a holder and every answer name only launches  *)
(* whose action is over, so that nothing can reject them any more.  This    *)
(* needs no lock: it holds with all windows open.                           *)

Settled(l) == Live(l) /\ pc[l] # "acting"

HonestRecord(rec) ==
    /\ rec.launch # None =>
         Settled(rec.launch) /\ HashOf[rec.launch] = rec.payloadHash
    /\ rec.state = "completed" =>
         rec.launch # None /\ launch[rec.launch] = "landed"

HonestAnswer(r, a) ==
    /\ a.kind \in {"ok", "replayed"} =>
         a.launch # None /\ launch[a.launch] = "landed"
    /\ a.launch # None => Settled(a.launch) /\ HashOf[a.launch] = HashOf[r]

HonestRecords == record # None => HonestRecord(record)
HonestAnswers ==
    \A r \in Requests : answer[r] # None => HonestAnswer(r, answer[r])
HonestOutcomes ==
    \A r \in Requests : outcome[r] # None => HonestAnswer(r, outcome[r])

CompletedHasLanded ==
    \A r \in Requests :
        pc[r] \in {"writeDone", "writeLateDoubt"} => launch[r] = "landed"

JoinedAlike ==
    \A q \in Requests :
        pc[q] = "joined" => leader[q] # None /\ HashOf[leader[q]] = HashOf[q]

HonestInv ==
    /\ WindowInv
    /\ HonestRecords
    /\ HonestAnswers
    /\ HonestOutcomes
    /\ CompletedHasLanded
    /\ JoinedAlike

\* What no step takes back.
Kept ==
    \A q \in Requests :
        /\ Settled(q) => Settled(q)'
        /\ launch[q] = "landed" => launch'[q] = "landed"

LEMMA RecordStays ==
    ASSUME Kept, NEW rec \in Record, HonestRecord(rec)
    PROVE  HonestRecord(rec)'
<1>1. rec.launch \in Requests \cup {None}
  BY DEF Record, MaybeRequest
<1> QED
  BY <1>1 DEF HonestRecord, Kept

LEMMA AnswerStays ==
    ASSUME Kept, NEW r \in Requests, NEW a \in Answer, HonestAnswer(r, a)
    PROVE  HonestAnswer(r, a)'
<1>1. a.launch \in Requests \cup {None}
  BY DEF Answer, MaybeRequest
<1> QED
  BY <1>1 DEF HonestAnswer, Kept

\* The invariant after a step, from what the step has written.
LEMMA HonestyStays ==
    ASSUME HonestInv, WindowInv', Kept,
           \A rec \in Record : record' = rec => rec = record \/ HonestRecord(rec)',
           \A r \in Requests : \A a \in Answer :
               /\ answer'[r] = a => a = answer[r] \/ HonestAnswer(r, a)'
               /\ outcome'[r] = a => a = outcome[r] \/ HonestAnswer(r, a)',
           CompletedHasLanded', JoinedAlike'
    PROVE  HonestInv'
<1>T. TypeOK /\ TypeOK'
  BY DEF HonestInv, WindowInv
<1>1. HonestRecords'
  <2> SUFFICES ASSUME record' # None PROVE HonestRecord(record)'
    BY DEF HonestRecords
  <2>1. PICK rec \in Record : record' = rec
    BY <1>T DEF TypeOK
  <2>2. HonestRecord(rec)'
    BY <2>1, RecordStays, NoneAssumption DEF HonestInv, HonestRecords
  <2> QED
    BY <2>1, <2>2 DEF HonestRecord
<1>2. HonestAnswers'
  <2> SUFFICES ASSUME NEW r \in Requests, answer'[r] # None
               PROVE  HonestAnswer(r, answer[r])'
    BY DEF HonestAnswers
  <2>1. PICK a \in Answer : answer'[r] = a
    BY <1>T DEF TypeOK
  <2>2. HonestAnswer(r, a)'
    BY <2>1, AnswerStays, NoneAssumption DEF HonestInv, HonestAnswers
  <2> QED
    BY <2>1, <2>2 DEF HonestAnswer
<1>3. HonestOutcomes'
  <2> SUFFICES ASSUME NEW r \in Requests, outcome'[r] # None
               PROVE  HonestAnswer(r, outcome[r])'
    BY DEF HonestOutcomes
  <2>1. PICK a \in Answer : outcome'[r] = a
    BY <1>T DEF TypeOK
  <2>2. HonestAnswer(r, a)'
    BY <2>1, AnswerStays, NoneAssumption DEF HonestInv, HonestOutcomes
  <2> QED
    BY <2>1, <2>2 DEF HonestAnswer
<1> QED
  BY <1>1, <1>2, <1>3 DEF HonestInv

\* Answers without a launch are honest whoever gets them.
LEMMA EmptyAnswer ==
    ASSUME NEW kind \in {"mismatch", "in_doubt", "rejected", "store_error"},
           NEW r \in Requests
    PROVE  HonestAnswer(r, Reply(kind, None)) /\ HonestAnswer(r, Reply(kind, None))'
BY DEF HonestAnswer, Reply

\* A step outside the lock: nobody starts, ends or settles an action, and r is
\* perhaps answered.
LEMMA OutsideStep ==
    ASSUME HonestInv, WindowInv', NEW r \in Requests,
           pc[r] \in Unstarted, UNCHANGED <<record, outcome, launch>>,
           \/ \E a \in Answer : Finish(r, a) /\ HonestAnswer(r, a) /\ UNCHANGED leader
           \/ \E step \in (Unstarted \ {"joined"}) \cup {"writeProgress"} :
                GoTo(r, step) /\ UNCHANGED leader
           \/ \E l \in Requests :
                /\ GoTo(r, "joined") /\ HashOf[l] = HashOf[r]
                /\ leader' = [leader EXCEPT ![r] = l]
    PROVE  HonestInv'
<1>T. TypeOK /\ TypeOK'
  BY DEF HonestInv, WindowInv
<1>1. /\ \A q \in Requests \ {r} : pc'[q] = pc[q] /\ leader'[q] = leader[q]
      /\ pc'[r] \in {"done", "writeProgress"} \cup Unstarted
  <2>1. pc \in [Requests -> Steps] /\ leader \in [Requests -> MaybeRequest]
    BY <1>T DEF TypeOK
  <2>2. CASE \E a \in Answer : Finish(r, a) /\ UNCHANGED leader
    BY <2>1, <2>2 DEF Finish
  <2>3. CASE \E step \in (Unstarted \ {"joined"}) \cup {"writeProgress"} :
               GoTo(r, step) /\ UNCHANGED leader
    BY <2>1, <2>3 DEF GoTo
  <2>4. CASE \E l \in Requests :
               GoTo(r, "joined") /\ leader' = [leader EXCEPT ![r] = l]
    BY <2>1, <2>4 DEF GoTo, Unstarted, Steps, Holding
  <2> QED
    BY <2>2, <2>3, <2>4
<1>2. Kept
  BY <1>1 DEF Kept, Settled, Live, Unstarted, Holding
<1>3. \A q \in Requests : \A b \in Answer :
        answer'[q] = b => b = answer[q] \/ HonestAnswer(q, b)'
  <2> SUFFICES ASSUME NEW q \in Requests, NEW b \in Answer, answer'[q] = b, b # answer[q]
               PROVE  HonestAnswer(q, b)'
    OBVIOUS
  <2>1. q = r /\ HonestAnswer(r, b)
    BY <1>T DEF Finish, GoTo, TypeOK
  <2> QED
    BY <1>2, <2>1, AnswerStays
<1>4. CompletedHasLanded'
  BY <1>1 DEF HonestInv, CompletedHasLanded, Unstarted, Holding
<1>5. JoinedAlike'
  <2> SUFFICES ASSUME NEW q \in Requests, pc'[q] = "joined"
               PROVE  leader'[q] # None /\ HashOf[leader'[q]] = HashOf[q]
    BY DEF JoinedAlike
  <2>1. CASE q # r
    BY <1>1, <2>1 DEF HonestInv, JoinedAlike
  <2>2. CASE q = r
    <3>1. PICK l \in Requests :
            HashOf[l] = HashOf[r] /\ leader' = [leader EXCEPT ![r] = l]
      BY <1>T, <2>2 DEF Finish, GoTo, TypeOK
    <3>2. leader'[r] = l /\ l # None
      BY <1>T, <3>1, NoneAssumption DEF TypeOK
    <3> QED
      BY <2>2, <3>1, <3>2
  <2> QED
    BY <2>1, <2>2
<1> QED
  BY <1>2, <1>3, <1>4, <1>5, HonestyStays

\* What a request finds stored is honest to it.
LEMMA StoredIsHonest ==
    ASSUME HonestInv, NEW r \in Requests, record # None
    PROVE  \A a \in Answer : StoredAnswer(record, HashOf[r]) = a => HonestAnswer(r, a)
<1>1. PICK rec \in Record : record = rec
  BY DEF HonestInv, WindowInv, TypeOK
<1>2. HonestRecord(rec)
  BY <1>1, NoneAssumption DEF HonestInv, HonestRecords
<1> SUFFICES ASSUME NEW a \in Answer, StoredAnswer(rec, HashOf[r]) = a
             PROVE  HonestAnswer(r, a)
  BY <1>1
<1>3. /\ a.launch # None => rec.payloadHash = HashOf[r] /\ a.launch = rec.launch
      /\ a.kind \in {"ok", "replayed"} => a.launch = rec.launch /\ rec.state = "completed"
  BY NoneAssumption DEF StoredAnswer, Reply
<1> QED
  BY <1>2, <1>3 DEF HonestRecord, HonestAnswer

\* What the promise of a leader with the payload of r has settled to is honest
\* to r.
LEMMA PromiseIsHonest ==
    ASSUME HonestInv, NEW r \in Requests, NEW l \in Requests, HashOf[l] = HashOf[r]
    PROVE  \A a \in Answer : PromiseAnswer(l) = a => HonestAnswer(r, a)
<1> SUFFICES ASSUME NEW a \in Answer, PromiseAnswer(l) = a PROVE HonestAnswer(r, a)
  OBVIOUS
<1>1. CASE pc[l] \in {"writeDone", "writeLateDoubt"}
  <2>1. a = Reply("replayed", l)
    BY <1>1 DEF PromiseAnswer
  <2>2. launch[l] = "landed" /\ pc[l] # "acting"
    BY <1>1 DEF HonestInv, CompletedHasLanded
  <2> QED
    BY <2>1, <2>2, NoneAssumption DEF HonestAnswer, Settled, Live, Reply
<1>2. CASE pc[l] = "writeDoubt"
  <2>1. a = Reply("in_doubt", l)
    BY <1>2 DEF PromiseAnswer
  <2>2. Live(l) /\ pc[l] # "acting"
    BY <1>2 DEF HonestInv, WindowInv, RunningIsLive
  <2> QED
    BY <2>1, <2>2, NoneAssumption DEF HonestAnswer, Settled, Reply
<1>3. CASE pc[l] = "clear"
  BY <1>3 DEF PromiseAnswer, HonestAnswer, Reply
<1>4. CASE pc[l] \notin {"writeDone", "writeLateDoubt", "writeDoubt", "clear"}
  BY <1>4, NoneAssumption DEF PromiseAnswer
<1> QED
  BY <1>1, <1>2, <1>3, <1>4

LEMMA LookupAndWaitStep ==
    ASSUME HonestInv, WindowInv', NEW r \in Requests, Lookup(r) \/ Wait(r)
    PROVE  HonestInv'
<1>T. TypeOK
  BY DEF HonestInv, WindowInv
<1>U. {"new", "read", "afterWait", "acquire"} \cup Polling \subseteq Unstarted \ {"joined"}
  BY DEF Unstarted, Steps, Holding, Polling
<1>E. ASSUME NEW kind \in {"mismatch", "in_doubt", "rejected", "store_error"}
      PROVE  Reply(kind, None) \in Answer /\ HonestAnswer(r, Reply(kind, None))
  BY ReplyType, EmptyAnswer DEF MaybeRequest
<1>1. ASSUME NEW step \in {"new", "read", "pollRecord", "pollLock", "afterWait"},
             ReadFails(r, step)
      PROVE  HonestInv'
  BY <1>1, <1>E, <1>U, OutsideStep DEF ReadFails, Polling
<1>S. record # None =>
        /\ StoredAnswer(record, HashOf[r]) \in Answer \cup {None}
        /\ StoredAnswer(record, HashOf[r]) # None =>
             HonestAnswer(r, StoredAnswer(record, HashOf[r]))
  BY <1>T, StoredAnswerType, StoredIsHonest DEF TypeOK
<1>2. CASE Read(r)
  <2>1. pc[r] \in Unstarted /\ UNCHANGED <<record, outcome, launch>>
    BY <1>2, <1>U DEF Read
  <2>2. CASE record # None
    <3>1. UNCHANGED leader /\ \/ \E a \in Answer : Finish(r, a) /\ HonestAnswer(r, a)
                              \/ GoTo(r, "pollRecord")
      BY <1>2, <1>S, <2>2 DEF Read
    <3> QED
      BY <1>U, <2>1, <3>1, OutsideStep DEF Polling
  <2>3. CASE record = None /\ inFlight[ReplicaOf[r]] # None
    <3>1. PICK l \in Requests : l = inFlight[ReplicaOf[r]]
      BY <1>T, <2>3, RequestsAssumption DEF TypeOK, MaybeRequest
    <3>2. CASE HashOf[l] # HashOf[r]
      <4>1. Finish(r, Reply("mismatch", None)) /\ UNCHANGED leader
        BY <1>2, <2>3, <3>1, <3>2 DEF Read
      <4> QED
        BY <1>E, <2>1, <4>1, OutsideStep
    <3>3. CASE HashOf[l] = HashOf[r] /\ PromiseAnswer(l) = None
      <4>1. GoTo(r, "joined") /\ leader' = [leader EXCEPT ![r] = l]
        BY <1>2, <2>3, <3>1, <3>3 DEF Read
      <4> QED
        BY <2>1, <3>3, <4>1, OutsideStep
    <3>4. CASE HashOf[l] = HashOf[r] /\ PromiseAnswer(l) # None
      <4>1. Finish(r, PromiseAnswer(l)) /\ UNCHANGED leader
        BY <1>2, <2>3, <3>1, <3>4 DEF Read
      <4>2. PromiseAnswer(l) \in Answer /\ HonestAnswer(r, PromiseAnswer(l))
        BY <3>4, PromiseAnswerType, PromiseIsHonest
      <4> QED
        BY <2>1, <4>1, <4>2, OutsideStep
    <3> QED
      BY <3>2, <3>3, <3>4
  <2>4. CASE record = None /\ inFlight[ReplicaOf[r]] = None
    <3>1. GoTo(r, "acquire") /\ UNCHANGED leader
      BY <1>2, <2>4 DEF Read
    <3> QED
      BY <1>U, <2>1, <3>1, OutsideStep
  <2> QED
    BY <2>2, <2>3, <2>4
<1>3. CASE Acquire(r)
  BY <1>3, <1>U, OutsideStep DEF Acquire
<1>4. CASE AcquireBusy(r)
  BY <1>4, <1>U, OutsideStep DEF AcquireBusy, Polling
<1>5. CASE AcquireFails(r)
  <2>1. /\ pc[r] \in Unstarted /\ UNCHANGED <<record, outcome, launch, leader>>
        /\ Finish(r, Reply("store_error", None)) \/ GoTo(r, "pollRecord")
    BY <1>5, <1>U DEF AcquireFails
  <2> QED
    BY <1>E, <1>U, <2>1, OutsideStep DEF Polling
<1>6. CASE PollRecord(r)
  <2>1. /\ pc[r] \in Unstarted /\ UNCHANGED <<record, outcome, launch, leader>>
        /\ \/ \E a \in Answer : Finish(r, a) /\ HonestAnswer(r, a)
           \/ GoTo(r, "pollLock")
    BY <1>6, <1>S, <1>U DEF PollRecord, Polling
  <2> QED
    BY <1>U, <2>1, OutsideStep DEF Polling
<1>7. CASE PollLock(r)
  <2>1. /\ pc[r] \in Unstarted /\ UNCHANGED <<record, outcome, launch, leader>>
        /\ \/ Finish(r, Reply("mismatch", None))
           \/ \E step \in {"afterWait", "read", "pollRecord"} : GoTo(r, step)
    BY <1>7, <1>U DEF PollLock, Polling
  <2> QED
    BY <1>E, <1>U, <2>1, OutsideStep DEF Polling
<1>8. CASE AfterWait(r)
  <2>1. /\ pc[r] \in Unstarted /\ UNCHANGED <<record, outcome, launch, leader>>
        /\ Finish(r, Reply("in_doubt", None)) \/ GoTo(r, "read")
    BY <1>8, <1>U DEF AfterWait
  <2> QED
    BY <1>E, <1>U, <2>1, OutsideStep
<1> QED
  BY <1>1, <1>2, <1>3, <1>4, <1>5, <1>6, <1>7, <1>8 DEF Lookup, Wait

\* The action of r ends: those that joined it are answered.
LEMMA SettleHonest ==
    ASSUME HonestInv, WindowInv', NEW r \in Requests,
           NEW step \in {"writeDone", "writeDoubt", "clear"},
           NEW own \in Answer, NEW joined \in Answer, Settle(r, step, own, joined),
           \A q \in Requests : q # r => launch'[q] = launch[q],
           launch[r] = "landed" => launch'[r] = "landed",
           step = "writeDone" => launch'[r] = "landed",
           HonestAnswer(r, own)',
           \A q \in Requests : HashOf[q] = HashOf[r] => HonestAnswer(q, joined)'
    PROVE  HonestInv'
<1>T. TypeOK /\ TypeOK'
  BY DEF HonestInv, WindowInv
<1>1. /\ pc[r] = "acting" /\ pc'[r] = step /\ UNCHANGED <<record, leader>>
      /\ \A q \in Requests \ {r} :
           /\ pc'[q] \in {pc[q], "done"}
           /\ outcome'[q] = outcome[q]
           /\ answer'[q] = answer[q] \/ (HashOf[q] = HashOf[r] /\ answer'[q] = joined)
      /\ outcome'[r] = own
      /\ answer'[r] \in {answer[r], joined}
  BY <1>T DEF Settle, Joined, TypeOK, HonestInv, JoinedAlike
<1>2. Kept
  <2> SUFFICES ASSUME NEW q \in Requests
               PROVE  /\ Settled(q) => Settled(q)'
                      /\ launch[q] = "landed" => launch'[q] = "landed"
    BY DEF Kept
  <2>1. CASE q = r
    BY <1>1, <2>1 DEF Settled
  <2>2. CASE q # r
    BY <1>1, <2>2 DEF Settled, Live
  <2> QED
    BY <2>1, <2>2
<1>3. \A q \in Requests : \A a \in Answer :
        /\ answer'[q] = a => a = answer[q] \/ HonestAnswer(q, a)'
        /\ outcome'[q] = a => a = outcome[q] \/ HonestAnswer(q, a)'
  BY <1>1
<1>4. CompletedHasLanded'
  BY <1>1 DEF HonestInv, CompletedHasLanded
<1>5. JoinedAlike'
  BY <1>1 DEF HonestInv, JoinedAlike
<1> QED
  BY <1>1, <1>2, <1>3, <1>4, <1>5, HonestyStays

LEMMA EndOfActionStep ==
    ASSUME HonestInv, WindowInv', NEW r \in Requests,
           Resolve(r) \/ Doubt(r) \/ Reject(r)
    PROVE  HonestInv'
<1>T. TypeOK
  BY DEF HonestInv, WindowInv
<1>1. pc[r] = "acting" /\ Live(r)
  BY DEF Resolve, Doubt, Reject, Settle, HonestInv, WindowInv, RunningIsLive
<1>2. CASE Resolve(r)
  <2>1. /\ launch'[r] = "landed" /\ UNCHANGED launch
        /\ Settle(r, "writeDone", Reply("ok", r), Reply("replayed", r))
    BY <1>2 DEF Resolve
  <2>2. Settled(r)'
    BY <1>T, <2>1 DEF Settle, Settled, Live, TypeOK
  <2>3. HonestAnswer(r, Reply("ok", r))'
    BY <2>1, <2>2, NoneAssumption DEF HonestAnswer, Reply
  <2>4. \A q \in Requests :
          HashOf[q] = HashOf[r] => HonestAnswer(q, Reply("replayed", r))'
    BY <2>1, <2>2, NoneAssumption DEF HonestAnswer, Reply
  <2>5. Reply("ok", r) \in Answer /\ Reply("replayed", r) \in Answer
    BY ReplyType DEF MaybeRequest
  <2> QED
    BY <2>1, <2>3, <2>4, <2>5, SettleHonest
<1>3. CASE Doubt(r)
  <2>1. /\ UNCHANGED launch
        /\ Settle(r, "writeDoubt", Reply("in_doubt", r), Reply("in_doubt", r))
    BY <1>3 DEF Doubt
  <2>2. Settled(r)'
    BY <1>1, <1>T, <2>1 DEF Settle, Settled, Live, TypeOK
  <2>3. \A q \in Requests :
          HashOf[q] = HashOf[r] => HonestAnswer(q, Reply("in_doubt", r))'
    BY <2>2, NoneAssumption DEF HonestAnswer, Reply
  <2>4. Reply("in_doubt", r) \in Answer
    BY ReplyType DEF MaybeRequest
  <2> QED
    BY <2>1, <2>3, <2>4, SettleHonest
<1>4. CASE Reject(r)
  <2>1. /\ launch[r] = "pending" /\ launch' = [launch EXCEPT ![r] = "rejected"]
        /\ Settle(r, "clear", Reply("rejected", None), Reply("rejected", None))
    BY <1>4 DEF Reject
  <2>2. Reply("rejected", None) \in Answer
    BY ReplyType DEF MaybeRequest
  <2>3. \A q \in Requests : HonestAnswer(q, Reply("rejected", None))'
    BY EmptyAnswer
  <2>4. \A q \in Requests : q # r => launch'[q] = launch[q]
    BY <1>T, <2>1 DEF TypeOK
  <2> QED
    BY <2>1, <2>2, <2>3, <2>4, SettleHonest
<1> QED
  BY <1>2, <1>3, <1>4

\* The holder writes to Redis and goes on, all launches as they were.
LEMMA WriterStep ==
    ASSUME HonestInv, WindowInv', NEW r \in Requests, pc[r] \in Holding,
           NEW step \in Holding \ {"acting"}, GoTo(r, step),
           step \in {"writeDone", "writeLateDoubt"} => launch[r] = "landed",
           UNCHANGED <<launch, leader>>,
           \A rec \in Record : record' = rec => rec = record \/ HonestRecord(rec)',
           outcome' = outcome \/ \E a \in Answer :
               outcome' = [outcome EXCEPT ![r] = a] /\ HonestAnswer(r, a)'
    PROVE  HonestInv'
<1>T. TypeOK /\ TypeOK'
  BY DEF HonestInv, WindowInv
<1>1. /\ pc'[r] = step /\ UNCHANGED answer
      /\ \A q \in Requests \ {r} : pc'[q] = pc[q]
  BY <1>T DEF GoTo, TypeOK
<1>2. Kept
  BY <1>1 DEF Kept, Settled, Live
<1>3. \A q \in Requests : \A a \in Answer :
        /\ answer'[q] = a => a = answer[q] \/ HonestAnswer(q, a)'
        /\ outcome'[q] = a => a = outcome[q] \/ HonestAnswer(q, a)'
  BY <1>T, <1>1 DEF TypeOK
<1>4. CompletedHasLanded' /\ JoinedAlike'
  BY <1>1 DEF HonestInv, CompletedHasLanded, JoinedAlike, Holding
<1> QED
  BY <1>2, <1>3, <1>4, HonestyStays

LEMMA HolderStepHonest ==
    ASSUME HonestInv, WindowInv', NEW r \in Requests,
           \/ WriteProgress(r) \/ WriteDone(r) \/ WriteDoubt(r)
           \/ WriteLateDoubt(r) \/ Clear(r)
    PROVE  HonestInv'
<1>T. TypeOK /\ TypeOK'
  BY DEF HonestInv, WindowInv
<1>E. Reply("store_error", None) \in Answer /\ HonestAnswer(r, Reply("store_error", None))'
  BY ReplyType, EmptyAnswer DEF MaybeRequest
<1>H. \A state \in {"in_progress", "in_doubt"} :
        HonestRecord(NewRecord(state, r, None))'
  BY DEF HonestRecord, NewRecord
<1>1. CASE WriteProgress(r)
  <2>1. CASE pc' = [pc EXCEPT ![r] = "acting"]
    <3>1. /\ pc[r] = "writeProgress" /\ launch' = [launch EXCEPT ![r] = "pending"]
          /\ record' = NewRecord("in_progress", r, None)
          /\ UNCHANGED <<answer, outcome, leader>>
      BY <1>1, <1>T, <2>1 DEF WriteProgress, Writes, GoTo, TypeOK, Steps, Holding
    <3>2. launch[r] = "none"
      BY <3>1 DEF HonestInv, WindowInv, UnstartedHasNoLaunch
    <3>3. Kept
      <4> SUFFICES ASSUME NEW q \in Requests
                   PROVE  /\ Settled(q) => Settled(q)'
                          /\ launch[q] = "landed" => launch'[q] = "landed"
        BY DEF Kept
      <4>1. CASE q = r
        BY <3>2, <4>1 DEF Settled, Live
      <4>2. CASE q # r
        BY <1>T, <2>1, <3>1, <4>2 DEF Settled, Live, TypeOK
      <4> QED
        BY <4>1, <4>2
    <3>4. CompletedHasLanded' /\ JoinedAlike'
      BY <1>T, <2>1, <3>1, <3>3
         DEF HonestInv, CompletedHasLanded, JoinedAlike, TypeOK, Kept
    <3>5. \A rec \in Record : record' = rec => HonestRecord(rec)'
      BY <1>H, <3>1 DEF HonestRecord, NewRecord
    <3> QED
      BY <3>1, <3>3, <3>4, <3>5, HonestyStays
  <2>2. CASE GoTo(r, "clear")
    <3>1. /\ pc[r] = "writeProgress" /\ UNCHANGED <<launch, leader>>
          /\ record' \in {record, NewRecord("in_progress", r, None)}
          /\ outcome' = [outcome EXCEPT ![r] = Reply("store_error", None)]
      BY <1>1, <1>T, <2>2
         DEF WriteProgress, WriteFails, GoTo, TypeOK, Steps, Holding
    <3>2. \A rec \in Record : record' = rec => rec = record \/ HonestRecord(rec)'
      BY <3>1 DEF HonestRecord, NewRecord
    <3> QED
      BY <1>E, <2>2, <3>1, <3>2, WriterStep DEF Holding
  <2> QED
    BY <1>1, <2>1, <2>2 DEF WriteProgress, GoTo
<1>D. ASSUME pc[r] \in {"writeDone", "writeDoubt", "writeLateDoubt"},
             NEW step \in {"release", "writeLateDoubt"}, GoTo(r, step),
             UNCHANGED launch
      PROVE  /\ Settled(r)'
             /\ pc[r] = "writeDone" => launch'[r] = "landed"
             /\ \A rec \in Record :
                  \/ rec = NewRecord("in_doubt", r, r)
                  \/ (rec = NewRecord("completed", r, r) /\ pc[r] = "writeDone")
                  => HonestRecord(rec)'
             /\ Reply("in_doubt", r) \in Answer
             /\ HonestAnswer(r, Reply("in_doubt", r))'
  <2>1. Live(r) /\ (pc[r] = "writeDone" => launch[r] = "landed")
    BY <1>D DEF HonestInv, WindowInv, RunningIsLive, CompletedHasLanded
  <2>2. Settled(r)' /\ (pc[r] = "writeDone" => launch'[r] = "landed")
    BY <1>D, <1>T, <2>1 DEF GoTo, Settled, Live, TypeOK
  <2>3. Reply("in_doubt", r) \in Answer /\ HonestAnswer(r, Reply("in_doubt", r))'
    BY <2>2, ReplyType, NoneAssumption DEF MaybeRequest, HonestAnswer, Reply
  <2>4. ASSUME NEW rec \in Record,
               \/ rec = NewRecord("in_doubt", r, r)
               \/ rec = NewRecord("completed", r, r) /\ pc[r] = "writeDone"
        PROVE  HonestRecord(rec)'
    <3>1. /\ rec.launch = r /\ rec.payloadHash = HashOf[r]
          /\ rec.state = "completed" => pc[r] = "writeDone"
      BY <2>4 DEF NewRecord
    <3> QED
      BY <2>2, <3>1, NoneAssumption DEF HonestRecord
  <2> QED
    BY <2>2, <2>3, <2>4
<1>2. CASE WriteDone(r)
  <2>1. /\ pc[r] = "writeDone" /\ UNCHANGED <<launch, leader>>
        /\ record' \in {record, NewRecord("completed", r, r)}
        /\ \/ GoTo(r, "release") /\ UNCHANGED outcome
           \/ /\ GoTo(r, "writeLateDoubt")
              /\ outcome' = [outcome EXCEPT ![r] = Reply("in_doubt", r)]
    BY <1>2 DEF WriteDone, Writes, WriteFails, Leave
  <2>2. /\ HonestAnswer(r, Reply("in_doubt", r))' /\ launch[r] = "landed"
        /\ Reply("in_doubt", r) \in Answer
        /\ \A rec \in Record : record' = rec => rec = record \/ HonestRecord(rec)'
    BY <1>D, <2>1
  <2> QED
    BY <2>1, <2>2, WriterStep DEF Holding
<1>3. CASE WriteDoubt(r)
  <2>1. /\ pc[r] = "writeDoubt" /\ UNCHANGED <<launch, leader>> /\ GoTo(r, "release")
        /\ record' \in {record, NewRecord("in_doubt", r, r)}
        /\ \/ UNCHANGED outcome
           \/ outcome' = [outcome EXCEPT ![r] = Reply("store_error", None)]
    BY <1>3 DEF WriteDoubt, Writes, WriteFails, Leave
  <2>2. \A rec \in Record : record' = rec => rec = record \/ HonestRecord(rec)'
    BY <1>D, <2>1
  <2> QED
    BY <1>E, <2>1, <2>2, WriterStep DEF Holding
<1>4. CASE WriteLateDoubt(r)
  <2>1. /\ pc[r] = "writeLateDoubt" /\ UNCHANGED <<launch, leader, outcome>>
        /\ GoTo(r, "release") /\ record' \in {record, NewRecord("in_doubt", r, r)}
    BY <1>4 DEF WriteLateDoubt, Writes, WriteFails, Leave
  <2>2. \A rec \in Record : record' = rec => rec = record \/ HonestRecord(rec)'
    BY <1>D, <2>1
  <2> QED
    BY <2>1, <2>2, WriterStep DEF Holding
<1>5. CASE Clear(r)
  <2>1. /\ pc[r] = "clear" /\ UNCHANGED <<launch, leader, outcome>>
        /\ GoTo(r, "release") /\ record' \in {record, None}
    BY <1>5 DEF Clear, Writes, WriteFails, Leave
  <2> QED
    BY <2>1, WriterStep, NoneAssumption DEF Holding
<1> QED
  BY <1>1, <1>2, <1>3, <1>4, <1>5

LEMMA ReleaseStepHonest ==
    ASSUME HonestInv, WindowInv', NEW r \in Requests, Release(r)
    PROVE  HonestInv'
<1>T. TypeOK
  BY DEF HonestInv, WindowInv
<1>1. /\ pc[r] = "release" /\ pc' = [pc EXCEPT ![r] = "done"]
      /\ answer' = [answer EXCEPT ![r] = outcome[r]]
      /\ UNCHANGED <<record, outcome, leader, launch>>
  BY DEF Release, Finish
<1>2. Kept
  BY <1>T, <1>1 DEF Kept, Settled, Live, TypeOK
<1>3. \A q \in Requests : \A a \in Answer :
        answer'[q] = a => a = answer[q] \/ HonestAnswer(q, a)'
  <2> SUFFICES ASSUME NEW q \in Requests, NEW a \in Answer, answer'[q] = a, a # answer[q]
               PROVE  HonestAnswer(q, a)'
    OBVIOUS
  <2>1. q = r /\ outcome[r] = a
    BY <1>T, <1>1 DEF TypeOK
  <2>2. HonestAnswer(r, a)
    BY <2>1, NoneAssumption DEF HonestInv, HonestOutcomes
  <2> QED
    BY <1>2, <2>1, <2>2, AnswerStays
<1>4. CompletedHasLanded' /\ JoinedAlike'
  BY <1>T, <1>1 DEF HonestInv, CompletedHasLanded, JoinedAlike, TypeOK
<1> QED
  BY <1>1, <1>2, <1>3, <1>4, HonestyStays

\* The chain, the clocks of Redis, and crashes.
LEMMA EnvironmentStep ==
    ASSUME HonestInv, WindowInv', UNCHANGED <<answer, outcome, leader>>,
           record' \in {record, None},
           \A q \in Requests : /\ pc'[q] \in {pc[q], "lost"}
                               /\ launch'[q] = launch[q]
                                    \/ (launch[q] = "pending" /\ launch'[q] = "landed")
    PROVE  HonestInv'
<1>1. Kept
  BY DEF Kept, Settled, Live
<1>2. CompletedHasLanded' /\ JoinedAlike'
  BY DEF HonestInv, CompletedHasLanded, JoinedAlike
<1> QED
  BY <1>1, <1>2, HonestyStays, NoneAssumption

LEMMA HonestInit == Init => HonestInv
BY WindowInit
   DEF Init, HonestInv, HonestRecords, HonestAnswers, HonestOutcomes,
       CompletedHasLanded, JoinedAlike

LEMMA HonestStep == HonestInv /\ [Next]_vars => HonestInv'
<1> SUFFICES ASSUME HonestInv, [Next]_vars PROVE HonestInv'
  OBVIOUS
<1>W. WindowInv' /\ TypeOK
  BY WindowStep DEF HonestInv, WindowInv
<1>1. ASSUME NEW r \in Requests, Execute(r) PROVE HonestInv'
  BY <1>1, <1>W, LookupAndWaitStep, EndOfActionStep, HolderStepHonest,
     ReleaseStepHonest DEF Execute, ExecuteWithLock
<1>2. ASSUME NEW r \in Requests, Land(r) PROVE HonestInv'
  <2>1. UNCHANGED <<record, pc, answer, outcome, leader>>
    BY <1>2 DEF Land
  <2>2. \A q \in Requests : launch'[q] = launch[q]
                            \/ (launch[q] = "pending" /\ launch'[q] = "landed")
    BY <1>2, <1>W DEF Land, TypeOK
  <2> QED
    BY <1>W, <2>1, <2>2, EnvironmentStep
<1>3. CASE OrphanLapses \/ HeldLapses \/ RecordExpires
  <2>1. UNCHANGED <<pc, answer, outcome, leader, launch>> /\ record' \in {record, None}
    BY <1>3 DEF OrphanLapses, HeldLapses, RecordExpires
  <2> QED
    BY <1>W, <2>1, EnvironmentStep
<1>4. ASSUME NEW p \in Replicas, Crash(p) PROVE HonestInv'
  <2>1. UNCHANGED <<record, answer, outcome, leader, launch>>
    BY <1>4 DEF Crash
  <2>2. \A q \in Requests : pc'[q] \in {pc[q], "lost"}
    BY <1>4 DEF Crash
  <2> QED
    BY <1>W, <2>1, <2>2, EnvironmentStep
<1>5. CASE UNCHANGED vars
  <2>1. UNCHANGED <<record, pc, answer, outcome, leader, launch>>
    BY <1>5 DEF vars
  <2> QED
    BY <1>W, <2>1, EnvironmentStep
<1> QED
  BY <1>1, <1>2, <1>3, <1>4, <1>5 DEF Next

\* No answer of the Redis store names a launch with another payload or one that
\* did not, or could not, land: even when locks lapse, records expire, replicas
\* crash and two launches run at the same time.
THEOREM AnswersAreHonest == Spec => []AnswersNameTheirLaunch
<1>1. HonestInv => AnswersNameTheirLaunch
  BY DEF HonestInv, HonestAnswers, HonestAnswer, Settled, AnswersNameTheirLaunch
<1> QED
  BY <1>1, HonestInit, HonestStep, PTL DEF Spec

-----------------------------------------------------------------------------
(* The contract                                                            *)
(*                                                                         *)
(* Until a window opens the store keeps the contract of IdempotencyStore.   *)
(* What the contract asks of an answer that names no launch, 409 mismatch   *)
(* and 409 in doubt, rests on where records, locks and waiting requests     *)
(* come from.                                                               *)

\* What the client of r has been told: that of a dead replica sees a failure.
Told(r) == IF pc[r] = "lost" THEN Reply("store_error", None) ELSE answer[r]

\* The store has started or answered q before.
Seen(q) == launch[q] # "none" \/ Told(q) # None

\* The store has dealt with q, or will before q leaves the lock.
Known(q) == Seen(q) \/ pc[q] \in Holding

SeenHash(h) == \E q \in Requests : HashOf[q] = h /\ Seen(q)
KnownHash(h) == \E q \in Requests : HashOf[q] = h /\ Known(q)

\* Past the action, or past the write of in_progress that failed.
Late == Holding \ {"writeProgress", "acting"}

\* What r is going to be told is what the contract allows.
OutcomeFits(r) ==
    \/ outcome[r] = Reply("ok", r) /\ launch[r] = "landed"
    \/ outcome[r] = Reply("in_doubt", r) /\ Live(r)
    \/ outcome[r] = Reply("rejected", None) /\ launch[r] = "rejected"
    \/ outcome[r] = Reply("store_error", None)

OutcomesFit == \A r \in Requests : pc[r] \in Late => OutcomeFits(r)

AnsweredWhenDone == \A r \in Requests : answer[r] # None => pc[r] = "done"

InFlightHasLaunch ==
    \A p \in Replicas : inFlight[p] # None => launch[inFlight[p]] # "none"

LockIsAsked ==
    lock # None =>
        \E q \in Requests : HashOf[q] = lock.payloadHash /\ pc[q] # "new"

RecordIsKnown ==
    record # None =>
        /\ KnownHash(record.payloadHash)
        /\ record.state = "in_doubt" => record.launch # None

\* Who waits for the owner of a record waits for a request like itself.
WaitsForKnown ==
    \A r \in Requests : pc[r] \in Polling /\ sawRecord[r] => KnownHash(HashOf[r])

\* Once the lock is gone, so is the owner.
OrphansAreSeen ==
    windows = {} =>
        \A r \in Requests : pc[r] = "afterWait" => SeenHash(HashOf[r])

ContractInv ==
    /\ HonestInv
    /\ OutcomesFit
    /\ AnsweredWhenDone
    /\ InFlightHasLaunch
    /\ LockIsAsked
    /\ RecordIsKnown
    /\ WaitsForKnown
    /\ OrphansAreSeen

-----------------------------------------------------------------------------
(* The contract's words for this store *)

LEMMA ContractWords ==
    ASSUME NEW q \in Requests, NEW r \in Requests
    PROVE  /\ Contract!Seen(q) <=> Seen(q)
           /\ Contract!Live(q) <=> Live(q)
           /\ Contract!Alike(q, r) <=> HashOf[q] = HashOf[r]
<1>1. Contract!Seen(q) <=> Seen(q)
  BY DEF Contract!Seen, Seen, Told
<1>2. Contract!Live(q) <=> Live(q)
  BY DEF Contract!Live, Live
<1>3. Contract!Alike(q, r) <=> HashOf[q] = HashOf[r]
  BY DEF Contract!Alike
<1> QED
  BY <1>1, <1>2, <1>3

LEMMA AnswersAllowed ==
    ASSUME \A q \in Requests :
             Told(q)' # Told(q) =>
               Told(q) = None /\ pc'[q] # "new" /\ Contract!Allowed(q, Told(q)')
    PROVE  Contract!Answers
BY DEF Contract!Answers, Told

LEMMA CallsArrive ==
    ASSUME \A q \in Requests : pc[q] # "new" => pc'[q] # "new"
    PROVE  Contract!Arrive
BY DEF Contract!Arrive

\* A step that starts and rejects nothing.
LEMMA Responds ==
    ASSUME UNCHANGED launch,
           \A q \in Requests : pc[q] # "new" => pc'[q] # "new",
           \A q \in Requests :
             Told(q)' # Told(q) =>
               Told(q) = None /\ pc'[q] # "new" /\ Contract!Allowed(q, Told(q)')
    PROVE  Contract!Next
BY AnswersAllowed, CallsArrive DEF Contract!Next, Contract!Respond

\* The answers that the contract allows, one by one.
LEMMA MayMismatch ==
    ASSUME NEW q \in Requests, NEW r \in Requests, pc[q] # "new",
           HashOf[q] # HashOf[r]
    PROVE  Contract!Allowed(r, Reply("mismatch", None))
BY DEF Contract!Allowed, Reply

LEMMA MayFail ==
    ASSUME NEW r \in Requests
    PROVE  Contract!Allowed(r, Reply("store_error", None))
BY DEF Contract!Allowed, Reply

LEMMA MayReplay ==
    ASSUME NEW l \in Requests, NEW r \in Requests, l # r, HashOf[l] = HashOf[r],
           launch'[l] = "landed"
    PROVE  Contract!Allowed(r, Reply("replayed", l))
BY ContractWords DEF Contract!Allowed, Reply

LEMMA MaySucceed ==
    ASSUME NEW r \in Requests, launch'[r] = "landed"
    PROVE  Contract!Allowed(r, Reply("ok", r))
BY DEF Contract!Allowed, Reply

LEMMA MayDoubt ==
    ASSUME NEW l \in Requests, NEW r \in Requests, HashOf[l] = HashOf[r], Live(l)'
    PROVE  Contract!Allowed(r, Reply("in_doubt", l))
BY ContractWords DEF Contract!Allowed, Contract!Live, Live, Reply

LEMMA MayDoubtSeen ==
    ASSUME NEW r \in Requests, SeenHash(HashOf[r])
    PROVE  Contract!Allowed(r, Reply("in_doubt", None))
BY ContractWords DEF Contract!Allowed, Reply, SeenHash

LEMMA MayReject ==
    ASSUME NEW l \in Requests, NEW r \in Requests, HashOf[l] = HashOf[r],
           launch'[l] = "rejected"
    PROVE  Contract!Allowed(r, Reply("rejected", None))
BY ContractWords DEF Contract!Allowed, Reply

LEMMA KnownIsAsked ==
    ASSUME ContractInv, NEW q \in Requests, Known(q)
    PROVE  pc[q] # "new"
BY NoneAssumption
   DEF Known, Seen, Told, ContractInv, AnsweredWhenDone, HonestInv, WindowInv,
       UnstartedHasNoLaunch, Unstarted, Steps, Holding

\* The invariant after a step, from what the step has written.
LEMMA ContractInvStays ==
    ASSUME ContractInv, HonestInv', windows' = {} => windows = {},
           \A q \in Requests :
             /\ pc[q] # "new" => pc'[q] # "new"
             /\ Seen(q) => Seen(q)'
             /\ Known(q) => Known(q)'
             /\ launch[q] # "none" => launch'[q] # "none"
             /\ answer'[q] # None => pc'[q] = "done"
             /\ pc'[q] \in Late => OutcomeFits(q)'
             /\ pc'[q] \in Polling /\ sawRecord'[q] =>
                  (pc[q] \in Polling /\ sawRecord[q]) \/ KnownHash(HashOf[q])
             /\ pc'[q] = "afterWait" /\ windows = {} =>
                  pc[q] = "afterWait" \/ SeenHash(HashOf[q]),
           \A p \in Replicas : \A q \in Requests :
             inFlight'[p] = q => q = inFlight[p] \/ launch'[q] # "none",
           \A l \in Lock : lock' = l =>
             \/ l = lock
             \/ \E q \in Requests : HashOf[q] = l.payloadHash /\ pc'[q] # "new",
           \A rec \in Record : record' = rec =>
             \/ rec = record
             \/ /\ \E q \in Requests : HashOf[q] = rec.payloadHash /\ Known(q)'
                /\ rec.state = "in_doubt" => rec.launch # None
    PROVE  ContractInv'
<1>T. TypeOK /\ TypeOK'
  BY DEF ContractInv, HonestInv, WindowInv
<1>K. \A h : KnownHash(h) => KnownHash(h)'
  BY DEF KnownHash
<1>S. \A h : SeenHash(h) => SeenHash(h)'
  BY DEF SeenHash
<1>1. OutcomesFit' /\ AnsweredWhenDone'
  BY DEF OutcomesFit, AnsweredWhenDone
<1>2. InFlightHasLaunch'
  <2> SUFFICES ASSUME NEW p \in Replicas, inFlight'[p] # None
               PROVE  launch'[inFlight'[p]] # "none"
    BY DEF InFlightHasLaunch
  <2>1. PICK q \in Requests : inFlight'[p] = q
    BY <1>T DEF TypeOK, MaybeRequest
  <2> QED
    BY <2>1, NoneAssumption DEF ContractInv, InFlightHasLaunch
<1>3. LockIsAsked'
  <2> SUFFICES ASSUME lock' # None
               PROVE  \E q \in Requests : HashOf[q] = lock'.payloadHash /\ pc'[q] # "new"
    BY DEF LockIsAsked
  <2>1. PICK l \in Lock : lock' = l
    BY <1>T DEF TypeOK
  <2>2. l = lock => \E q \in Requests : HashOf[q] = l.payloadHash /\ pc[q] # "new"
    BY NoneAssumption DEF ContractInv, LockIsAsked
  <2> QED
    BY <2>1, <2>2
<1>4. RecordIsKnown'
  <2> SUFFICES ASSUME record' # None
               PROVE  /\ KnownHash(record.payloadHash)'
                      /\ record'.state = "in_doubt" => record'.launch # None
    BY DEF RecordIsKnown
  <2>1. PICK rec \in Record : record' = rec
    BY <1>T DEF TypeOK
  <2>2. CASE rec = record
    <3>1. KnownHash(rec.payloadHash) /\ (rec.state = "in_doubt" => rec.launch # None)
      BY <2>2, NoneAssumption DEF ContractInv, RecordIsKnown
    <3>2. KnownHash(rec.payloadHash)'
      BY <3>1 DEF KnownHash
    <3> QED
      BY <2>1, <3>1, <3>2 DEF KnownHash
  <2>3. CASE rec # record
    BY <2>1, <2>3 DEF KnownHash
  <2> QED
    BY <2>2, <2>3
<1>5. WaitsForKnown'
  <2> SUFFICES ASSUME NEW q \in Requests, pc'[q] \in Polling, sawRecord'[q]
               PROVE  KnownHash(HashOf[q])'
    BY DEF WaitsForKnown
  <2>1. KnownHash(HashOf[q])
    BY DEF ContractInv, WaitsForKnown
  <2> QED
    BY <2>1 DEF KnownHash
<1>6. OrphansAreSeen'
  <2> SUFFICES ASSUME windows' = {}, NEW q \in Requests, pc'[q] = "afterWait"
               PROVE  SeenHash(HashOf[q])'
    BY DEF OrphansAreSeen
  <2>1. SeenHash(HashOf[q])
    BY DEF ContractInv, OrphansAreSeen
  <2> QED
    BY <2>1 DEF SeenHash
<1> QED
  BY <1>1, <1>2, <1>3, <1>4, <1>5, <1>6 DEF ContractInv

-----------------------------------------------------------------------------
(* Requests outside the lock *)

\* r is answered, or goes on, and nothing else happens.
LEMMA OutsideKeeps ==
    ASSUME ContractInv, HonestInv', NEW r \in Requests, pc[r] \in Unstarted,
           UNCHANGED <<record, inFlight, outcome, launch>>,
           windows' = {} => windows = {},
           lock' = lock \/ (lock' # None /\ lock'.payloadHash = HashOf[r]),
           \A q \in Requests \ {r} : sawRecord'[q] = sawRecord[q],
           \/ \E a \in Answer :
                Finish(r, a) /\ (windows' = {} => Contract!Allowed(r, a))
           \/ \E step \in (Unstarted \ {"new"}) \cup {"writeProgress"} :
                /\ GoTo(r, step)
                /\ step \in Polling /\ sawRecord'[r] =>
                     (pc[r] \in Polling /\ sawRecord[r]) \/ KnownHash(HashOf[r])
                /\ step = "afterWait" /\ windows = {} => SeenHash(HashOf[r])
    PROVE  ContractInv' /\ (windows' = {} => Contract!Next)
<1>T. TypeOK /\ TypeOK'
  BY DEF ContractInv, HonestInv, WindowInv
<1>1. answer[r] = None /\ launch[r] = "none" /\ pc[r] \notin Holding \cup {"done", "lost"}
  BY DEF ContractInv, AnsweredWhenDone, HonestInv, WindowInv,
         UnstartedHasNoLaunch, Unstarted
<1>2. \A q \in Requests \ {r} : pc'[q] = pc[q] /\ answer'[q] = answer[q]
  BY <1>T DEF Finish, GoTo, TypeOK
<1>3. /\ pc'[r] \notin Late \cup {"new", "lost"}
      /\ answer'[r] # None => pc'[r] = "done"
      /\ pc'[r] \in Polling /\ sawRecord'[r] =>
           (pc[r] \in Polling /\ sawRecord[r]) \/ KnownHash(HashOf[r])
      /\ pc'[r] = "afterWait" /\ windows = {} => SeenHash(HashOf[r])
  <2>1. CASE \E a \in Answer : Finish(r, a)
    BY <1>T, <2>1 DEF Finish, TypeOK, Late, Holding, Polling
  <2>2. CASE \E step \in (Unstarted \ {"new"}) \cup {"writeProgress"} :
                /\ GoTo(r, step)
                /\ step \in Polling /\ sawRecord'[r] =>
                     (pc[r] \in Polling /\ sawRecord[r]) \/ KnownHash(HashOf[r])
                /\ step = "afterWait" /\ windows = {} => SeenHash(HashOf[r])
    <3>1. PICK step \in (Unstarted \ {"new"}) \cup {"writeProgress"} :
                /\ GoTo(r, step)
                /\ step \in Polling /\ sawRecord'[r] =>
                     (pc[r] \in Polling /\ sawRecord[r]) \/ KnownHash(HashOf[r])
                /\ step = "afterWait" /\ windows = {} => SeenHash(HashOf[r])
      BY <2>2
    <3>2. pc'[r] = step /\ answer'[r] = None
      BY <1>T, <1>1, <3>1 DEF GoTo, TypeOK
    <3> QED
      BY <3>1, <3>2 DEF Unstarted, Late, Holding
  <2> QED
    BY <2>1, <2>2
<1>4. \A q \in Requests :
        /\ pc[q] # "new" => pc'[q] # "new"
        /\ Seen(q) => Seen(q)'
        /\ Known(q) => Known(q)'
  BY <1>1, <1>2, <1>3 DEF Seen, Told, Known
<1>5. \A q \in Requests :
        /\ answer'[q] # None => pc'[q] = "done"
        /\ pc'[q] \in Late => OutcomeFits(q)'
        /\ pc'[q] \in Polling /\ sawRecord'[q] =>
             (pc[q] \in Polling /\ sawRecord[q]) \/ KnownHash(HashOf[q])
        /\ pc'[q] = "afterWait" /\ windows = {} =>
             pc[q] = "afterWait" \/ SeenHash(HashOf[q])
  BY <1>2, <1>3
     DEF ContractInv, AnsweredWhenDone, OutcomesFit, OutcomeFits, Live
<1>6. \A l \in Lock : lock' = l =>
        \/ l = lock
        \/ \E q \in Requests : HashOf[q] = l.payloadHash /\ pc'[q] # "new"
  BY <1>3
<1>7. ContractInv'
  BY <1>4, <1>5, <1>6, ContractInvStays
<1>8. ASSUME windows' = {} PROVE Contract!Next
  <2>1. Told(r)' # Told(r) =>
          Told(r) = None /\ pc'[r] # "new" /\ Contract!Allowed(r, Told(r)')
    BY <1>T, <1>1, <1>3, <1>8 DEF Told, Finish, GoTo, TypeOK
  <2>2. \A q \in Requests \ {r} : Told(q)' = Told(q)
    BY <1>2 DEF Told
  <2> QED
    BY <1>4, <2>1, <2>2, Responds
<1> QED
  BY <1>7, <1>8

\* What a request finds stored is what it may be told.
LEMMA StoredIsAllowed ==
    ASSUME ContractInv, NEW r \in Requests, pc[r] \in Unstarted, record # None,
           UNCHANGED launch,
           NEW a \in Answer, StoredAnswer(record, HashOf[r]) = a
    PROVE  Contract!Allowed(r, a)
<1>1. PICK rec \in Record : record = rec
  BY DEF ContractInv, HonestInv, WindowInv, TypeOK
<1>2. PICK q \in Requests : HashOf[q] = rec.payloadHash /\ Known(q)
  BY <1>1 DEF ContractInv, RecordIsKnown, KnownHash
<1>3. HonestRecord(rec) /\ (rec.state = "in_doubt" => rec.launch # None)
  BY <1>1 DEF ContractInv, RecordIsKnown, HonestInv, HonestRecords
<1>4. launch[r] = "none" /\ rec.launch \in Requests \cup {None}
  BY DEF ContractInv, HonestInv, WindowInv, UnstartedHasNoLaunch, Record, MaybeRequest
<1>5. CASE rec.payloadHash # HashOf[r]
  <2>1. a = Reply("mismatch", None)
    BY <1>1, <1>5 DEF StoredAnswer
  <2> QED
    BY <1>2, <1>5, <2>1, KnownIsAsked, MayMismatch
<1>6. CASE rec.payloadHash = HashOf[r] /\ rec.state = "completed"
  <2>1. a = Reply("replayed", rec.launch)
    BY <1>1, <1>6 DEF StoredAnswer
  <2> QED
    BY <1>3, <1>4, <1>6, <2>1, MayReplay DEF HonestRecord
<1>7. CASE rec.payloadHash = HashOf[r] /\ rec.state = "in_doubt"
  <2>1. a = Reply("in_doubt", rec.launch)
    BY <1>1, <1>7 DEF StoredAnswer
  <2> QED
    BY <1>3, <1>4, <1>7, <2>1, MayDoubt DEF HonestRecord, Settled, Live
<1>8. ~(rec.payloadHash = HashOf[r] /\ rec.state \notin {"completed", "in_doubt"})
  BY <1>1, NoneAssumption DEF StoredAnswer
<1> QED
  BY <1>5, <1>6, <1>7, <1>8

\* So is what the promise of the request in flight has settled to.
LEMMA PromiseIsAllowed ==
    ASSUME ContractInv, windows = {}, NEW r \in Requests, pc[r] \in Unstarted,
           NEW p \in Replicas, NEW l \in Requests, inFlight[p] = l,
           HashOf[l] = HashOf[r], UNCHANGED launch,
           NEW a \in Answer, PromiseAnswer(l) = a
    PROVE  Contract!Allowed(r, a)
<1>0. launch[l] # "none" /\ launch[r] = "none" /\ l # r
  BY NoneAssumption
     DEF ContractInv, InFlightHasLaunch, HonestInv, WindowInv, UnstartedHasNoLaunch
<1>1. CASE pc[l] \in {"writeDone", "writeLateDoubt"}
  <2>1. a = Reply("replayed", l) /\ launch[l] = "landed"
    BY <1>1 DEF PromiseAnswer, ContractInv, HonestInv, CompletedHasLanded
  <2> QED
    BY <1>0, <2>1, MayReplay
<1>2. CASE pc[l] = "writeDoubt"
  <2>1. a = Reply("in_doubt", l) /\ Live(l)
    BY <1>2 DEF PromiseAnswer, ContractInv, HonestInv, WindowInv, RunningIsLive
  <2> QED
    BY <2>1, MayDoubt DEF Live
<1>3. CASE pc[l] = "clear"
  <2>1. a = Reply("rejected", None) /\ ~Live(l)
    BY <1>3 DEF PromiseAnswer, ContractInv, HonestInv, WindowInv, Closed, ClearsNothingLive
  <2>2. launch[l] = "rejected"
    BY <1>0, <2>1 DEF Live, ContractInv, HonestInv, WindowInv, TypeOK
  <2> QED
    BY <2>1, <2>2, MayReject
<1>4. CASE pc[l] \notin {"writeDone", "writeLateDoubt", "writeDoubt", "clear"}
  BY <1>4, NoneAssumption DEF PromiseAnswer
<1> QED
  BY <1>1, <1>2, <1>3, <1>4

LEMMA LookupAndWaitContract ==
    ASSUME ContractInv, HonestInv', NEW r \in Requests, Lookup(r) \/ Wait(r)
    PROVE  ContractInv' /\ (windows' = {} => Contract!Next)
<1>T. TypeOK
  BY DEF ContractInv, HonestInv, WindowInv
<1>U. {"new", "read", "afterWait", "acquire", "joined"} \cup Polling \subseteq Unstarted
  BY DEF Unstarted, Steps, Holding, Polling
<1>E. \A kind \in {"mismatch", "in_doubt", "store_error"} : Reply(kind, None) \in Answer
  BY ReplyType DEF MaybeRequest
<1>1. ASSUME NEW step \in {"new", "read", "pollRecord", "pollLock", "afterWait"},
             ReadFails(r, step)
      PROVE  ContractInv' /\ (windows' = {} => Contract!Next)
  <2>1. /\ pc[r] \in Unstarted /\ Finish(r, Reply("store_error", None))
        /\ UNCHANGED <<record, lock, inFlight, sawRecord, outcome, launch, windows>>
    BY <1>1, <1>U DEF ReadFails, Polling
  <2> QED
    BY <1>E, <2>1, MayFail, OutsideKeeps
<1>S. record # None /\ StoredAnswer(record, HashOf[r]) # None =>
        StoredAnswer(record, HashOf[r]) \in Answer
  BY <1>T, StoredAnswerType DEF TypeOK
<1>2. CASE Read(r)
  <2>1. /\ pc[r] \in Unstarted
        /\ UNCHANGED <<record, lock, inFlight, outcome, launch, windows>>
    BY <1>2, <1>U DEF Read
  <2>2. CASE record # None /\ StoredAnswer(record, HashOf[r]) # None
    <3>1. Finish(r, StoredAnswer(record, HashOf[r])) /\ UNCHANGED sawRecord
      BY <1>2, <2>2 DEF Read
    <3> QED
      BY <1>S, <2>1, <2>2, <3>1, StoredIsAllowed, OutsideKeeps
  <2>3. CASE record # None /\ StoredAnswer(record, HashOf[r]) = None
    <3>1. GoTo(r, "pollRecord") /\ sawRecord' = [sawRecord EXCEPT ![r] = TRUE]
      BY <1>2, <2>3 DEF Read
    <3>2. KnownHash(HashOf[r])
      <4>1. record.payloadHash = HashOf[r]
        BY <2>3, ReplyType DEF StoredAnswer, MaybeRequest
      <4> QED
        BY <2>3, <4>1 DEF ContractInv, RecordIsKnown
    <3>3. \A q \in Requests \ {r} : sawRecord'[q] = sawRecord[q]
      BY <1>T, <3>1 DEF TypeOK
    <3>4. "pollRecord" \in Unstarted \ {"new"} /\ "pollRecord" # "afterWait"
      BY <1>U DEF Polling
    <3> QED
      BY <2>1, <3>1, <3>2, <3>3, <3>4, OutsideKeeps
  <2>4. CASE record = None /\ inFlight[ReplicaOf[r]] # None
    <3>1. PICK l \in Requests : l = inFlight[ReplicaOf[r]]
      BY <1>T, <2>4, RequestsAssumption DEF TypeOK, MaybeRequest
    <3>0. ReplicaOf[r] \in Replicas
      BY RequestsAssumption
    <3>2. CASE HashOf[l] # HashOf[r]
      <4>1. Finish(r, Reply("mismatch", None)) /\ UNCHANGED sawRecord
        BY <1>2, <2>4, <3>1, <3>2 DEF Read
      <4>2. pc[l] # "new"
        BY <3>0, <3>1, NoneAssumption, KnownIsAsked
           DEF ContractInv, InFlightHasLaunch, Known, Seen
      <4> QED
        BY <1>E, <2>1, <3>2, <4>1, <4>2, MayMismatch, OutsideKeeps
    <3>3. CASE HashOf[l] = HashOf[r] /\ PromiseAnswer(l) = None
      <4>1. GoTo(r, "joined") /\ UNCHANGED sawRecord
        BY <1>2, <2>4, <3>1, <3>3 DEF Read
      <4> QED
        BY <1>U, <2>1, <4>1, OutsideKeeps DEF Polling
    <3>4. CASE HashOf[l] = HashOf[r] /\ PromiseAnswer(l) # None
      <4>1. Finish(r, PromiseAnswer(l)) /\ UNCHANGED sawRecord
        BY <1>2, <2>4, <3>1, <3>4 DEF Read
      <4>2. PromiseAnswer(l) \in Answer
        BY <3>4, PromiseAnswerType
      <4> QED
        BY <2>1, <3>0, <3>1, <3>4, <4>1, <4>2, PromiseIsAllowed, OutsideKeeps
    <3> QED
      BY <3>2, <3>3, <3>4
  <2>5. CASE record = None /\ inFlight[ReplicaOf[r]] = None
    <3>1. GoTo(r, "acquire") /\ UNCHANGED sawRecord
      BY <1>2, <2>5 DEF Read
    <3> QED
      BY <1>U, <2>1, <3>1, OutsideKeeps DEF Polling
  <2> QED
    BY <2>2, <2>3, <2>4, <2>5
<1>3. CASE Acquire(r)
  <2>1. /\ pc[r] \in Unstarted /\ GoTo(r, "writeProgress")
        /\ UNCHANGED <<record, inFlight, sawRecord, outcome, launch>>
        /\ lock' = [payloadHash |-> HashOf[r], holder |-> r]
        /\ windows' = {} => windows = {}
    BY <1>3, <1>U DEF Acquire
  <2>2. lock' # None /\ lock'.payloadHash = HashOf[r]
    BY <2>1, NoneAssumption DEF Lock, Hashes, MaybeRequest
  <2> QED
    BY <2>1, <2>2, OutsideKeeps DEF Polling
<1>P. ASSUME sawRecord' = [sawRecord EXCEPT ![r] = FALSE]
      PROVE  ~sawRecord'[r] /\ \A q \in Requests \ {r} : sawRecord'[q] = sawRecord[q]
  BY <1>T, <1>P DEF TypeOK
<1>4. CASE AcquireBusy(r)
  <2>1. /\ pc[r] \in Unstarted /\ GoTo(r, "pollRecord")
        /\ UNCHANGED <<record, lock, inFlight, outcome, launch, windows>>
        /\ ~sawRecord'[r] /\ \A q \in Requests \ {r} : sawRecord'[q] = sawRecord[q]
    BY <1>4, <1>P, <1>U DEF AcquireBusy
  <2> QED
    BY <1>U, <2>1, OutsideKeeps DEF Polling
<1>5. CASE AcquireFails(r)
  <2>1. /\ pc[r] \in Unstarted
        /\ UNCHANGED <<record, inFlight, outcome, launch, windows>>
        /\ lock' \in {lock, [payloadHash |-> HashOf[r], holder |-> None]}
        /\ \/ Finish(r, Reply("store_error", None)) /\ UNCHANGED sawRecord
           \/ GoTo(r, "pollRecord") /\ sawRecord' = [sawRecord EXCEPT ![r] = FALSE]
    BY <1>5, <1>U DEF AcquireFails
  <2>2. lock' = lock \/ (lock' # None /\ lock'.payloadHash = HashOf[r])
    BY <2>1, NoneAssumption DEF Lock, Hashes, MaybeRequest
  <2>3. CASE Finish(r, Reply("store_error", None)) /\ UNCHANGED sawRecord
    BY <1>E, <2>1, <2>2, <2>3, MayFail, OutsideKeeps
  <2>4. CASE GoTo(r, "pollRecord") /\ sawRecord' = [sawRecord EXCEPT ![r] = FALSE]
    <3>1. /\ ~sawRecord'[r] /\ \A q \in Requests \ {r} : sawRecord'[q] = sawRecord[q]
          /\ "pollRecord" \in Unstarted \ {"new"} /\ "pollRecord" # "afterWait"
      BY <1>P, <1>U, <2>4 DEF Polling
    <3> QED
      BY <2>1, <2>2, <2>4, <3>1, OutsideKeeps
  <2> QED
    BY <2>1, <2>3, <2>4
<1>6. CASE PollRecord(r)
  <2>1. /\ pc[r] \in Polling
        /\ UNCHANGED <<record, lock, inFlight, sawRecord, outcome, launch, windows>>
    BY <1>6 DEF PollRecord, Polling
  <2>2. CASE /\ record # None /\ StoredAnswer(record, HashOf[r]) # None
             /\ Finish(r, StoredAnswer(record, HashOf[r]))
    BY <1>S, <1>U, <2>1, <2>2, StoredIsAllowed, OutsideKeeps
  <2>3. CASE GoTo(r, "pollLock")
    <3>1. WaitsForKnown
      BY DEF ContractInv
    <3> QED
      BY <1>U, <2>1, <2>3, <3>1, OutsideKeeps DEF Polling
  <2> QED
    BY <1>6, <2>2, <2>3 DEF PollRecord
<1>7. CASE PollLock(r)
  <2>1. /\ pc[r] \in Polling
        /\ UNCHANGED <<record, lock, inFlight, sawRecord, outcome, launch, windows>>
    BY <1>7 DEF PollLock, Polling
  <2>2. CASE lock = None
    <3>1. GoTo(r, IF sawRecord[r] THEN "afterWait" ELSE "read")
      BY <1>7, <2>2 DEF PollLock
    <3>2. windows = {} /\ sawRecord[r] => SeenHash(HashOf[r])
      <4>1. windows = {} => \A q \in Requests : pc[q] \notin Holding
        BY <2>2 DEF ContractInv, HonestInv, WindowInv, Closed, HolderOwnsLock, Holds
      <4> QED
        BY <2>1, <4>1 DEF ContractInv, WaitsForKnown, KnownHash, Known, SeenHash
    <3>3. CASE sawRecord[r]
      BY <1>U, <2>1, <3>1, <3>2, <3>3, OutsideKeeps DEF Polling
    <3>4. CASE ~sawRecord[r]
      BY <1>U, <2>1, <3>1, <3>4, OutsideKeeps DEF Polling
    <3> QED
      BY <3>3, <3>4
  <2>3. CASE lock # None /\ lock.payloadHash = HashOf[r]
    <3>1. GoTo(r, "pollRecord")
      BY <1>7, <2>3 DEF PollLock
    <3> QED
      BY <1>U, <2>1, <3>1, OutsideKeeps DEF Polling
  <2>4. CASE lock # None /\ lock.payloadHash # HashOf[r]
    <3>1. Finish(r, Reply("mismatch", None))
      BY <1>7, <2>4 DEF PollLock
    <3>2. PICK q \in Requests : HashOf[q] = lock.payloadHash /\ pc[q] # "new"
      BY <2>4 DEF ContractInv, LockIsAsked
    <3> QED
      BY <1>E, <1>U, <2>1, <2>4, <3>1, <3>2, MayMismatch, OutsideKeeps
  <2> QED
    BY <2>2, <2>3, <2>4
<1>8. CASE AfterWait(r)
  <2>1. /\ pc[r] = "afterWait" /\ pc[r] \in Unstarted
        /\ UNCHANGED <<record, lock, inFlight, sawRecord, outcome, launch, windows>>
        /\ Finish(r, Reply("in_doubt", None)) \/ GoTo(r, "read")
    BY <1>8, <1>U DEF AfterWait
  <2>2. windows = {} => SeenHash(HashOf[r])
    BY <2>1 DEF ContractInv, OrphansAreSeen
  <2> QED
    BY <1>E, <1>U, <2>1, <2>2, MayDoubtSeen, OutsideKeeps DEF Polling
<1> QED
  BY <1>1, <1>2, <1>3, <1>4, <1>5, <1>6, <1>7, <1>8 DEF Lookup, Wait

-----------------------------------------------------------------------------
(* The holder of the lock *)

\* The holder r goes on after a write, told no sooner than it leaves.
LEMMA HolderKeeps ==
    ASSUME ContractInv, HonestInv', NEW r \in Requests, pc[r] \in Holding,
           NEW step \in Late, GoTo(r, step),
           UNCHANGED <<lock, sawRecord, launch, windows>>,
           \A p \in Replicas : inFlight'[p] \in {inFlight[p], None},
           \A rec \in Record : record' = rec =>
             \/ rec = record
             \/ /\ rec.payloadHash = HashOf[r]
                /\ rec.state = "in_doubt" => rec.launch # None,
           \A q \in Requests \ {r} : outcome'[q] = outcome[q],
           OutcomeFits(r)'
    PROVE  ContractInv' /\ Contract!Next
<1>T. TypeOK /\ TypeOK'
  BY DEF ContractInv, HonestInv, WindowInv
<1>1. /\ UNCHANGED answer /\ pc'[r] \in Late
      /\ \A q \in Requests \ {r} : pc'[q] = pc[q]
  BY <1>T DEF GoTo, TypeOK, Late, Steps
<1>2. \A q \in Requests :
        /\ pc[q] # "new" => pc'[q] # "new"
        /\ Told(q)' = Told(q)
        /\ Known(q) => Known(q)'
  BY <1>1 DEF Told, Seen, Known, Late, Holding
<1>3. \A q \in Requests :
        /\ Seen(q) => Seen(q)'
        /\ answer'[q] # None => pc'[q] = "done"
        /\ pc'[q] \in Polling => pc[q] \in Polling
        /\ pc'[q] = "afterWait" => pc[q] = "afterWait"
  BY <1>1, <1>2
     DEF Seen, ContractInv, AnsweredWhenDone, Late, Holding, Polling
<1>4. \A q \in Requests : pc'[q] \in Late => OutcomeFits(q)'
  BY <1>1 DEF ContractInv, OutcomesFit, OutcomeFits, Live
<1>5. Known(r)'
  BY <1>1 DEF Known, Late
<1>6. \A p \in Replicas : \A q \in Requests : inFlight'[p] = q => q = inFlight[p]
  BY NoneAssumption
<1>7. ContractInv'
  BY <1>2, <1>3, <1>4, <1>5, <1>6, ContractInvStays
<1> QED
  BY <1>2, <1>7, Responds

\* The action of r starts: nothing live is left.
LEMMA StartContract ==
    ASSUME ContractInv, HonestInv', NEW r \in Requests, pc[r] = "writeProgress",
           pc' = [pc EXCEPT ![r] = "acting"],
           launch' = [launch EXCEPT ![r] = "pending"],
           inFlight' = [inFlight EXCEPT ![ReplicaOf[r]] = r],
           record' = NewRecord("in_progress", r, None),
           UNCHANGED <<lock, sawRecord, outcome, answer, windows>>
    PROVE  ContractInv' /\ (windows' = {} => Contract!Next)
<1>T. TypeOK /\ TypeOK'
  BY DEF ContractInv, HonestInv, WindowInv
<1>1. launch[r] = "none" /\ answer[r] = None
  BY DEF ContractInv, AnsweredWhenDone, HonestInv, WindowInv, UnstartedHasNoLaunch
<1>2. /\ pc'[r] = "acting" /\ launch'[r] = "pending"
      /\ \A q \in Requests \ {r} : pc'[q] = pc[q] /\ launch'[q] = launch[q]
  BY <1>T DEF TypeOK
<1>3. \A q \in Requests :
        /\ pc[q] # "new" => pc'[q] # "new"
        /\ Told(q)' = Told(q)
        /\ Seen(q) => Seen(q)'
        /\ Known(q) => Known(q)'
  BY <1>1, <1>2 DEF Told, Seen, Known
<1>4. \A q \in Requests :
        /\ launch[q] # "none" => launch'[q] # "none"
        /\ answer'[q] # None => pc'[q] = "done"
        /\ pc'[q] \in Polling => pc[q] \in Polling
        /\ pc'[q] = "afterWait" => pc[q] = "afterWait"
  BY <1>1, <1>2 DEF ContractInv, AnsweredWhenDone, Polling
<1>5. \A q \in Requests : pc'[q] \in Late => OutcomeFits(q)'
  BY <1>2 DEF ContractInv, OutcomesFit, OutcomeFits, Live, Late
<1>6. \A p \in Replicas : \A q \in Requests :
        inFlight'[p] = q => q = inFlight[p] \/ launch'[q] # "none"
  BY <1>T, <1>2, RequestsAssumption DEF TypeOK
<1>7. \A rec \in Record : record' = rec =>
        /\ HashOf[r] = rec.payloadHash /\ Known(r)'
        /\ rec.state = "in_doubt" => rec.launch # None
  BY <1>2 DEF NewRecord, Known, Seen
<1>8. ContractInv'
  BY <1>3, <1>4, <1>5, <1>6, <1>7, ContractInvStays
<1>9. ASSUME windows' = {} PROVE Contract!Admit(r)
  <2>1. \A q \in Requests : ~Contract!Live(q)
    BY <1>9, ContractWords
       DEF ContractInv, HonestInv, WindowInv, Closed, StartsFromNothing, Remembered
  <2>2. ~Contract!Seen(r)
    BY <1>1, ContractWords DEF Seen, Told
  <2>3. /\ Contract!Arrive
        /\ r \in {q \in Requests : pc'[q] # "new"}
    BY <1>2, <1>3, CallsArrive
  <2>4. [q \in Requests |-> IF pc'[q] = "lost" THEN Reply("store_error", None)
                            ELSE answer'[q]]
          = [q \in Requests |-> IF pc[q] = "lost" THEN Reply("store_error", None)
                                ELSE answer[q]]
    BY <1>3 DEF Told
  <2> QED
    BY <2>1, <2>2, <2>3, <2>4 DEF Contract!Admit
<1> QED
  BY <1>8, <1>9 DEF Contract!Next

\* The promise of r's action settles.
LEMMA SettleKeeps ==
    ASSUME ContractInv, HonestInv', NEW r \in Requests, NEW step \in Late,
           NEW own, NEW joined \in Answer, Settle(r, step, own, joined),
           \A q \in Requests \ {r} : launch'[q] = launch[q], launch'[r] # "none",
           OutcomeFits(r)',
           \A q \in Requests \ {r} :
             HashOf[q] = HashOf[r] => Contract!Allowed(q, joined)
    PROVE  /\ ContractInv'
           /\ \A q \in Requests :
                /\ pc[q] # "new" => pc'[q] # "new"
                /\ Told(q)' # Told(q) =>
                     Told(q) = None /\ pc'[q] # "new" /\ Contract!Allowed(q, Told(q)')
<1>T. TypeOK /\ TypeOK'
  BY DEF ContractInv, HonestInv, WindowInv
<1>1. /\ pc[r] = "acting" /\ pc'[r] = step /\ answer'[r] = answer[r]
      /\ UNCHANGED <<record, lock, inFlight, sawRecord, windows>>
      /\ \A q \in Requests \ {r} :
           /\ outcome'[q] = outcome[q]
           /\ IF q \in Joined(r) THEN pc'[q] = "done" /\ answer'[q] = joined
              ELSE pc'[q] = pc[q] /\ answer'[q] = answer[q]
  BY <1>T DEF Settle, Joined, TypeOK
<1>2. \A q \in Joined(r) :
        q \in Requests /\ q # r /\ pc[q] = "joined" /\ HashOf[q] = HashOf[r]
  BY <1>1 DEF Joined, ContractInv, HonestInv, JoinedAlike
<1>3. joined # None
  BY NoneAssumption
<1>4. step \in Holding /\ step \notin {"new", "done", "lost", "afterWait"} \cup Polling
  BY DEF Late, Holding, Polling
<1>5. \A q \in Requests :
        /\ pc[q] # "new" => pc'[q] # "new"
        /\ answer'[q] # None => pc'[q] = "done"
        /\ pc'[q] \in Polling => pc[q] \in Polling
        /\ pc'[q] = "afterWait" => pc[q] = "afterWait"
        /\ launch[q] # "none" => launch'[q] # "none"
  BY <1>1, <1>2, <1>4 DEF ContractInv, AnsweredWhenDone, Polling
<1>6. \A q \in Requests :
        /\ q \in Joined(r) => Told(q) = None /\ Told(q)' = joined /\ pc'[q] = "done"
        /\ q \notin Joined(r) => Told(q)' = Told(q)
  BY <1>1, <1>2, <1>4 DEF Told, ContractInv, AnsweredWhenDone
<1>7. \A q \in Requests :
        /\ Seen(q) => Seen(q)'
        /\ Known(q) => Known(q)'
  BY <1>1, <1>2, <1>3, <1>4, <1>6 DEF Seen, Known, Holding
<1>8. \A q \in Requests : pc'[q] \in Late => OutcomeFits(q)'
  BY <1>1 DEF ContractInv, OutcomesFit, OutcomeFits, Live, Late, Holding
<1>9. ContractInv'
  BY <1>1, <1>5, <1>7, <1>8, ContractInvStays
<1> QED
  BY <1>2, <1>5, <1>6, <1>9

LEMMA EndOfActionContract ==
    ASSUME ContractInv, HonestInv', NEW r \in Requests,
           Resolve(r) \/ Doubt(r) \/ Reject(r)
    PROVE  ContractInv' /\ Contract!Next
<1>T. TypeOK
  BY DEF ContractInv, HonestInv, WindowInv
<1>1. pc[r] = "acting" /\ Live(r)
  BY DEF Resolve, Doubt, Reject, Settle, ContractInv, HonestInv, WindowInv, RunningIsLive
<1>L. {"writeDone", "writeDoubt", "clear"} \subseteq Late
  BY DEF Late, Holding
<1>A. /\ Reply("replayed", r) \in Answer /\ Reply("in_doubt", r) \in Answer
      /\ Reply("rejected", None) \in Answer
  BY ReplyType DEF MaybeRequest
<1>2. CASE Resolve(r)
  <2>1. /\ launch[r] = "landed" /\ UNCHANGED launch
        /\ Settle(r, "writeDone", Reply("ok", r), Reply("replayed", r))
    BY <1>2 DEF Resolve
  <2>2. OutcomeFits(r)'
    BY <1>T, <2>1 DEF Settle, OutcomeFits, TypeOK
  <2>3. \A q \in Requests \ {r} :
          HashOf[q] = HashOf[r] => Contract!Allowed(q, Reply("replayed", r))
    BY <2>1, MayReplay
  <2> QED
    BY <1>A, <1>L, <2>1, <2>2, <2>3, SettleKeeps, Responds
<1>3. CASE Doubt(r)
  <2>1. /\ UNCHANGED launch
        /\ Settle(r, "writeDoubt", Reply("in_doubt", r), Reply("in_doubt", r))
    BY <1>3 DEF Doubt
  <2>2. OutcomeFits(r)' /\ launch'[r] # "none"
    BY <1>T, <1>1, <2>1 DEF Settle, OutcomeFits, Live, TypeOK
  <2>3. \A q \in Requests \ {r} :
          HashOf[q] = HashOf[r] => Contract!Allowed(q, Reply("in_doubt", r))
    BY <1>1, <2>1, MayDoubt DEF Live
  <2> QED
    BY <1>A, <1>L, <2>1, <2>2, <2>3, SettleKeeps, Responds
<1>4. CASE Reject(r)
  <2>1. /\ launch[r] = "pending" /\ launch' = [launch EXCEPT ![r] = "rejected"]
        /\ Settle(r, "clear", Reply("rejected", None), Reply("rejected", None))
    BY <1>4 DEF Reject
  <2>2. /\ launch'[r] = "rejected"
        /\ \A q \in Requests \ {r} : launch'[q] = launch[q]
    BY <1>T, <2>1 DEF TypeOK
  <2>3. OutcomeFits(r)'
    BY <1>T, <2>1, <2>2 DEF Settle, OutcomeFits, TypeOK
  <2>4. \A q \in Requests \ {r} :
          HashOf[q] = HashOf[r] => Contract!Allowed(q, Reply("rejected", None))
    BY <2>2, MayReject
  <2>5. /\ ContractInv'
        /\ Contract!Arrive
        /\ Contract!Answers
    <3>1. /\ ContractInv'
          /\ \A q \in Requests :
               /\ pc[q] # "new" => pc'[q] # "new"
               /\ Told(q)' # Told(q) =>
                    Told(q) = None /\ pc'[q] # "new" /\ Contract!Allowed(q, Told(q)')
      BY <1>A, <1>L, <2>1, <2>2, <2>3, <2>4, SettleKeeps
    <3> QED
      BY <3>1, CallsArrive, AnswersAllowed
  <2>6. ~Contract!Named(r)
    <3> SUFFICES ASSUME NEW q \in Requests, Told(q) # None, Told(q).launch = r
                 PROVE  FALSE
      BY DEF Contract!Named, Told
    <3>1. CASE pc[q] = "lost"
      BY <3>1, NoneAssumption DEF Told, Reply
    <3>2. CASE pc[q] # "lost"
      BY <1>1, <3>2, NoneAssumption
         DEF Told, ContractInv, HonestInv, HonestAnswers, HonestAnswer, Settled
    <3> QED
      BY <3>1, <3>2
  <2> QED
    BY <2>1, <2>5, <2>6 DEF Contract!Next, Contract!RespondRejected
<1> QED
  BY <1>2, <1>3, <1>4

LEMMA WriterContract ==
    ASSUME ContractInv, HonestInv', NEW r \in Requests,
           \/ WriteProgress(r) \/ WriteDone(r) \/ WriteDoubt(r)
           \/ WriteLateDoubt(r) \/ Clear(r)
    PROVE  ContractInv' /\ (windows' = {} => Contract!Next)
<1>T. TypeOK /\ TypeOK'
  BY DEF ContractInv, HonestInv, WindowInv
<1>L. /\ {"writeLateDoubt", "clear", "release"} \subseteq Late
      /\ {"writeProgress", "writeDone", "writeDoubt", "writeLateDoubt", "clear"}
           \subseteq Holding
  BY DEF Late, Holding
<1>N. /\ NewRecord("in_progress", r, None).state # "in_doubt"
      /\ NewRecord("completed", r, r).state # "in_doubt"
      /\ NewRecord("in_doubt", r, r).launch # None
      /\ \A state, l : NewRecord(state, r, l).payloadHash = HashOf[r]
  BY NoneAssumption DEF NewRecord
<1>F. pc[r] \in Late => OutcomeFits(r)
  BY DEF ContractInv, OutcomesFit
<1>0. ASSUME Leave(r) PROVE \A p \in Replicas : inFlight'[p] \in {inFlight[p], None}
  BY <1>0, <1>T DEF Leave, TypeOK
<1>1. CASE WriteProgress(r)
  <2>1. CASE GoTo(r, "acting")
    <3>1. /\ pc[r] = "writeProgress" /\ pc' = [pc EXCEPT ![r] = "acting"]
          /\ launch' = [launch EXCEPT ![r] = "pending"]
          /\ inFlight' = [inFlight EXCEPT ![ReplicaOf[r]] = r]
          /\ record' = NewRecord("in_progress", r, None)
          /\ UNCHANGED <<lock, sawRecord, outcome, answer, windows>>
      BY <1>1, <1>T, <2>1 DEF WriteProgress, Writes, GoTo, TypeOK, Steps, Holding
    <3> QED
      BY <3>1, StartContract
  <2>2. CASE GoTo(r, "clear")
    <3>1. /\ pc[r] = "writeProgress" /\ record' \in {record, NewRecord("in_progress", r, None)}
          /\ outcome' = [outcome EXCEPT ![r] = Reply("store_error", None)]
          /\ UNCHANGED <<lock, sawRecord, launch, inFlight, windows>>
      BY <1>1, <1>T, <2>2 DEF WriteProgress, WriteFails, GoTo, TypeOK, Steps, Holding
    <3>2. OutcomeFits(r)' /\ \A q \in Requests \ {r} : outcome'[q] = outcome[q]
      BY <1>T, <3>1 DEF OutcomeFits, TypeOK
    <3> QED
      BY <1>L, <1>N, <2>2, <3>1, <3>2, HolderKeeps
  <2> QED
    BY <1>1, <2>1, <2>2 DEF WriteProgress
<1>2. CASE WriteDone(r)
  <2>1. /\ pc[r] = "writeDone" /\ launch[r] = "landed"
        /\ UNCHANGED <<lock, sawRecord, launch, windows>>
        /\ record' \in {record, NewRecord("completed", r, r)}
    BY <1>2
       DEF WriteDone, Writes, WriteFails, ContractInv, HonestInv, CompletedHasLanded
  <2>2. CASE Leave(r) /\ UNCHANGED outcome
    <3>1. OutcomeFits(r)'
      BY <1>F, <2>1, <2>2 DEF OutcomeFits, Live, Late, Holding
    <3> QED
      BY <1>0, <1>L, <1>N, <2>1, <2>2, <3>1, HolderKeeps DEF Leave
  <2>3. CASE /\ GoTo(r, "writeLateDoubt") /\ UNCHANGED inFlight
             /\ outcome' = [outcome EXCEPT ![r] = Reply("in_doubt", r)]
    <3>1. OutcomeFits(r)' /\ \A q \in Requests \ {r} : outcome'[q] = outcome[q]
      BY <1>T, <2>1, <2>3 DEF OutcomeFits, Live, TypeOK
    <3> QED
      BY <1>L, <1>N, <2>1, <2>3, <3>1, HolderKeeps
  <2> QED
    BY <1>2, <2>2, <2>3 DEF WriteDone
<1>3. CASE WriteDoubt(r)
  <2>1. /\ pc[r] = "writeDoubt" /\ Leave(r)
        /\ UNCHANGED <<lock, sawRecord, launch, windows>>
        /\ record' \in {record, NewRecord("in_doubt", r, r)}
        /\ \/ UNCHANGED outcome
           \/ outcome' = [outcome EXCEPT ![r] = Reply("store_error", None)]
    BY <1>3 DEF WriteDoubt, Writes, WriteFails
  <2>2. OutcomeFits(r)' /\ \A q \in Requests \ {r} : outcome'[q] = outcome[q]
    BY <1>F, <1>T, <2>1 DEF OutcomeFits, Live, Late, Holding, TypeOK
  <2> QED
    BY <1>0, <1>L, <1>N, <2>1, <2>2, HolderKeeps DEF Leave
<1>4. CASE WriteLateDoubt(r)
  <2>1. /\ pc[r] = "writeLateDoubt" /\ Leave(r)
        /\ UNCHANGED <<lock, sawRecord, launch, windows, outcome>>
        /\ record' \in {record, NewRecord("in_doubt", r, r)}
    BY <1>4 DEF WriteLateDoubt, Writes, WriteFails
  <2>2. OutcomeFits(r)'
    BY <1>F, <2>1 DEF OutcomeFits, Live, Late, Holding
  <2> QED
    BY <1>0, <1>L, <1>N, <2>1, <2>2, HolderKeeps DEF Leave
<1>5. CASE Clear(r)
  <2>1. /\ pc[r] = "clear" /\ Leave(r)
        /\ UNCHANGED <<lock, sawRecord, launch, windows, outcome>>
        /\ record' \in {record, None}
    BY <1>5 DEF Clear, Writes, WriteFails
  <2>2. OutcomeFits(r)'
    BY <1>F, <2>1 DEF OutcomeFits, Live, Late, Holding
  <2> QED
    BY <1>0, <1>L, <2>1, <2>2, HolderKeeps, NoneAssumption DEF Leave
<1> QED
  BY <1>1, <1>2, <1>3, <1>4, <1>5

\* The holder is told its outcome once the lock is released.
LEMMA ReleaseContract ==
    ASSUME ContractInv, HonestInv', NEW r \in Requests, Release(r)
    PROVE  ContractInv' /\ Contract!Next
<1>T. TypeOK /\ TypeOK'
  BY DEF ContractInv, HonestInv, WindowInv
<1>1. /\ pc[r] = "release" /\ pc' = [pc EXCEPT ![r] = "done"]
      /\ answer' = [answer EXCEPT ![r] = outcome[r]]
      /\ lock' \in {lock, None}
      /\ UNCHANGED <<record, inFlight, sawRecord, outcome, launch, windows>>
  BY DEF Release, Finish
<1>2. /\ pc'[r] = "done" /\ answer'[r] = outcome[r] /\ answer[r] = None
      /\ \A q \in Requests \ {r} : pc'[q] = pc[q] /\ answer'[q] = answer[q]
  BY <1>T, <1>1 DEF TypeOK, ContractInv, AnsweredWhenDone
<1>3. OutcomeFits(r)
  BY <1>1 DEF ContractInv, OutcomesFit, Late, Holding
<1>4. outcome[r] # None /\ Contract!Allowed(r, outcome[r])
  <2>1. outcome[r] # None
    BY <1>3, ReplyType DEF OutcomeFits, MaybeRequest
  <2>2. Contract!Allowed(r, outcome[r])
    BY <1>1, <1>3, MaySucceed, MayDoubt, MayReject, MayFail DEF OutcomeFits, Live
  <2> QED
    BY <2>1, <2>2
<1>5. \A q \in Requests :
        /\ pc[q] # "new" => pc'[q] # "new"
        /\ Told(q)' # Told(q) => q = r /\ Told(q) = None /\ Told(q)' = outcome[q]
  BY <1>1, <1>2 DEF Told
<1>6. \A q \in Requests :
        /\ Seen(q) => Seen(q)'
        /\ Known(q) => Known(q)'
        /\ answer'[q] # None => pc'[q] = "done"
        /\ pc'[q] \in Polling => pc[q] \in Polling
        /\ pc'[q] = "afterWait" => pc[q] = "afterWait"
  BY <1>1, <1>2, <1>4
     DEF Seen, Told, Known, ContractInv, AnsweredWhenDone, Polling
<1>7. \A q \in Requests : pc'[q] \in Late => OutcomeFits(q)'
  BY <1>1, <1>2 DEF ContractInv, OutcomesFit, OutcomeFits, Live, Late, Holding
<1>8. \A l \in Lock : lock' = l => l = lock
  BY <1>1, NoneAssumption
<1>9. ContractInv'
  BY <1>1, <1>5, <1>6, <1>7, <1>8, ContractInvStays
<1>10. Contract!Next
  BY <1>1, <1>2, <1>4, <1>5, Responds
<1> QED
  BY <1>9, <1>10

-----------------------------------------------------------------------------
(* The environment *)

LEMMA LandContract ==
    ASSUME ContractInv, HonestInv', NEW r \in Requests, Land(r)
    PROVE  ContractInv' /\ Contract!Next
<1>T. TypeOK
  BY DEF ContractInv, HonestInv, WindowInv
<1>1. /\ launch[r] = "pending" /\ launch' = [launch EXCEPT ![r] = "landed"]
      /\ UNCHANGED <<record, lock, inFlight, pc, sawRecord, outcome, answer, windows>>
  BY DEF Land
<1>2. \A q \in Requests :
        /\ Seen(q) => Seen(q)'
        /\ Known(q) => Known(q)'
        /\ launch[q] # "none" => launch'[q] # "none"
        /\ pc'[q] \in Late => OutcomeFits(q)'
  <2> SUFFICES ASSUME NEW q \in Requests
               PROVE  /\ Seen(q) => Seen(q)'
                      /\ Known(q) => Known(q)'
                      /\ launch[q] # "none" => launch'[q] # "none"
                      /\ pc'[q] \in Late => OutcomeFits(q)'
    OBVIOUS
  <2>1. launch'[q] = IF q = r THEN "landed" ELSE launch[q]
    BY <1>T, <1>1 DEF TypeOK
  <2>2. pc'[q] \in Late => OutcomeFits(q)'
    BY <1>1, <2>1 DEF ContractInv, OutcomesFit, OutcomeFits, Live
  <2> QED
    BY <1>1, <2>1, <2>2 DEF Seen, Told, Known
<1>3. ContractInv'
  BY <1>1, <1>2, ContractInvStays DEF ContractInv, AnsweredWhenDone
<1>4. Contract!Land(r)
  BY <1>1 DEF Contract!Land
<1> QED
  BY <1>3, <1>4 DEF Contract!Next

\* Clocks, crashes and stuttering.
LEMMA EnvironmentContract ==
    ASSUME ContractInv, HonestInv', UNCHANGED <<launch, sawRecord, outcome, answer>>,
           windows' = {} => windows = {},
           record' \in {record, None}, lock' \in {lock, None},
           \A p \in Replicas : inFlight'[p] \in {inFlight[p], None},
           \A q \in Requests :
             pc'[q] = pc[q] \/ (pc[q] \notin {"new", "done"} /\ pc'[q] = "lost")
    PROVE  ContractInv' /\ Contract!Next
<1>1. \A q \in Requests :
        /\ pc[q] # "new" => pc'[q] # "new"
        /\ answer'[q] # None => pc'[q] = "done"
        /\ Told(q)' # Told(q) =>
             Told(q) = None /\ pc'[q] # "new" /\ Told(q)' = Reply("store_error", None)
  BY DEF Told, ContractInv, AnsweredWhenDone
<1>2. \A q \in Requests :
        /\ Seen(q) => Seen(q)'
        /\ Known(q) => Known(q)'
  <2>1. Reply("store_error", None) # None
    BY ReplyType DEF MaybeRequest
  <2> QED
    BY <1>1, <2>1 DEF Seen, Told, Known
<1>3. \A q \in Requests :
        /\ pc'[q] \in Late => OutcomeFits(q)'
        /\ pc'[q] \in Polling => pc[q] \in Polling
        /\ pc'[q] = "afterWait" => pc[q] = "afterWait"
  BY DEF ContractInv, OutcomesFit, OutcomeFits, Live, Late, Holding, Polling
<1>4. /\ \A p \in Replicas : \A q \in Requests : inFlight'[p] = q => q = inFlight[p]
      /\ \A l \in Lock : lock' = l => l = lock
      /\ \A rec \in Record : record' = rec => rec = record
  BY NoneAssumption
<1>5. ContractInv'
  BY <1>1, <1>2, <1>3, <1>4, ContractInvStays
<1>6. Contract!Next
  BY <1>1, MayFail, Responds
<1> QED
  BY <1>5, <1>6

LEMMA ContractInit == Init => ContractInv /\ Contract!Init
<1> SUFFICES ASSUME Init PROVE ContractInv /\ Contract!Init
  OBVIOUS
<1>1. ContractInv
  BY HonestInit
     DEF Init, ContractInv, OutcomesFit, AnsweredWhenDone, InFlightHasLaunch,
         LockIsAsked, RecordIsKnown, WaitsForKnown, OrphansAreSeen, Late, Holding,
         Polling
<1>2. Contract!Init
  BY DEF Init, Contract!Init
<1> QED
  BY <1>1, <1>2

LEMMA ContractStep ==
    ContractInv /\ [Next]_vars =>
        ContractInv' /\ [windows' = {} => Contract!Next]_(Contract!vars)
<1> SUFFICES ASSUME ContractInv, [Next]_vars
             PROVE  ContractInv' /\ (windows' = {} => Contract!Next)
  OBVIOUS
<1>H. HonestInv' /\ TypeOK
  BY HonestStep DEF ContractInv, HonestInv, WindowInv
<1>1. ASSUME NEW r \in Requests, Execute(r)
      PROVE  ContractInv' /\ (windows' = {} => Contract!Next)
  BY <1>1, <1>H, LookupAndWaitContract, EndOfActionContract, WriterContract,
     ReleaseContract DEF Execute, ExecuteWithLock
<1>2. ASSUME NEW r \in Requests, Land(r) PROVE ContractInv' /\ Contract!Next
  BY <1>2, <1>H, LandContract
<1>3. CASE OrphanLapses \/ HeldLapses \/ RecordExpires
  <2>1. /\ UNCHANGED <<inFlight, pc, launch, sawRecord, outcome, answer>>
        /\ record' \in {record, None} /\ lock' \in {lock, None}
        /\ windows' = {} => windows = {}
    BY <1>3 DEF OrphanLapses, HeldLapses, RecordExpires
  <2> QED
    BY <1>H, <2>1, EnvironmentContract
<1>4. ASSUME NEW p \in Replicas, Crash(p) PROVE ContractInv' /\ Contract!Next
  <2>1. /\ UNCHANGED <<record, lock, launch, sawRecord, outcome, answer, windows>>
        /\ \A q \in Requests :
             pc'[q] = pc[q] \/ (pc[q] \notin {"new", "done"} /\ pc'[q] = "lost")
        /\ \A s \in Replicas : inFlight'[s] \in {inFlight[s], None}
    BY <1>4, <1>H DEF Crash, TypeOK
  <2> QED
    BY <1>H, <2>1, EnvironmentContract
<1>5. CASE UNCHANGED vars
  <2>1. UNCHANGED <<record, lock, inFlight, pc, launch, sawRecord, outcome, answer,
                    windows>>
    BY <1>5 DEF vars
  <2> QED
    BY <1>H, <2>1, EnvironmentContract
<1> QED
  BY <1>1, <1>2, <1>3, <1>4, <1>5 DEF Next

\* The Redis store, too, implements the contract, for any number of replicas,
\* until a lock lapses under its holder, a record expires or a request takes
\* the lock on a stale look at the record: no lost reply, failed command or
\* crash makes it start a launch twice or tell a client what is not so.
THEOREM ImplementsContract == Spec => KeepsContract
BY ContractInit, ContractStep, PTL DEF Spec, KeepsContract

=============================================================================
