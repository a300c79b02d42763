-------------------------- MODULE TxSubmitterProofs --------------------------
(***************************************************************************)
(* Proofs about TxSubmitter, for any number of requests and replicas, with *)
(* and without Redis, and any number of failures, lapses and crashes.      *)
(***************************************************************************)
EXTENDS TxSubmitter, TLAPS

USE DEF bounds, GoTo

-----------------------------------------------------------------------------
(* Type correctness *)

LEMMA LeaveQueueType ==
    ASSUME TypeOK, NEW r \in Requests, LeaveQueue(r),
           queue[ReplicaOf[r]] # <<>>
    PROVE  queue' \in [Replicas -> Seq(Requests)] /\ pc' \in [Requests -> Steps]
<1>1. Tail(queue[ReplicaOf[r]]) \in Seq(Requests)
  BY RequestsAssumption DEF TypeOK
<1> QED
  BY <1>1, RequestsAssumption DEF TypeOK, LeaveQueue, Steps

LEMMA AcceptedType ==
    ASSUME TypeOK, NEW r \in Requests
    PROVE  Accepted(r) \in [Requests -> TxStates]
BY DEF TypeOK, Accepted, TxStates

\* Whoever is past the queue is at its head.
ActiveIsHead ==
    \A r \in Requests :
        pc[r] \in {"acquire"} \cup Inside =>
            queue[ReplicaOf[r]] # <<>> /\ Head(queue[ReplicaOf[r]]) = r

LEMMA StepType == TypeOK /\ ActiveIsHead /\ [Next]_vars => TypeOK'
<1> SUFFICES ASSUME TypeOK, ActiveIsHead, [Next]_vars PROVE TypeOK'
  OBVIOUS
<1> USE RequestsAssumption, BoundsAssumption
<1>1. ASSUME NEW r \in Requests, Submit(r) PROVE TypeOK'
  <2>1. Append(queue[ReplicaOf[r]], r) \in Seq(Requests)
    BY DEF TypeOK
  <2> QED
    BY <1>1, <2>1 DEF Submit, TypeOK, Steps
<1>2. ASSUME NEW r \in Requests, Enter(r) PROVE TypeOK'
  BY <1>2 DEF Enter, TypeOK, Steps, Inside
<1>3. ASSUME NEW r \in Requests, Acquire(r) PROVE TypeOK'
  BY <1>3 DEF Acquire, TypeOK, Steps, Inside
<1>4. ASSUME NEW r \in Requests, AcquireFails(r) PROVE TypeOK'
  <2>1. queue' \in [Replicas -> Seq(Requests)] /\ pc' \in [Requests -> Steps]
    BY <1>4, LeaveQueueType DEF AcquireFails, ActiveIsHead, TypeOK
  <2>2. lock' \in Requests \cup {None} /\ faults' \in 0..MaxFaults
    BY <1>4 DEF AcquireFails, Fails, TypeOK
  <2>3. answer' \in [Requests -> Answers \cup {None}]
    BY <1>4 DEF AcquireFails, TypeOK, Answers
  <2> QED
    BY <1>4, <2>1, <2>2, <2>3 DEF AcquireFails, TypeOK
<1>5. ASSUME NEW r \in Requests, HeartbeatFails(r) PROVE TypeOK'
  BY <1>5 DEF HeartbeatFails, Fails, TypeOK
<1>6. ASSUME NEW r \in Requests, Release(r) PROVE TypeOK'
  <2>1. queue' \in [Replicas -> Seq(Requests)] /\ pc' \in [Requests -> Steps]
    BY <1>6, LeaveQueueType DEF Release, ActiveIsHead, Inside
  <2>2. lock' \in Requests \cup {None}
    BY <1>6 DEF Release, Released, TypeOK
  <2>3. faults' \in 0..MaxFaults
    BY <1>6 DEF Release, Fails, TypeOK
  <2>4. windows' \subseteq WindowKinds
    BY <1>6 DEF Release, TypeOK, WindowKinds
  <2>5. UNCHANGED <<healthy, nonce, answer, tx, lapses, stale, crashes>>
    BY <1>6 DEF Release
  <2>6. healthy' \in [Requests -> BOOLEAN]
    BY <2>5 DEF TypeOK
  <2>7. /\ nonce' \in [Requests -> Nonces \cup {0}]
        /\ answer' \in [Requests -> Answers \cup {None}]
        /\ tx' \in [Requests -> TxStates]
    BY <2>5 DEF TypeOK
  <2>8. lapses' \in 0..MaxLapses /\ stale' \in 0..MaxStale /\ crashes' \in 0..MaxCrashes
    BY <2>5 DEF TypeOK
  <2> QED
    BY <2>1, <2>2, <2>3, <2>4, <2>6, <2>7, <2>8 DEF TypeOK
<1>7. ASSUME NEW r \in Requests, ReadNonce(r) PROVE TypeOK'
  <2>1. nonce' \in [Requests -> Nonces \cup {0}]
    BY <1>7 DEF ReadNonce, TypeOK
  <2>2. stale' \in 0..MaxStale
    BY <1>7 DEF ReadNonce, TypeOK
  <2>3. windows' \subseteq WindowKinds
    BY <1>7 DEF ReadNonce, TypeOK, WindowKinds
  <2> QED
    BY <1>7, <2>1, <2>2, <2>3 DEF ReadNonce, TypeOK, Steps, Inside
<1>8. ASSUME NEW r \in Requests, RpcFails(r) PROVE TypeOK'
  BY <1>8 DEF RpcFails, Throw, TypeOK, Steps, Inside, Answers
<1>9. ASSUME NEW r \in Requests, Prepare(r) PROVE TypeOK'
  BY <1>9 DEF Prepare, TypeOK, Steps, Inside
<1>10. ASSUME NEW r \in Requests, Verify(r) PROVE TypeOK'
  BY <1>10 DEF Verify, TypeOK, Steps, Inside
<1>11. ASSUME NEW r \in Requests, VerifyFails(r) PROVE TypeOK'
  BY <1>11 DEF VerifyFails, Fails, Throw, TypeOK, Steps, Inside, Answers
<1>12. ASSUME NEW r \in Requests, Send(r) PROVE TypeOK'
  <2>1. tx' \in [Requests -> TxStates]
    BY <1>12, AcceptedType DEF Send, With, TypeOK, TxStates
  <2>2. pc' \in [Requests -> Steps]
    BY <1>12 DEF Send, Throw, TypeOK, Steps, Inside
  <2>3. answer' \in [Requests -> Answers \cup {None}]
    BY <1>12 DEF Send, Throw, TypeOK, Answers
  <2> QED
    BY <1>12, <2>1, <2>2, <2>3 DEF Send, Throw, TypeOK
<1>13. ASSUME NEW r \in Requests, Deliver(r) PROVE TypeOK'
  <2>1. tx' \in [Requests -> TxStates]
    BY <1>13, AcceptedType DEF Deliver, With, TypeOK, TxStates
  <2> QED
    BY <1>13, <2>1 DEF Deliver, TypeOK
<1>14. CASE OrphanLapses
  BY <1>14 DEF OrphanLapses, TypeOK, WindowKinds
<1>15. CASE HeldLapses
  BY <1>15 DEF HeldLapses, TypeOK, WindowKinds
<1>16. ASSUME NEW p \in Replicas, Crash(p) PROVE TypeOK'
  <2>1. /\ pc' \in [Requests -> Steps]
        /\ tx' \in [Requests -> TxStates]
        /\ windows' \subseteq WindowKinds
    BY <1>16 DEF Crash, TypeOK, Steps, TxStates, WindowKinds
  <2>2. queue' \in [Replicas -> Seq(Requests)]
    BY <1>16 DEF Crash, TypeOK
  <2> QED
    BY <1>16, <2>1, <2>2 DEF Crash, TypeOK
<1>17. CASE UNCHANGED vars
  BY <1>17 DEF vars, TypeOK
<1> QED
  BY <1>1, <1>2, <1>3, <1>4, <1>5, <1>6, <1>7, <1>8, <1>9, <1>10, <1>11, <1>12,
     <1>13, <1>14, <1>15, <1>16, <1>17 DEF Next, Advance

\* Leaving the queue is the head's business, so the next head is not active yet.
LEMMA LeaveQueueActive ==
    ASSUME TypeOK, ActiveIsHead, NEW r \in Requests, LeaveQueue(r),
           pc[r] \in {"acquire"} \cup Inside
    PROVE  ActiveIsHead'
BY RequestsAssumption DEF LeaveQueue, ActiveIsHead, TypeOK, Inside

LEMMA StepActive == TypeOK /\ ActiveIsHead /\ [Next]_vars => ActiveIsHead'
<1> SUFFICES ASSUME TypeOK, ActiveIsHead, [Next]_vars PROVE ActiveIsHead'
  OBVIOUS
<1> USE RequestsAssumption
<1>1. ASSUME NEW r \in Requests, Submit(r) PROVE ActiveIsHead'
  <2>1. \A s \in Seq(Requests) : s # <<>> =>
          Append(s, r) # <<>> /\ Head(Append(s, r)) = Head(s)
    OBVIOUS
  <2> QED
    BY <1>1, <2>1 DEF Submit, ActiveIsHead, TypeOK, Inside
<1>2. ASSUME NEW r \in Requests, Enter(r) PROVE ActiveIsHead'
  BY <1>2 DEF Enter, ActiveIsHead, TypeOK
<1>3. ASSUME NEW r \in Requests,
             Acquire(r) \/ HeartbeatFails(r) \/ ReadNonce(r) \/ RpcFails(r)
               \/ Prepare(r) \/ Verify(r) \/ VerifyFails(r) \/ Send(r) \/ Deliver(r)
      PROVE  ActiveIsHead'
  <2>1. UNCHANGED queue
    BY <1>3 DEF Acquire, HeartbeatFails, ReadNonce, RpcFails, Prepare, Verify,
                VerifyFails, Send, Deliver
  <2>2. \A q \in Requests : pc'[q] \in {"acquire"} \cup Inside =>
                               pc[q] \in {"acquire"} \cup Inside
    BY <1>3 DEF Acquire, HeartbeatFails, ReadNonce, RpcFails, Prepare, Verify,
                VerifyFails, Send, Deliver, Throw, TypeOK, Inside
  <2> QED
    BY <2>1, <2>2 DEF ActiveIsHead
<1>4. ASSUME NEW r \in Requests, AcquireFails(r) PROVE ActiveIsHead'
  BY <1>4, LeaveQueueActive DEF AcquireFails, ActiveIsHead
<1>5. ASSUME NEW r \in Requests, Release(r) PROVE ActiveIsHead'
  BY <1>5, LeaveQueueActive DEF Release, Inside
<1>6. CASE OrphanLapses \/ HeldLapses \/ UNCHANGED vars
  BY <1>6 DEF OrphanLapses, HeldLapses, vars, ActiveIsHead
<1>7. ASSUME NEW p \in Replicas, Crash(p) PROVE ActiveIsHead'
  BY <1>7 DEF Crash, ActiveIsHead, TypeOK, Inside
<1> QED
  BY <1>1, <1>2, <1>3, <1>4, <1>5, <1>6, <1>7 DEF Next, Advance

LEMMA InitType == Init => TypeOK /\ ActiveIsHead
BY RequestsAssumption, BoundsAssumption
   DEF Init, TypeOK, ActiveIsHead, Steps, Inside, TxStates

\* The queue discipline, on which the order of a replica's submissions rests.
LEMMA TypedAndQueued == Spec => [](TypeOK /\ ActiveIsHead)
BY InitType, StepType, StepActive, PTL DEF Spec

\* Every reachable state is well typed.
THEOREM TypeCorrect == Spec => []TypeOK
BY TypedAndQueued, PTL

-----------------------------------------------------------------------------
(* Nonces.  The protection passes from the lock to the request that owns it: *)
(* only an owner broadcasts, and what may still be accepted has an owner.     *)

\* The request that has the signer to itself: by the lock in Redis, or by being
\* past the queue of the only replica.
Owns(r) == IF Distributed THEN lock = r ELSE pc[r] \in Inside

Before == {"new", "queued", "acquire", "readNonce", "prepare", "verify", "send"}
Chosen == {"prepare", "verify", "send"}

\* Nothing is on the network before the broadcast, and what is under way at the
\* release is an ambiguous broadcast.
ProgressInv ==
    /\ \A r \in Requests : pc[r] \in Before => tx[r] = "none" /\ answer[r] = None
    /\ \A r \in Requests : pc[r] = "release" /\ tx[r] = "transit" =>
                           answer[r] = "in_doubt"

OwnersSend == \A r \in Requests : tx[r] = "transit" \/ pc[r] = "send" => Owns(r)

\* The nonce an owner has read is still free.
NonceFree ==
    \A r \in Requests : Owns(r) /\ pc[r] \in Chosen =>
        \A q \in Requests : q # r /\ Out(q) => nonce[q] # nonce[r]

Apart ==
    \A q, r \in Requests : q # r /\ Out(q) /\ Out(r) => nonce[q] # nonce[r]

Standing == \A r \in Requests : /\ tx[r] # "replaced"
                                /\ answer[r] = "hash" => tx[r] = "accepted"

NonceInv == windows = {} => OwnersSend /\ NonceFree /\ Apart /\ Standing

LEMMA OneOwner ==
    ASSUME TypeOK, ActiveIsHead, NEW q \in Requests, NEW r \in Requests,
           Owns(q), Owns(r)
    PROVE  q = r
BY RequestsAssumption, DeploymentAssumption DEF Owns, ActiveIsHead, Inside

\* A window once open stays in the history.
LEMMA WindowsStay == [Next]_vars /\ windows' = {} => windows = {}
BY DEF Next, Advance, Submit, Enter, Acquire, AcquireFails, HeartbeatFails,
       Release, ReadNonce, RpcFails, Prepare, Verify, VerifyFails, Send, Deliver,
       OrphanLapses, HeldLapses, Crash, vars

LEMMA StepProgress ==
    TypeOK /\ ProgressInv /\ [Next]_vars => ProgressInv'
<1> SUFFICES ASSUME TypeOK, ProgressInv, [Next]_vars PROVE ProgressInv'
  OBVIOUS
<1> USE DEF Before
<1>1. ASSUME NEW r \in Requests, Submit(r) \/ Enter(r) \/ Acquire(r) \/ ReadNonce(r)
                                   \/ Prepare(r) \/ Verify(r)
      PROVE  ProgressInv'
  <2>1. UNCHANGED <<tx, answer>> /\ pc[r] \in Before
    BY <1>1 DEF Submit, Enter, Acquire, ReadNonce, Prepare, Verify
  <2>2. PICK step \in Before : GoTo(r, step)
    BY <1>1 DEF Submit, Enter, Acquire, ReadNonce, Prepare, Verify
  <2> QED
    BY <2>1, <2>2 DEF ProgressInv, TypeOK
<1>2. ASSUME NEW r \in Requests, AcquireFails(r) PROVE ProgressInv'
  BY <1>2 DEF AcquireFails, LeaveQueue, ProgressInv, TypeOK
<1>3. ASSUME NEW r \in Requests, HeartbeatFails(r) PROVE ProgressInv'
  BY <1>3 DEF HeartbeatFails, ProgressInv
<1>4. ASSUME NEW r \in Requests, RpcFails(r) \/ VerifyFails(r) PROVE ProgressInv'
  <2>1. UNCHANGED tx /\ tx[r] = "none"
    BY <1>4 DEF RpcFails, VerifyFails, ProgressInv
  <2>2. PICK a \in Answers : Throw(r, a)
    BY <1>4 DEF RpcFails, VerifyFails, Answers
  <2> QED
    BY <2>1, <2>2 DEF Throw, ProgressInv, TypeOK
<1>5. ASSUME NEW r \in Requests, Send(r) PROVE ProgressInv'
  <2>1. \A q \in Requests : q # r => /\ pc'[q] = pc[q]
                                     /\ answer'[q] = answer[q]
                                     /\ tx'[q] \in {tx[q], "replaced"}
                                     /\ tx[q] = "none" => tx'[q] = "none"
    BY <1>5 DEF Send, Throw, Accepted, With, TypeOK
  <2>2. /\ pc'[r] = "release"
        /\ tx'[r] = "transit" => answer'[r] = "in_doubt"
    BY <1>5 DEF Send, Throw, Accepted, With, TypeOK
  <2> QED
    BY <2>1, <2>2 DEF ProgressInv
<1>6. ASSUME NEW r \in Requests, Release(r) PROVE ProgressInv'
  BY <1>6 DEF Release, LeaveQueue, ProgressInv, TypeOK
<1>7. ASSUME NEW r \in Requests, Deliver(r) PROVE ProgressInv'
  <2>1. \A q \in Requests : /\ tx'[q] = "transit" => tx[q] = "transit"
                            /\ tx[q] = "none" => tx'[q] = "none"
    BY <1>7 DEF Deliver, Accepted, With, TypeOK
  <2> QED
    BY <1>7, <2>1 DEF Deliver, ProgressInv
<1>8. CASE OrphanLapses \/ HeldLapses \/ UNCHANGED vars
  BY <1>8 DEF OrphanLapses, HeldLapses, vars, ProgressInv
<1>9. ASSUME NEW p \in Replicas, Crash(p) PROVE ProgressInv'
  BY <1>9 DEF Crash, ProgressInv, TypeOK
<1> QED
  BY <1>1, <1>2, <1>3, <1>4, <1>5, <1>6, <1>7, <1>8, <1>9 DEF Next, Advance

\* A step that neither touches the network nor chooses a nonce.
LEMMA QuietStep ==
    ASSUME OwnersSend, NonceFree, Apart, Standing,
           UNCHANGED <<tx, nonce>>,
           \A r \in Requests : answer'[r] = "hash" => answer[r] = "hash",
           OwnersSend',
           \A r \in Requests : Owns(r)' /\ pc'[r] \in Chosen =>
                               Owns(r) /\ pc[r] \in Chosen
    PROVE  OwnersSend' /\ NonceFree' /\ Apart' /\ Standing'
<1>1. \A r \in Requests : Out(r)' <=> Out(r)
  BY DEF Out
<1>2. NonceFree'
  BY <1>1 DEF NonceFree
<1>3. Apart'
  BY <1>1 DEF Apart
<1>4. Standing'
  BY DEF Standing
<1> QED
  BY <1>2, <1>3, <1>4

Quiet ==
    \/ \E r \in Requests :
         \/ Submit(r) \/ Enter(r) \/ Acquire(r) \/ AcquireFails(r) \/ HeartbeatFails(r)
         \/ RpcFails(r) \/ Prepare(r) \/ Verify(r) \/ VerifyFails(r) \/ Release(r)
    \/ OrphanLapses \/ HeldLapses \/ UNCHANGED vars

LEMMA QuietKeeps ==
    ASSUME TypeOK, Quiet
    PROVE  /\ UNCHANGED <<tx, nonce>>
           /\ \A r \in Requests : answer'[r] = "hash" => answer[r] = "hash"
BY DEF Quiet, TypeOK, Submit, Enter, Acquire, AcquireFails, HeartbeatFails,
       RpcFails, Prepare, Verify, VerifyFails, Release, LeaveQueue, Throw,
       OrphanLapses, HeldLapses, vars

\* Nobody becomes an owner after it has chosen its nonce.
LEMMA QuietChosen ==
    ASSUME TypeOK, Quiet, NEW q \in Requests, Owns(q)', pc'[q] \in Chosen
    PROVE  Owns(q) /\ pc[q] \in Chosen
<1> USE DEF Owns, Chosen, Inside
<1> USE RequestsAssumption
<1>1. ASSUME NEW r \in Requests, Submit(r) \/ Enter(r) \/ HeartbeatFails(r)
               \/ RpcFails(r) \/ Prepare(r) \/ Verify(r) \/ VerifyFails(r)
      PROVE  Owns(q) /\ pc[q] \in Chosen
  BY <1>1 DEF TypeOK, Submit, Enter, HeartbeatFails, RpcFails, Prepare, Verify,
              VerifyFails, Throw
<1>2. ASSUME NEW r \in Requests, Acquire(r) \/ AcquireFails(r)
      PROVE  Owns(q) /\ pc[q] \in Chosen
  BY <1>2 DEF TypeOK, Acquire, AcquireFails, LeaveQueue
<1>3. ASSUME NEW r \in Requests, Release(r) PROVE Owns(q) /\ pc[q] \in Chosen
  BY <1>3 DEF TypeOK, Release, Released, LeaveQueue
<1>4. CASE OrphanLapses \/ HeldLapses \/ UNCHANGED vars
  BY <1>4 DEF TypeOK, OrphanLapses, HeldLapses, vars
<1> QED
  BY <1>1, <1>2, <1>3, <1>4 DEF Quiet

\* Whoever may still have a transaction accepted keeps the signer: the lock is
\* not released over a doubtful broadcast, and its lapse opens a window.
LEMMA QuietOwners ==
    ASSUME TypeOK, ProgressInv, OwnersSend, Quiet, windows' = {},
           NEW q \in Requests, tx'[q] = "transit" \/ pc'[q] = "send"
    PROVE  Owns(q)'
<1> USE RequestsAssumption DEF Owns, OwnersSend, Inside
<1>1. ASSUME NEW r \in Requests, Submit(r) \/ Enter(r) \/ HeartbeatFails(r)
               \/ Prepare(r)
      PROVE  Owns(q)'
  BY <1>1 DEF TypeOK, Submit, Enter, HeartbeatFails, Prepare
<1>2. ASSUME NEW r \in Requests, Verify(r) PROVE Owns(q)'
  BY <1>2 DEF TypeOK, Verify
<1>3. ASSUME NEW r \in Requests, RpcFails(r) \/ VerifyFails(r) PROVE Owns(q)'
  BY <1>3 DEF TypeOK, RpcFails, VerifyFails, Throw
<1>4. ASSUME NEW r \in Requests, Acquire(r) PROVE Owns(q)'
  BY <1>4 DEF TypeOK, Acquire
<1>5. ASSUME NEW r \in Requests, AcquireFails(r) PROVE Owns(q)'
  BY <1>5 DEF TypeOK, AcquireFails, LeaveQueue
<1>6. ASSUME NEW r \in Requests, Release(r) PROVE Owns(q)'
  <2>1. UNCHANGED tx /\ pc[r] = "release" /\ pc' = [pc EXCEPT ![r] = "done"]
    BY <1>6 DEF Release, LeaveQueue
  <2>2. Owns(q)
    BY <2>1 DEF TypeOK
  <2>3. CASE q = r
    <3>1. tx[r] = "transit" /\ answer[r] = "in_doubt"
      BY <2>1, <2>3 DEF ProgressInv, TypeOK
    <3>2. Distributed
      BY <1>6, <3>1 DEF Release
    <3>3. lock' = lock
      BY <1>6, <3>1 DEF Release, MayRelease
    <3> QED
      BY <2>2, <3>2, <3>3
  <2>4. CASE q # r
    BY <1>6, <2>1, <2>2, <2>4 DEF Release, Released, TypeOK
  <2> QED
    BY <2>3, <2>4
<1>7. CASE OrphanLapses
  BY <1>7 DEF OrphanLapses
<1>8. CASE HeldLapses
  BY <1>8 DEF HeldLapses
<1>9. CASE UNCHANGED vars
  BY <1>9 DEF vars
<1> QED
  BY <1>1, <1>2, <1>3, <1>4, <1>5, <1>6, <1>7, <1>8, <1>9 DEF Quiet

\* A transaction of an owner leaves every other transaction as it is.
LEMMA OthersUntouched ==
    ASSUME TypeOK, NEW r \in Requests,
           \A q \in Requests : q # r /\ Out(q) => nonce[q] # nonce[r],
           Standing,
           tx' \in {Accepted(r), With(r, "transit"), With(r, "dropped")}
    PROVE  /\ \A q \in Requests : q # r => tx'[q] = tx[q]
           /\ tx'[r] \in {"accepted", "transit", "dropped"}
BY DEF TypeOK, Standing, Out, Accepted, With

LEMMA OwnerStep ==
    ASSUME TypeOK, ActiveIsHead, OwnersSend, Apart, Standing, UNCHANGED nonce,
           NEW r \in Requests, Owns(r),
           \A q \in Requests : q # r /\ Out(q) => nonce[q] # nonce[r],
           \A q \in Requests : q # r => /\ tx'[q] = tx[q]
                                       /\ pc'[q] = pc[q]
                                       /\ answer'[q] = answer[q],
           \A q \in Requests : Owns(q)' <=> Owns(q),
           pc'[r] \notin Chosen,
           tx'[r] \in {"accepted", "transit", "dropped"},
           answer'[r] = "hash" => tx'[r] = "accepted"
    PROVE  OwnersSend' /\ NonceFree' /\ Apart' /\ Standing'
<1>1. \A q \in Requests : q # r => (Out(q)' <=> Out(q))
  BY DEF Out
<1>2. OwnersSend'
  BY DEF OwnersSend
<1>3. NonceFree'
  BY OneOwner DEF NonceFree
<1>4. Apart'
  BY <1>1 DEF Apart
<1>5. Standing'
  BY DEF Standing
<1> QED
  BY <1>2, <1>3, <1>4, <1>5

LEMMA StepNonce ==
    TypeOK /\ ActiveIsHead /\ ProgressInv /\ NonceInv /\ [Next]_vars => NonceInv'
<1> SUFFICES ASSUME TypeOK, ActiveIsHead, ProgressInv, NonceInv, [Next]_vars,
                    windows' = {}
             PROVE  OwnersSend' /\ NonceFree' /\ Apart' /\ Standing'
  BY DEF NonceInv
<1>0. OwnersSend /\ NonceFree /\ Apart /\ Standing
  BY WindowsStay DEF NonceInv
<1>T. TypeOK'
  BY StepType
<1>1. CASE Quiet
  <2>1. OwnersSend'
    BY <1>0, <1>1, QuietOwners DEF OwnersSend
  <2> QED
    BY <1>0, <1>1, <2>1, QuietKeeps, QuietChosen, QuietStep
<1>2. ASSUME NEW r \in Requests, ReadNonce(r)
      PROVE  OwnersSend' /\ NonceFree' /\ Apart' /\ Standing'
  <2>1. /\ UNCHANGED <<lock, answer, tx>>
        /\ pc[r] = "readNonce"
        /\ pc' = [pc EXCEPT ![r] = "prepare"]
        /\ tx[r] = "none"
    BY <1>2 DEF ReadNonce, ProgressInv, Before
  <2>2. PICK n \in Nonces : nonce' = [nonce EXCEPT ![r] = n] /\ ~Occupied(n)
    BY <1>2 DEF ReadNonce, Pending
  <2>3. \A q \in Requests : Owns(q)' <=> Owns(q)
    BY <2>1 DEF Owns, TypeOK, Inside
  <2>4. OwnersSend'
    BY <1>0, <2>1, <2>3 DEF OwnersSend, TypeOK
  <2>5. \A q \in Requests : Out(q)' => Out(q) /\ q # r /\ nonce'[q] = nonce[q]
    BY <2>1, <2>2 DEF Out, TypeOK
  <2>6. ASSUME NEW o \in Requests, Owns(o)', pc'[o] \in Chosen,
               NEW q \in Requests, q # o, Out(q)'
        PROVE  nonce'[q] # nonce'[o]
    <3>1. CASE o = r
      <4>1. tx[q] = "accepted"
        BY <1>0, <2>3, <2>5, <2>6, <3>1, OneOwner DEF Out, OwnersSend, Standing
      <4> QED
        BY <2>2, <2>5, <2>6, <3>1, <4>1 DEF Occupied, TypeOK
    <3>2. CASE o # r
      BY <1>0, <2>1, <2>2, <2>3, <2>5, <2>6, <3>2 DEF NonceFree, TypeOK
    <3> QED
      BY <3>1, <3>2
  <2>7. Apart'
    BY <1>0, <2>5 DEF Apart
  <2>8. Standing'
    BY <1>0, <2>1 DEF Standing
  <2> QED
    BY <2>4, <2>6, <2>7, <2>8 DEF NonceFree
<1>3. ASSUME NEW r \in Requests, Send(r)
      PROVE  OwnersSend' /\ NonceFree' /\ Apart' /\ Standing'
  <2>1. Owns(r) /\ pc[r] = "send" /\ UNCHANGED <<lock, nonce>>
    BY <1>0, <1>3 DEF Send, OwnersSend
  <2>2. \A q \in Requests : q # r /\ Out(q) => nonce[q] # nonce[r]
    BY <1>0, <2>1 DEF NonceFree, Chosen
  <2>3. PICK a \in {"hash", "in_doubt", "rejected"} :
          /\ Throw(r, a)
          /\ tx' \in {Accepted(r), With(r, "transit"), With(r, "dropped")}
          /\ a = "hash" => tx' = Accepted(r)
    BY <1>3 DEF Send
  <2>4. /\ \A q \in Requests : q # r => tx'[q] = tx[q]
        /\ tx'[r] \in {"accepted", "transit", "dropped"}
    BY <1>0, <2>2, <2>3, OthersUntouched
  <2>5. /\ \A q \in Requests : q # r => pc'[q] = pc[q] /\ answer'[q] = answer[q]
        /\ pc'[r] = "release"
        /\ answer'[r] = a
    BY <2>3 DEF Throw, TypeOK
  <2>6. \A q \in Requests : Owns(q)' <=> Owns(q)
    BY <2>1, <2>5 DEF Owns, Inside
  <2>7. answer'[r] = "hash" => tx'[r] = "accepted"
    BY <2>3, <2>5 DEF Accepted
  <2>8. pc'[r] \notin Chosen
    BY <2>5 DEF Chosen
  <2> QED
    BY <1>0, <2>1, <2>2, <2>4, <2>5, <2>6, <2>7, <2>8, OwnerStep
<1>4. ASSUME NEW r \in Requests, Deliver(r)
      PROVE  OwnersSend' /\ NonceFree' /\ Apart' /\ Standing'
  <2>1. /\ Owns(r)
        /\ tx[r] = "transit"
        /\ UNCHANGED <<lock, nonce, pc, answer>>
    BY <1>0, <1>4 DEF Deliver, OwnersSend
  <2>2. \A q \in Requests : q # r /\ Out(q) => nonce[q] # nonce[r]
    BY <1>0, <2>1 DEF Apart, Out
  <2>3. /\ \A q \in Requests : q # r => tx'[q] = tx[q]
        /\ tx'[r] \in {"accepted", "transit", "dropped"}
    BY <1>0, <1>4, <2>2, OthersUntouched DEF Deliver
  <2>4. answer'[r] = "hash" => tx'[r] = "accepted"
    BY <1>0, <2>1 DEF Standing
  <2>5. pc'[r] \notin Chosen
    BY <2>1 DEF ProgressInv, Before, Chosen
  <2>6. \A q \in Requests : Owns(q)' <=> Owns(q)
    BY <2>1 DEF Owns
  <2> QED
    BY <1>0, <2>1, <2>2, <2>3, <2>4, <2>5, <2>6, OwnerStep
<1>5. ASSUME NEW p \in Replicas, Crash(p)
      PROVE  OwnersSend' /\ NonceFree' /\ Apart' /\ Standing'
  <2>1. /\ UNCHANGED <<lock, nonce, answer>>
        /\ \A q \in Requests :
             /\ pc'[q] \in {pc[q], "lost"}
             /\ tx'[q] = tx[q] \/ (pc[q] = "send" /\ tx'[q] = "transit")
             /\ pc'[q] = "send" => pc[q] = "send"
             /\ pc'[q] = "lost" /\ pc[q] # "lost" => ReplicaOf[q] = p
    BY <1>5 DEF Crash, TypeOK
  <2>3. \A q \in Requests : Out(q)' => Out(q) \/ (pc[q] = "send" /\ Owns(q))
    BY <1>0, <2>1 DEF Out, OwnersSend
  <2>4. OwnersSend'
    <3> SUFFICES ASSUME NEW q \in Requests, tx'[q] = "transit" \/ pc'[q] = "send"
                 PROVE  Owns(q)'
      BY DEF OwnersSend
    <3>1. Owns(q)
      BY <1>0, <2>1 DEF OwnersSend
    <3>2. CASE Distributed
      BY <2>1, <3>1, <3>2 DEF Owns
    <3>3. CASE ~Distributed
      <4>1. ReplicaOf[q] = p
        BY <3>3, RequestsAssumption, DeploymentAssumption
      <4>2. pc[q] \in Inside
        BY <3>1, <3>3 DEF Owns
      <4>3. pc'[q] = "lost"
        BY <1>5, <4>1, <4>2 DEF Crash, Inside, TypeOK
      <4>4. tx'[q] = "transit"
        BY <4>3
      <4> QED
        BY <1>5, <3>3, <4>1, <4>2, <4>4 DEF Crash, Inside
    <3> QED
      BY <3>2, <3>3
  <2>5. \A q \in Requests : Owns(q)' => Owns(q)
    BY <2>1 DEF Owns, Inside
  <2>6. Apart'
    <3> SUFFICES ASSUME NEW q \in Requests, NEW r \in Requests, q # r,
                        Out(q)', Out(r)'
                 PROVE  nonce[q] # nonce[r]
      BY <2>1 DEF Apart
    <3>1. CASE Out(q) /\ Out(r)
      BY <1>0, <3>1 DEF Apart
    <3>2. CASE Out(q) /\ ~Out(r)
      BY <1>0, <2>3, <3>2 DEF NonceFree, Chosen
    <3>3. CASE ~Out(q) /\ Out(r)
      BY <1>0, <2>3, <3>3 DEF NonceFree, Chosen
    <3>4. CASE ~Out(q) /\ ~Out(r)
      BY <2>3, <3>4, OneOwner
    <3> QED
      BY <3>1, <3>2, <3>3, <3>4
  <2>7. NonceFree'
    <3> SUFFICES ASSUME NEW o \in Requests, Owns(o)', pc'[o] \in Chosen,
                        NEW q \in Requests, q # o, Out(q)'
                 PROVE  nonce[q] # nonce[o]
      BY <2>1 DEF NonceFree
    <3>1. Owns(o) /\ pc[o] \in Chosen
      BY <2>1, <2>5 DEF Chosen
    <3>2. Out(q)
      BY <2>3, <3>1, OneOwner
    <3> QED
      BY <1>0, <3>1, <3>2 DEF NonceFree
  <2>8. Standing'
    BY <1>0, <2>1 DEF Standing, ProgressInv, Before
  <2> QED
    BY <2>4, <2>6, <2>7, <2>8
<1> QED
  BY <1>1, <1>2, <1>3, <1>4, <1>5 DEF Next, Advance, Quiet

\* The whole inductive invariant.
Inv == TypeOK /\ ActiveIsHead /\ ProgressInv /\ NonceInv

LEMMA Invariance == Spec => []Inv
<1>1. Init => Inv
  <2> SUFFICES ASSUME Init PROVE Inv
    OBVIOUS
  <2>1. ProgressInv
    BY DEF Init, ProgressInv, Before
  <2>2. \A r \in Requests : tx[r] = "none" /\ pc[r] = "new" /\ answer[r] = None
    BY DEF Init
  <2>3. OwnersSend /\ NonceFree /\ Apart
    BY <2>2 DEF OwnersSend, NonceFree, Apart, Out, Chosen
  <2>4. Standing
    BY <2>2, AnswersAssumption DEF Standing, Answers
  <2> QED
    BY InitType, <2>1, <2>3, <2>4 DEF Inv, NonceInv
<1>2. Inv /\ [Next]_vars => Inv'
  BY StepType, StepActive, StepProgress, StepNonce DEF Inv
<1> QED
  BY <1>1, <1>2, PTL DEF Spec

\* No two broadcast transactions share a nonce, unless a window was open:
\* withDistributedNonceLock() and verifyLockOwnership() see to that.
THEOREM NoncesNeverShared == Spec => []NoncesApart
<1>1. Inv => NoncesApart
  BY DEF Inv, NonceInv, Apart, NoncesApart
<1> QED
  BY <1>1, Invariance, PTL

\* A hash that submitContractTx() returned stays good, unless a window was open.
THEOREM HashesNeverReplaced == Spec => []HashesStand
<1>1. Inv => HashesStand
  BY DEF Inv, NonceInv, Standing, HashesStand
<1> QED
  BY <1>1, Invariance, PTL

\* A broadcast that may yet be accepted keeps the nonce lock, even when its
\* request was answered or its replica crashed, unless a window was open.
THEOREM DoubtNeverUnlocked == Spec => []DoubtKeepsLock
<1>1. Inv => DoubtKeepsLock
  BY DEF Inv, NonceInv, OwnersSend, Owns, DoubtKeepsLock
<1> QED
  BY <1>1, Invariance, PTL

=============================================================================
