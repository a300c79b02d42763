---------------------------- MODULE TxSubmitter ----------------------------
(***************************************************************************)
(* Submission of EVM transactions by several API replicas that share one   *)
(* signer on one chain (src/src/infra/tx/submitter.ts, class TxSubmitter). *)
(*                                                                         *)
(* A request waits in its replica's queue, takes the nonce lock in Redis,   *)
(* reads the pending nonce, prepares and signs, checks that it still owns   *)
(* the lock, and hands the transaction to the RPC node.  Every command to   *)
(* Redis or to the node is a step.                                          *)
(***************************************************************************)
EXTENDS Naturals, Sequences

CONSTANTS
    Requests,     \* calls of submitContractTx()
    Replicas,     \* API processes
    ReplicaOf,    \* the replica that serves a request
    None,         \* no lock, no answer
    Distributed,  \* a Redis client is configured
    Nonces,       \* bound: the nonces 0..n that the run can reach
    MaxFaults,    \* bound: Redis commands that fail
    MaxLapses,    \* bound: locks that expire although their holder runs
    MaxStale,     \* bound: pending nonces read from a lagging node
    MaxCrashes,   \* bound: crashes of a replica
    MaxMishaps    \* bound: all of these together

ASSUME RequestsAssumption ==
    /\ ReplicaOf \in [Requests -> Replicas]
    /\ None \notin Requests
ASSUME BoundsAssumption ==
    /\ Distributed \in BOOLEAN
    /\ Nonces \subseteq Nat
    /\ MaxFaults \in Nat /\ MaxLapses \in Nat
    /\ MaxStale \in Nat /\ MaxCrashes \in Nat /\ MaxMishaps \in Nat
\* Replicas that share a signer need Redis (loadConfig(), shared mode).
ASSUME DeploymentAssumption ==
    ~Distributed => \A p, q \in Replicas : p = q

VARIABLES
    queue,        \* per replica, the requests in line for the chain, FIFO
    lock,         \* the nonce lock in Redis: the request whose uuid it holds
    healthy,      \* lockHealthy, per request
    nonce,        \* the nonce a request has read
    pc,           \* the next step of a request
    answer,       \* hash, in_doubt, lock_lost, rejected or redis_error
    tx,           \* what became of a request's transaction on the network
    windows,      \* history: how nonce protection was weakened so far
    faults, lapses, stale, crashes

bounds == <<faults, lapses, stale, crashes>>
vars == <<queue, lock, healthy, nonce, pc, answer, tx, windows,
          faults, lapses, stale, crashes>>

\* After SET NX has succeeded and before the clean-up has ended.
Inside == {"readNonce", "prepare", "verify", "send", "release"}
Steps == {"new", "queued", "acquire", "done", "lost"} \cup Inside
Answers == {"hash", "in_doubt", "lock_lost", "rejected", "redis_error"}
ASSUME AnswersAssumption == None \notin Answers

\* transit: the network may still accept it.  replaced: another transaction
\* with its nonce took its place.
TxStates == {"none", "transit", "accepted", "replaced", "dropped"}
WindowKinds == {"lapsed_in_send", "lapsed_in_doubt", "unlocked_doubt", "stale_nonce"}

TypeOK ==
    /\ queue \in [Replicas -> Seq(Requests)]
    /\ lock \in Requests \cup {None}
    /\ healthy \in [Requests -> BOOLEAN]
    /\ nonce \in [Requests -> Nonces \cup {0}]
    /\ pc \in [Requests -> Steps]
    /\ answer \in [Requests -> Answers \cup {None}]
    /\ tx \in [Requests -> TxStates]
    /\ windows \subseteq WindowKinds
    /\ faults \in 0..MaxFaults /\ lapses \in 0..MaxLapses
    /\ stale \in 0..MaxStale /\ crashes \in 0..MaxCrashes

Init ==
    /\ queue = [p \in Replicas |-> <<>>]
    /\ lock = None
    /\ healthy = [r \in Requests |-> TRUE]
    /\ nonce = [r \in Requests |-> 0]
    /\ pc = [r \in Requests |-> "new"]
    /\ answer = [r \in Requests |-> None]
    /\ tx = [r \in Requests |-> "none"]
    /\ windows = {}
    /\ faults = 0 /\ lapses = 0 /\ stale = 0 /\ crashes = 0

-----------------------------------------------------------------------------
(* withChainLock(): one request at a time per replica, in order of arrival *)

GoTo(r, step) == pc' = [pc EXCEPT ![r] = step]

Submit(r) ==
    /\ pc[r] = "new"
    /\ GoTo(r, "queued")
    /\ queue' = [queue EXCEPT ![ReplicaOf[r]] = Append(@, r)]
    /\ UNCHANGED <<lock, healthy, nonce, answer, tx, windows, bounds>>

Enter(r) ==
    /\ pc[r] = "queued"
    /\ queue[ReplicaOf[r]] # <<>>
    /\ Head(queue[ReplicaOf[r]]) = r
    /\ GoTo(r, IF Distributed THEN "acquire" ELSE "readNonce")
    /\ UNCHANGED <<queue, lock, healthy, nonce, answer, tx, windows, bounds>>

\* Mutant of LeaveQueue: only a success lets the next one go.
LeaveQueueOnSuccess(r) ==
    /\ GoTo(r, "done")
    /\ queue' = IF answer'[r] = "hash"
                THEN [queue EXCEPT ![ReplicaOf[r]] = Tail(@)] ELSE queue

\* The clean-up is over: the next in line may go, the answer is out.
LeaveQueue(r) ==
    /\ GoTo(r, "done")
    /\ queue' = [queue EXCEPT ![ReplicaOf[r]] = Tail(@)]

-----------------------------------------------------------------------------
(* withDistributedNonceLock() *)

MayGoWrong == faults + lapses + stale + crashes < MaxMishaps

Fails == MayGoWrong /\ faults < MaxFaults /\ faults' = faults + 1

\* SET NX, polled without a deadline while another value holds the lock.
Acquire(r) ==
    /\ pc[r] = "acquire"
    /\ lock = None
    /\ lock' = r
    /\ GoTo(r, "readNonce")
    /\ UNCHANGED <<queue, healthy, nonce, answer, tx, windows, bounds>>

\* The reply to SET NX is lost: the client throws, or resends it and is told
\* that the lock is taken, by its own value.
AcquireFails(r) ==
    /\ pc[r] = "acquire"
    /\ Fails
    /\ \/ /\ lock' \in {lock, IF lock = None THEN r ELSE lock}
          /\ answer' = [answer EXCEPT ![r] = "redis_error"]
          /\ LeaveQueue(r)
       \/ /\ lock = None
          /\ lock' = r
          /\ UNCHANGED <<queue, pc, answer>>
    /\ UNCHANGED <<healthy, nonce, tx, windows, lapses, stale, crashes>>

\* The heartbeat finds the lock gone, or fails: the lock is given up for lost.
HeartbeatFails(r) ==
    /\ Distributed
    /\ pc[r] \in Inside
    /\ healthy[r]
    /\ \/ lock # r /\ UNCHANGED faults
       \/ Fails
    /\ healthy' = [healthy EXCEPT ![r] = FALSE]
    /\ UNCHANGED <<queue, lock, nonce, pc, answer, tx, windows, lapses, stale,
                   crashes>>

\* Mutant of MayRelease: an in-doubt broadcast gives the lock back.
MayReleaseInDoubt(r) == Distributed /\ healthy[r]

\* No release of a lock that is unhealthy or guards a doubtful broadcast.
MayRelease(r) == Distributed /\ healthy[r] /\ answer[r] # "in_doubt"

\* Mutant of Released: the key is deleted whatever its value.
ReleasedByAnyone(r) == None

Released(r) == IF lock = r THEN None ELSE lock

\* fn has returned or thrown.  A failure to release is swallowed.
Release(r) ==
    /\ pc[r] = "release"
    /\ \/ MayRelease(r) /\ lock' = Released(r) /\ UNCHANGED faults
       \/ MayRelease(r) /\ Fails /\ lock' \in {lock, Released(r)}
       \/ ~MayRelease(r) /\ UNCHANGED <<lock, faults>>
    /\ UNCHANGED answer
    /\ LeaveQueue(r)
    /\ windows' = IF ~Distributed /\ tx[r] = "transit"
                  THEN windows \cup {"unlocked_doubt"} ELSE windows
    /\ UNCHANGED <<healthy, nonce, tx, lapses, stale, crashes>>

-----------------------------------------------------------------------------
(* submitContractTx(), under the two locks *)

Occupied(n) == \E q \in Requests : tx[q] = "accepted" /\ nonce[q] = n
Pending(n) == ~Occupied(n) /\ \A m \in Nonces : m < n => Occupied(m)

\* getTransactionCount('pending'); a lagging node answers an older count.
ReadNonce(r) ==
    /\ pc[r] = "readNonce"
    /\ \E n \in Nonces :
         /\ nonce' = [nonce EXCEPT ![r] = n]
         /\ \/ Pending(n) /\ UNCHANGED <<stale, windows>>
            \/ /\ Occupied(n)
               /\ MayGoWrong /\ stale < MaxStale
               /\ stale' = stale + 1
               /\ windows' = windows \cup {"stale_nonce"}
    /\ GoTo(r, "prepare")
    /\ UNCHANGED <<queue, lock, healthy, answer, tx, faults, lapses, crashes>>

Throw(r, a) ==
    /\ answer' = [answer EXCEPT ![r] = a]
    /\ GoTo(r, "release")

\* The nonce cannot be read, or the request cannot be built, filled or signed.
RpcFails(r) ==
    /\ pc[r] \in {"readNonce", "prepare"}
    /\ Throw(r, "rejected")
    /\ UNCHANGED <<queue, lock, healthy, nonce, tx, windows, bounds>>

Prepare(r) ==
    /\ pc[r] = "prepare"
    /\ GoTo(r, "verify")
    /\ UNCHANGED <<queue, lock, healthy, nonce, answer, tx, windows, bounds>>

\* Mutant of Verify: the health of the heartbeat is enough.
VerifyByHealth(r) ==
    /\ pc[r] = "verify"
    /\ ~Distributed \/ healthy[r]
    /\ GoTo(r, "send")
    /\ UNCHANGED <<queue, lock, healthy, nonce, answer, tx, windows, bounds>>

\* verifyLockOwnership(): refresh by value, just before the broadcast.
Verify(r) ==
    /\ pc[r] = "verify"
    /\ ~Distributed \/ (healthy[r] /\ lock = r)
    /\ GoTo(r, "send")
    /\ UNCHANGED <<queue, lock, healthy, nonce, answer, tx, windows, bounds>>

VerifyFails(r) ==
    /\ pc[r] = "verify"
    /\ Distributed
    /\ \/ (~healthy[r] \/ lock # r) /\ UNCHANGED faults
       \/ healthy[r] /\ Fails
    /\ healthy' = [healthy EXCEPT ![r] = FALSE]
    /\ Throw(r, "lock_lost")
    /\ UNCHANGED <<queue, lock, nonce, tx, windows, lapses, stale, crashes>>

\* The node accepts r's transaction, in place of any other with its nonce.
Accepted(r) ==
    [q \in Requests |->
        IF q = r THEN "accepted"
        ELSE IF tx[q] = "accepted" /\ nonce[q] = nonce[r] THEN "replaced"
        ELSE tx[q]]

With(r, state) == [tx EXCEPT ![r] = state]

\* sendRawTransaction(): accepted and its hash returned; accepted, refused or
\* under way when the reply is lost (isAmbiguousBroadcastError()); refused.
Send(r) ==
    /\ pc[r] = "send"
    /\ \/ tx' = Accepted(r) /\ Throw(r, "hash")
       \/ /\ tx' \in {Accepted(r), With(r, "transit"), With(r, "dropped")}
          /\ Throw(r, "in_doubt")
       \/ tx' = With(r, "dropped") /\ Throw(r, "rejected")
    /\ UNCHANGED <<queue, lock, healthy, nonce, windows, bounds>>

-----------------------------------------------------------------------------
(* The environment *)

\* A transaction under way reaches the node, which accepts or refuses it.
Deliver(r) ==
    /\ tx[r] = "transit"
    /\ tx' \in {Accepted(r), With(r, "dropped")}
    /\ UNCHANGED <<queue, lock, healthy, nonce, pc, answer, windows, bounds>>

\* The lock of a request that is gone, or still polls, runs into its TTL.
OrphanLapses ==
    /\ lock # None
    /\ pc[lock] \notin Inside
    /\ lock' = None
    /\ windows' = IF tx[lock] = "transit" THEN windows \cup {"lapsed_in_doubt"}
                  ELSE windows
    /\ UNCHANGED <<queue, healthy, nonce, pc, answer, tx, bounds>>

\* So does the lock of a live holder; before the check of ownership that is
\* noticed, during the broadcast it is not.
HeldLapses ==
    /\ MayGoWrong /\ lapses < MaxLapses
    /\ lapses' = lapses + 1
    /\ lock # None
    /\ pc[lock] \in Inside
    /\ lock' = None
    /\ windows' = IF pc[lock] = "send" THEN windows \cup {"lapsed_in_send"}
                  ELSE IF tx[lock] = "transit"
                  THEN windows \cup {"lapsed_in_doubt"} ELSE windows
    /\ UNCHANGED <<queue, healthy, nonce, pc, answer, tx, faults, stale, crashes>>

\* A replica dies; what it was sending may still arrive.
Crash(p) ==
    LET open == {r \in Requests : ReplicaOf[r] = p /\ pc[r] \notin {"new", "done"}}
        sending == {r \in open : pc[r] = "send"}
    IN
    /\ MayGoWrong /\ crashes < MaxCrashes
    /\ crashes' = crashes + 1
    /\ queue' = [queue EXCEPT ![p] = <<>>]
    /\ pc' = [r \in Requests |-> IF r \in open THEN "lost" ELSE pc[r]]
    /\ tx' = [r \in Requests |-> IF r \in sending THEN "transit" ELSE tx[r]]
    /\ windows' = IF ~Distributed /\ \E r \in open : tx'[r] = "transit"
                  THEN windows \cup {"unlocked_doubt"} ELSE windows
    /\ UNCHANGED <<lock, healthy, nonce, answer, faults, lapses, stale>>

-----------------------------------------------------------------------------

Advance(r) ==
    \/ Enter(r) \/ Acquire(r) \/ AcquireFails(r) \/ ReadNonce(r) \/ RpcFails(r)
    \/ Prepare(r) \/ Verify(r) \/ VerifyFails(r) \/ Send(r) \/ Release(r)

Next ==
    \/ \E r \in Requests : Submit(r) \/ Advance(r) \/ HeartbeatFails(r) \/ Deliver(r)
    \/ OrphanLapses \/ HeldLapses
    \/ \E p \in Replicas : Crash(p)

\* Redis and the node answer or time out, and a lock that nobody refreshes
\* expires.
Fairness ==
    /\ \A r \in Requests : WF_vars(Advance(r))
    /\ WF_vars(OrphanLapses)

Spec == Init /\ [][Next]_vars /\ Fairness

-----------------------------------------------------------------------------
(* Properties *)

\* The network has, had or may yet have the transaction of r.
Out(r) == tx[r] \in {"transit", "accepted", "replaced"}

\* No two broadcast transactions have the same nonce, unless the lock lapsed
\* during a broadcast or over a doubtful one, or a node reported a stale nonce
\* (withDistributedNonceLock(), verifyLockOwnership()).
NoncesApart ==
    windows = {} =>
        \A q, r \in Requests : q # r /\ Out(q) /\ Out(r) => nonce[q] # nonce[r]

\* A hash that was returned stays good: no later transaction of the service
\* replaces it, under the same condition.
HashesStand ==
    windows = {} => \A r \in Requests : answer[r] = "hash" => tx[r] = "accepted"

\* While a broadcast may still be accepted by the network, its request keeps the
\* nonce lock, even after it was answered (an in-doubt error keeps the lock).
DoubtKeepsLock ==
    Distributed /\ windows = {} =>
        \A r \in Requests : tx[r] = "transit" => lock = r

\* No submission waits for ever: neither the queue of its replica, whatever
\* became of those before it, nor a lock that nobody will release holds it up.
EverySubmissionSettles ==
    \A r \in Requests : pc[r] = "queued" ~> pc[r] \in {"done", "lost"}

=============================================================================
