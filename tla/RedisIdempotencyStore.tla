------------------------ MODULE RedisIdempotencyStore ------------------------
(***************************************************************************)
(* The Redis-backed idempotency store of several API replicas              *)
(* (src/src/infra/idempotency/store.ts, class RedisIdempotencyStore), for  *)
(* one idempotency key: record, lock and inFlight entries of different     *)
(* keys never meet.                                                        *)
(*                                                                         *)
(* Every Redis command is a step of its own, and so is the end of the      *)
(* launch.  What the replica does with a reply up to its next await        *)
(* belongs to the step of the command.  A command may fail, whether or     *)
(* not Redis has applied it.                                               *)
(***************************************************************************)
EXTENDS Integers

CONSTANTS
    Requests,     \* calls of execute() with the same key
    Replicas,     \* API processes
    ReplicaOf,    \* the replica that serves a request
    HashOf,       \* hashPayload() of a request's payload
    None,         \* absent record, lock, leader, launch
    MaxFaults,    \* bound: Redis commands that fail
    MaxLapses,    \* bound: locks that expire although their holder runs
    MaxExpiries,  \* bound: records that expire
    MaxCrashes,   \* bound: crashes of a replica
    MaxMishaps    \* bound: all of these together

ASSUME RequestsAssumption ==
    /\ ReplicaOf \in [Requests -> Replicas]
    /\ HashOf = [r \in Requests |-> HashOf[r]]
ASSUME BoundsAssumption ==
    /\ MaxFaults \in Nat
    /\ MaxLapses \in Nat
    /\ MaxExpiries \in Nat
    /\ MaxCrashes \in Nat
    /\ MaxMishaps \in Nat

VARIABLES
    record,       \* the record in Redis
    lock,         \* the lock in Redis
    inFlight,     \* per replica, the request whose action is running
    pc,           \* the next command of a request
    sawRecord,    \* the request waits because it read an in_progress record
    leader,       \* the request whose promise a joined request awaits
    outcome,      \* what executeWithLock() will answer once it has cleaned up
    answer,       \* what a request was answered
    launch,       \* what became of a request's launch, outside the replicas
    windows,      \* history: how the protection of the key was weakened so far
    faults, lapses, expiries, crashes

redisVars == <<record, lock>>
localVars == <<inFlight, pc, sawRecord, leader, outcome>>
bounds == <<faults, lapses, expiries, crashes>>
vars == <<record, lock, inFlight, pc, sawRecord, leader, outcome, answer,
          launch, windows, faults, lapses, expiries, crashes>>

-----------------------------------------------------------------------------
(* Values *)

Hashes == {HashOf[r] : r \in Requests}
MaybeRequest == Requests \cup {None}

\* `launch` is the launch that the stored response or error details name.
Record ==
    [state: {"in_progress", "completed", "in_doubt"}, payloadHash: Hashes,
     launch: MaybeRequest]

\* The value `payloadHash|uuid`.  Only the request that learnt that its SET NX
\* succeeded knows the uuid: holder = None when that reply was lost.
Lock == [payloadHash: Hashes, holder: MaybeRequest]

Answer ==
    [kind: {"ok", "replayed", "mismatch", "in_doubt", "rejected", "store_error"},
     launch: MaybeRequest]

ASSUME NoneAssumption ==
    /\ None \notin Requests
    /\ None \notin Record
    /\ None \notin Lock
    /\ None \notin Answer

Polling == {"pollRecord", "pollLock"}
Holding == {"writeProgress", "acting", "writeDone", "writeDoubt",
            "writeLateDoubt", "clear", "release"}
Steps == {"new", "read", "afterWait", "acquire", "joined", "done", "lost"}
           \cup Polling \cup Holding

TypeOK ==
    /\ record \in Record \cup {None}
    /\ lock \in Lock \cup {None}
    /\ inFlight \in [Replicas -> MaybeRequest]
    /\ pc \in [Requests -> Steps]
    /\ sawRecord \in [Requests -> BOOLEAN]
    /\ leader \in [Requests -> MaybeRequest]
    /\ outcome \in [Requests -> Answer \cup {None}]
    /\ answer \in [Requests -> Answer \cup {None}]
    /\ launch \in [Requests -> {"none", "pending", "landed", "rejected"}]
    /\ windows \subseteq {"stale_read", "lock_lapsed", "record_expired"}
    /\ faults \in 0..MaxFaults
    /\ lapses \in 0..MaxLapses
    /\ expiries \in 0..MaxExpiries
    /\ crashes \in 0..MaxCrashes

Init ==
    /\ record = None
    /\ lock = None
    /\ inFlight = [p \in Replicas |-> None]
    /\ pc = [r \in Requests |-> "new"]
    /\ sawRecord = [r \in Requests |-> FALSE]
    /\ leader = [r \in Requests |-> None]
    /\ outcome = [r \in Requests |-> None]
    /\ answer = [r \in Requests |-> None]
    /\ launch = [r \in Requests |-> "none"]
    /\ windows = {}
    /\ faults = 0 /\ lapses = 0 /\ expiries = 0 /\ crashes = 0

-----------------------------------------------------------------------------
(* Building blocks *)

Reply(kind, l) == [kind |-> kind, launch |-> l]

NewRecord(state, r, l) ==
    [state |-> state, payloadHash |-> HashOf[r], launch |-> l]

GoTo(r, step) == pc' = [pc EXCEPT ![r] = step] /\ UNCHANGED answer

Finish(r, a) ==
    /\ pc' = [pc EXCEPT ![r] = "done"]
    /\ answer' = [answer EXCEPT ![r] = a]

MayGoWrong == faults + lapses + expiries + crashes < MaxMishaps

Fails == MayGoWrong /\ faults < MaxFaults /\ faults' = faults + 1

\* A command that only reads throws out of execute().
ReadFails(r, step) ==
    /\ pc[r] = step
    /\ Fails
    /\ Finish(r, Reply("store_error", None))
    /\ UNCHANGED <<redisVars, inFlight, sawRecord, leader, outcome, launch,
                   windows, lapses, expiries, crashes>>

\* Mutant of StoredAnswer: the payload is not compared.
StoredAnswerToAny(rec, h) ==
    IF rec.state = "completed" THEN Reply("replayed", rec.launch)
    ELSE IF rec.state = "in_doubt" THEN Reply("in_doubt", rec.launch)
    ELSE None

\* What a stored record answers to a request with payload hash h, None when it
\* has to wait.
StoredAnswer(rec, h) ==
    IF rec.payloadHash # h THEN Reply("mismatch", None)
    ELSE IF rec.state = "completed" THEN Reply("replayed", rec.launch)
    ELSE IF rec.state = "in_doubt" THEN Reply("in_doubt", rec.launch)
    ELSE None

-----------------------------------------------------------------------------
(* The loop of execute() *)

\* What the promise of q's action has settled to, None while the action runs.
\* It stays in inFlight until q has brought the record up to date.
PromiseAnswer(q) ==
    CASE pc[q] \in {"writeDone", "writeLateDoubt"} -> Reply("replayed", q)
      [] pc[q] = "writeDoubt" -> Reply("in_doubt", q)
      [] pc[q] = "clear" -> Reply("rejected", None)
      [] OTHER -> None

\* The record at the head of the loop: answer from it, wait for it, join the
\* action in flight on this replica, or go for the lock.
Read(r) ==
    LET stored == StoredAnswer(record, HashOf[r])
        running == inFlight[ReplicaOf[r]]
    IN
    /\ pc[r] \in {"new", "read"}
    /\ \/ /\ record # None
          /\ \/ /\ stored # None
                /\ Finish(r, stored)
                /\ UNCHANGED sawRecord
             \/ /\ stored = None
                /\ GoTo(r, "pollRecord")
                /\ sawRecord' = [sawRecord EXCEPT ![r] = TRUE]
          /\ UNCHANGED leader
       \/ /\ record = None
          /\ running # None
          /\ \/ /\ HashOf[running] = HashOf[r]
                /\ PromiseAnswer(running) = None
                /\ GoTo(r, "joined")
                /\ leader' = [leader EXCEPT ![r] = running]
             \/ /\ HashOf[running] = HashOf[r]
                /\ PromiseAnswer(running) # None
                /\ Finish(r, PromiseAnswer(running))
                /\ UNCHANGED leader
             \/ /\ HashOf[running] # HashOf[r]
                /\ Finish(r, Reply("mismatch", None))
                /\ UNCHANGED leader
          /\ UNCHANGED sawRecord
       \/ /\ record = None
          /\ running = None
          /\ GoTo(r, "acquire")
          /\ UNCHANGED <<sawRecord, leader>>
    /\ UNCHANGED <<redisVars, inFlight, outcome, launch, windows, bounds>>

\* SET NX of the lock.  The record is not read again: if one has appeared since
\* Read, the request goes on all the same.
Acquire(r) ==
    /\ pc[r] = "acquire"
    /\ lock = None
    /\ lock' = [payloadHash |-> HashOf[r], holder |-> r]
    /\ windows' = IF record # None THEN windows \cup {"stale_read"} ELSE windows
    /\ GoTo(r, "writeProgress")
    /\ UNCHANGED <<record, inFlight, sawRecord, leader, outcome, launch, bounds>>

AcquireBusy(r) ==
    /\ pc[r] = "acquire"
    /\ lock # None
    /\ GoTo(r, "pollRecord")
    /\ sawRecord' = [sawRecord EXCEPT ![r] = FALSE]
    /\ UNCHANGED <<redisVars, inFlight, leader, outcome, launch, windows, bounds>>

\* The reply to SET NX is lost: the client throws, or it resends the command,
\* which then finds the lock it has just taken.
AcquireFails(r) ==
    /\ pc[r] = "acquire"
    /\ Fails
    /\ \/ /\ lock' \in {lock, IF lock = None
                              THEN [payloadHash |-> HashOf[r], holder |-> None]
                              ELSE lock}
          /\ Finish(r, Reply("store_error", None))
          /\ UNCHANGED sawRecord
       \/ /\ lock = None
          /\ lock' = [payloadHash |-> HashOf[r], holder |-> None]
          /\ GoTo(r, "pollRecord")
          /\ sawRecord' = [sawRecord EXCEPT ![r] = FALSE]
    /\ UNCHANGED <<record, inFlight, leader, outcome, launch, windows, lapses,
                   expiries, crashes>>

-----------------------------------------------------------------------------
(* waitForRecordOrUnlock() *)

PollRecord(r) ==
    LET stored == StoredAnswer(record, HashOf[r]) IN
    /\ pc[r] = "pollRecord"
    /\ \/ record # None /\ stored # None /\ Finish(r, stored)
       \/ (record # None => stored = None) /\ GoTo(r, "pollLock")
    /\ UNCHANGED <<redisVars, inFlight, sawRecord, leader, outcome, launch,
                   windows, bounds>>

\* Mutant of PollLock: only a record ends the wait.
PollLockForRecord(r) ==
    /\ pc[r] = "pollLock"
    /\ lock # None => lock.payloadHash = HashOf[r]
    /\ GoTo(r, "pollRecord")
    /\ UNCHANGED <<redisVars, inFlight, sawRecord, leader, outcome, launch,
                   windows, bounds>>

\* Mutant of PollLock: whatever it has seen, the request looks for an orphan.
PollLockForOrphan(r) ==
    /\ pc[r] = "pollLock"
    /\ \/ lock = None /\ GoTo(r, "afterWait")
       \/ /\ lock # None
          /\ \/ /\ lock.payloadHash = HashOf[r]
                /\ GoTo(r, "pollRecord")
             \/ /\ lock.payloadHash # HashOf[r]
                /\ Finish(r, Reply("mismatch", None))
    /\ UNCHANGED <<redisVars, inFlight, sawRecord, leader, outcome, launch,
                   windows, bounds>>

\* The lock, and the delay until the next poll.
PollLock(r) ==
    /\ pc[r] = "pollLock"
    /\ \/ /\ lock = None
          /\ GoTo(r, IF sawRecord[r] THEN "afterWait" ELSE "read")
       \/ /\ lock # None
          /\ \/ /\ lock.payloadHash = HashOf[r]
                /\ GoTo(r, "pollRecord")
             \/ /\ lock.payloadHash # HashOf[r]
                /\ Finish(r, Reply("mismatch", None))
    /\ UNCHANGED <<redisVars, inFlight, sawRecord, leader, outcome, launch,
                   windows, bounds>>

\* The lock is gone: a record that is still in_progress has lost its owner.
AfterWait(r) ==
    /\ pc[r] = "afterWait"
    /\ \/ /\ record # None
          /\ record.state = "in_progress"
          /\ Finish(r, Reply("in_doubt", None))
       \/ /\ record # None => record.state # "in_progress"
          /\ GoTo(r, "read")
    /\ UNCHANGED <<redisVars, inFlight, sawRecord, leader, outcome, launch,
                   windows, bounds>>

-----------------------------------------------------------------------------
(* executeWithLock() *)

\* SET of a record by r: applied, or failed with either effect on Redis.
Writes(rec) == record' = rec /\ UNCHANGED faults
WriteFails(rec) == Fails /\ record' \in {record, rec}

\* The `finally`: the entry of inFlight goes, whoever owns it, and the lock is
\* released next.
Leave(r) ==
    /\ GoTo(r, "release")
    /\ inFlight' = [inFlight EXCEPT ![ReplicaOf[r]] = None]

\* Mutant of WriteProgress: the record is written on a best-effort basis.
WriteProgressAnyway(r) ==
    LET rec == NewRecord("in_progress", r, None) IN
    /\ pc[r] = "writeProgress"
    /\ Writes(rec) \/ WriteFails(rec)
    /\ GoTo(r, "acting")
    /\ inFlight' = [inFlight EXCEPT ![ReplicaOf[r]] = r]
    /\ launch' = [launch EXCEPT ![r] = "pending"]
    /\ UNCHANGED <<lock, sawRecord, leader, outcome, windows, lapses, expiries,
                   crashes>>

\* Write in_progress, then start the action; if the write throws, clear.
WriteProgress(r) ==
    LET rec == NewRecord("in_progress", r, None) IN
    /\ pc[r] = "writeProgress"
    /\ \/ /\ Writes(rec)
          /\ GoTo(r, "acting")
          /\ inFlight' = [inFlight EXCEPT ![ReplicaOf[r]] = r]
          /\ launch' = [launch EXCEPT ![r] = "pending"]
          /\ UNCHANGED outcome
       \/ /\ WriteFails(rec)
          /\ GoTo(r, "clear")
          /\ outcome' = [outcome EXCEPT ![r] = Reply("store_error", None)]
          /\ UNCHANGED <<inFlight, launch>>
    /\ UNCHANGED <<lock, sawRecord, leader, windows, lapses, expiries, crashes>>

Joined(r) == {q \in Requests : pc[q] = "joined" /\ leader[q] = r}

\* The promise of r's action settles: `own` is what r will be answered once the
\* store is up to date, those that joined are answered at once.
Settle(r, step, own, joined) ==
    /\ pc[r] = "acting"
    /\ pc' = [q \in Requests |-> IF q = r THEN step
                                ELSE IF q \in Joined(r) THEN "done" ELSE pc[q]]
    /\ outcome' = [outcome EXCEPT ![r] = own]
    /\ answer' = [q \in Requests |->
                    IF q \in Joined(r) THEN joined ELSE answer[q]]
    /\ UNCHANGED <<redisVars, inFlight, sawRecord, leader, windows, bounds>>

Resolve(r) ==
    /\ launch[r] = "landed"
    /\ Settle(r, "writeDone", Reply("ok", r), Reply("replayed", r))
    /\ UNCHANGED launch

\* Mutant of Doubt: the in-doubt error is taken for a rejection.
DoubtAsRejection(r) ==
    /\ Settle(r, "clear", Reply("rejected", None), Reply("rejected", None))
    /\ UNCHANGED launch

\* An in-doubt error with the details of a transaction.
Doubt(r) ==
    /\ Settle(r, "writeDoubt", Reply("in_doubt", r), Reply("in_doubt", r))
    /\ UNCHANGED launch

\* Any other error: nothing was launched.
Reject(r) ==
    /\ launch[r] = "pending"
    /\ launch' = [launch EXCEPT ![r] = "rejected"]
    /\ Settle(r, "clear", Reply("rejected", None), Reply("rejected", None))

WriteDone(r) ==
    LET rec == NewRecord("completed", r, r) IN
    /\ pc[r] = "writeDone"
    /\ \/ /\ Writes(rec)
          /\ Leave(r)
          /\ UNCHANGED outcome
       \/ /\ WriteFails(rec)
          /\ GoTo(r, "writeLateDoubt")
          /\ outcome' = [outcome EXCEPT ![r] = Reply("in_doubt", r)]
          /\ UNCHANGED inFlight
    /\ UNCHANGED <<lock, sawRecord, leader, launch, windows, lapses, expiries,
                   crashes>>

\* The in-doubt record of an ambiguous launch: if writing it throws, that error
\* takes the place of the launch's.
WriteDoubt(r) ==
    LET rec == NewRecord("in_doubt", r, r) IN
    /\ pc[r] = "writeDoubt"
    /\ \/ Writes(rec) /\ UNCHANGED outcome
       \/ /\ WriteFails(rec)
          /\ outcome' = [outcome EXCEPT ![r] = Reply("store_error", None)]
    /\ Leave(r)
    /\ UNCHANGED <<lock, sawRecord, leader, launch, windows, lapses, expiries,
                   crashes>>

\* The in-doubt record of a completed launch: here a failure is swallowed.
WriteLateDoubt(r) ==
    LET rec == NewRecord("in_doubt", r, r) IN
    /\ pc[r] = "writeLateDoubt"
    /\ Writes(rec) \/ WriteFails(rec)
    /\ Leave(r)
    /\ UNCHANGED <<lock, sawRecord, leader, outcome, launch, windows, lapses,
                   expiries, crashes>>

\* DEL of the record, whoever wrote it; a failure is swallowed.
Clear(r) ==
    /\ pc[r] = "clear"
    /\ Writes(None) \/ WriteFails(None)
    /\ Leave(r)
    /\ UNCHANGED <<lock, sawRecord, leader, outcome, launch, windows, lapses,
                   expiries, crashes>>

Holds(r) == lock # None /\ lock.holder = r

\* Release by value; a failure is a warning.
Release(r) ==
    LET released == IF Holds(r) THEN None ELSE lock IN
    /\ pc[r] = "release"
    /\ \/ lock' = released /\ UNCHANGED faults
       \/ Fails /\ lock' \in {lock, released}
    /\ Finish(r, outcome[r])
    /\ UNCHANGED <<record, inFlight, sawRecord, leader, outcome, launch, windows,
                   lapses, expiries, crashes>>

-----------------------------------------------------------------------------
(* The environment *)

\* The chain: a transaction is accepted, maybe long after its request is gone.
Land(r) ==
    /\ launch[r] = "pending"
    /\ launch' = [launch EXCEPT ![r] = "landed"]
    /\ UNCHANGED <<redisVars, localVars, answer, windows, bounds>>

\* The lock of a holder that is gone runs into its TTL.
OrphanLapses ==
    /\ lock # None
    /\ lock.holder # None => pc[lock.holder] \notin Holding
    /\ lock' = None
    /\ UNCHANGED <<record, localVars, answer, launch, windows, bounds>>

\* So does the lock of a live holder whose heartbeat has failed: its failures
\* are ignored, and so is the loss of the lock.
HeldLapses ==
    /\ MayGoWrong /\ lapses < MaxLapses
    /\ lapses' = lapses + 1
    /\ lock # None
    /\ lock.holder # None
    /\ pc[lock.holder] \in Holding
    /\ lock' = None
    /\ windows' = windows \cup {"lock_lapsed"}
    /\ UNCHANGED <<record, localVars, answer, launch, faults, expiries, crashes>>

RecordExpires ==
    /\ MayGoWrong /\ expiries < MaxExpiries
    /\ expiries' = expiries + 1
    /\ record # None
    /\ record' = None
    /\ windows' = windows \cup {"record_expired"}
    /\ UNCHANGED <<lock, localVars, answer, launch, faults, lapses, crashes>>

\* A replica dies and is started again; its open requests get no answer.
Crash(p) ==
    /\ MayGoWrong /\ crashes < MaxCrashes
    /\ crashes' = crashes + 1
    /\ inFlight' = [inFlight EXCEPT ![p] = None]
    /\ pc' = [r \in Requests |->
                IF ReplicaOf[r] = p /\ pc[r] \notin {"new", "done"} THEN "lost"
                ELSE pc[r]]
    /\ UNCHANGED <<redisVars, sawRecord, leader, outcome, answer, launch, windows,
                   faults, lapses, expiries>>

-----------------------------------------------------------------------------

Lookup(r) ==
    \/ Read(r) \/ ReadFails(r, "new") \/ ReadFails(r, "read")
    \/ Acquire(r) \/ AcquireBusy(r) \/ AcquireFails(r)

Wait(r) ==
    \/ PollRecord(r) \/ ReadFails(r, "pollRecord")
    \/ PollLock(r) \/ ReadFails(r, "pollLock")
    \/ AfterWait(r) \/ ReadFails(r, "afterWait")

ExecuteWithLock(r) ==
    \/ WriteProgress(r) \/ Resolve(r) \/ Doubt(r) \/ Reject(r)
    \/ WriteDone(r) \/ WriteDoubt(r) \/ WriteLateDoubt(r)
    \/ Clear(r) \/ Release(r)

Execute(r) == Lookup(r) \/ Wait(r) \/ ExecuteWithLock(r)

Next ==
    \/ \E r \in Requests : Execute(r) \/ Land(r)
    \/ OrphanLapses \/ HeldLapses \/ RecordExpires
    \/ \E p \in Replicas : Crash(p)

\* Redis answers, a running action returns, and a lock that nobody refreshes
\* expires.
Fairness ==
    /\ \A r \in Requests : WF_vars(Execute(r))
    /\ WF_vars(OrphanLapses)

Spec == Init /\ [][Next]_vars /\ Fairness

-----------------------------------------------------------------------------
(* Properties *)

Live(r) == launch[r] \in {"pending", "landed"}

\* One key, one launch, however replicas, lost replies and crashes interleave:
\* what the tests of the store and docs/api-reference.md promise without
\* condition.
AtMostOneLaunch ==
    \A q, r \in Requests : q # r => ~(Live(q) /\ Live(r))

\* The only ways to a second launch: the holder's lock has lapsed, the record
\* has expired, or a request took the lock after its look at the record had
\* become stale (execute(), between readRecord() and tryAcquireLock()).  No
\* other interleaving, failed command, lost reply or crash leads there.
SecondLaunchNeedsWindow == windows = {} => AtMostOneLaunch

\* While none of these has happened, the record of a launch is in Redis, from
\* before its action is started: every later request meets it.
LaunchRemembered ==
    windows = {} => \A r \in Requests : Live(r) => record # None

\* A 200, first or replayed, names a launch that did land and was requested
\* with the same payload, and the details of an in-doubt answer name a launch
\* with that payload that may have landed: even when windows are open.
AnswersNameTheirLaunch ==
    \A r \in Requests :
        answer[r] # None =>
            LET l == answer[r].launch IN
            /\ answer[r].kind \in {"ok", "replayed"} =>
                  l # None /\ launch[l] = "landed"
            /\ l # None => Live(l) /\ HashOf[l] = HashOf[r]

\* The store keeps the contract of IdempotencyStore, as the file store does,
\* until a window opens.  It keeps no time of its own, so that here a launch
\* excludes every later one; a request whose replica died is one that the
\* client saw fail.
Contract == INSTANCE IdempotencyContract WITH
    KeyOf <- [r \in Requests |-> "key"],
    TtlMs <- 0, now <- 0, startedAt <- [r \in Requests |-> 0],
    asked <- {r \in Requests : pc[r] # "new"},
    answer <- [r \in Requests |->
                 IF pc[r] = "lost" THEN Reply("store_error", None) ELSE answer[r]]

KeepsContract ==
    Contract!Init /\ [][windows' = {} => Contract!Next]_Contract!vars

\* Every request is answered, unless its replica crashes: neither a lock left
\* behind nor a record that stays in_progress keeps it waiting for ever.
EveryRequestAnswered ==
    \A r \in Requests : <>(pc[r] \in {"done", "lost"})

=============================================================================
