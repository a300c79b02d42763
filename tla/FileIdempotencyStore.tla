------------------------ MODULE FileIdempotencyStore ------------------------
(***************************************************************************)
(* The file-backed idempotency store of one API process                    *)
(* (src/src/infra/idempotency/store.ts, class FileIdempotencyStore).       *)
(*                                                                         *)
(* A request is one call of execute(key, payload, action).  JavaScript     *)
(* runs the code between two awaits without interruption, so a call is a   *)
(* few atomic steps: everything up to `await promise`, the launch itself   *)
(* (outside the store), and everything after it.  The continuation of the  *)
(* leader is registered before those of the requests that joined it, and   *)
(* all of them run before the process turns to another event: one step.    *)
(***************************************************************************)
EXTENDS Integers

CONSTANTS
    Requests,     \* calls of execute()
    Keys,         \* idempotency keys
    KeyOf,        \* the key of a request
    HashOf,       \* hashPayload() of a request's payload
    None,         \* absent record, absent leader, absent launch
    TtlMs,        \* IDEMPOTENCY_TTL_MS
    MaxClock,     \* bound: the clock stops here
    MaxFaults,    \* bound: number of persist() calls that throw
    MaxCrashes    \* bound: number of process crashes

ASSUME RequestsAssumption ==
    /\ KeyOf \in [Requests -> Keys]
    /\ HashOf = [r \in Requests |-> HashOf[r]]
ASSUME BoundsAssumption ==
    /\ TtlMs \in Nat
    /\ MaxClock \in Nat
    /\ MaxFaults \in Nat
    /\ MaxCrashes \in Nat

VARIABLES
    up,           \* the process is running
    now,          \* Date.now()
    records,      \* the in-memory map of records
    disk,         \* the map in the file at `path`
    inFlight,     \* per key, the request whose action is running
    pc,           \* where a request stands
    answer,       \* what a request was answered
    launch,       \* what became of a request's launch, outside the process
    startedAt,    \* when a request's action was started
    faults,       \* persist() calls that threw so far
    crashes       \* crashes so far

storeVars == <<records, disk, inFlight>>
requestVars == <<pc, answer>>
launchVars == <<launch, startedAt>>
vars == <<up, now, records, disk, inFlight, pc, answer, launch, startedAt,
          faults, crashes>>

-----------------------------------------------------------------------------
(* Values *)

States == {"in_progress", "completed", "in_doubt"}

\* A record: `launch` is the launch that the stored response or the stored
\* error details name.
Record ==
    [state: States, payloadHash: {HashOf[r] : r \in Requests},
     launch: Requests \cup {None}, createdAtMs: 0..MaxClock]

\* ok: 200, the request's own launch.  replayed: 200 with replayed = true.
\* mismatch: 409 IDEMPOTENCY_KEY_REUSE_MISMATCH.  in_doubt: 409
\* IDEMPOTENCY_KEY_IN_DOUBT.  rejected: the launch's own error.  store_error:
\* the file system's error.
AnswerKinds ==
    {"ok", "replayed", "mismatch", "in_doubt", "rejected", "store_error"}
Answer == [kind: AnswerKinds, launch: Requests \cup {None}]

ASSUME NoneAssumption ==
    None \notin Requests /\ None \notin Record /\ None \notin Answer

Reply(kind, l) == [kind |-> kind, launch |-> l]

TypeOK ==
    /\ up \in BOOLEAN
    /\ now \in 0..MaxClock
    /\ records \in [Keys -> Record \cup {None}]
    /\ disk \in [Keys -> Record \cup {None}]
    /\ inFlight \in [Keys -> Requests \cup {None}]
    /\ pc \in [Requests -> {"new", "waiting", "acting", "done", "lost"}]
    /\ answer \in [Requests -> Answer \cup {None}]
    /\ launch \in [Requests -> {"none", "pending", "landed", "rejected"}]
    /\ startedAt \in [Requests -> 0..MaxClock]
    /\ faults \in 0..MaxFaults
    /\ crashes \in 0..MaxCrashes

Init ==
    /\ up = TRUE
    /\ now = 0
    /\ records = [k \in Keys |-> None]
    /\ disk = [k \in Keys |-> None]
    /\ inFlight = [k \in Keys |-> None]
    /\ pc = [r \in Requests |-> "new"]
    /\ answer = [r \in Requests |-> None]
    /\ launch = [r \in Requests |-> "none"]
    /\ startedAt = [r \in Requests |-> 0]
    /\ faults = 0
    /\ crashes = 0

-----------------------------------------------------------------------------
(* persist() and pruneExpired() *)

\* Mutant of PersistOk: the file is not written.
PersistNothing(map) == UNCHANGED <<disk, faults>>

\* The temporary file and the rename replace the whole file, or throw and
\* leave it as it was.
PersistOk(map) == disk' = map /\ UNCHANGED faults
PersistThrows(onDisk) ==
    /\ faults < MaxFaults
    /\ faults' = faults + 1
    /\ disk' = onDisk

Expired(rec) == now - rec.createdAtMs > TtlMs

Pruned(map) ==
    [k \in Keys |-> IF map[k] # None /\ Expired(map[k]) THEN None ELSE map[k]]

\* The file after pruneExpired(): rewritten only when a record was dropped.
DiskAfterPrune == IF Pruned(records) = records THEN disk ELSE Pruned(records)

-----------------------------------------------------------------------------
(* execute(), up to its await *)

Arrives(r) == up /\ pc[r] = "new"

Finish(r, a) ==
    /\ pc' = [pc EXCEPT ![r] = "done"]
    /\ answer' = [answer EXCEPT ![r] = a]

\* pruneExpired() throws out of execute(): memory has already been pruned.
PruneThrows(r) ==
    /\ Arrives(r)
    /\ Pruned(records) # records
    /\ records' = Pruned(records)
    /\ PersistThrows(disk)
    /\ Finish(r, Reply("store_error", None))
    /\ UNCHANGED <<up, now, inFlight, launchVars, crashes>>

\* The same key is in flight: await the leader's promise, or refuse another
\* payload.
Join(r) ==
    LET leader == inFlight[KeyOf[r]] IN
    /\ Arrives(r)
    /\ leader # None
    /\ records' = Pruned(records)
    /\ PersistOk(DiskAfterPrune)
    /\ \/ /\ HashOf[leader] = HashOf[r]
          /\ pc' = [pc EXCEPT ![r] = "waiting"]
          /\ UNCHANGED answer
       \/ /\ HashOf[leader] # HashOf[r]
          /\ Finish(r, Reply("mismatch", None))
    /\ UNCHANGED <<up, now, inFlight, launchVars, crashes>>

\* What a stored record answers to a request with payload hash h.
StoredAnswer(rec, h) ==
    IF rec.payloadHash # h THEN Reply("mismatch", None)
    ELSE IF rec.state = "completed" THEN Reply("replayed", rec.launch)
    ELSE Reply("in_doubt", rec.launch)

FromRecord(r) ==
    LET rec == Pruned(records)[KeyOf[r]] IN
    /\ Arrives(r)
    /\ inFlight[KeyOf[r]] = None
    /\ rec # None
    /\ records' = Pruned(records)
    /\ PersistOk(DiskAfterPrune)
    /\ Finish(r, StoredAnswer(rec, HashOf[r]))
    /\ UNCHANGED <<up, now, inFlight, launchVars, crashes>>

NewRecord(state, r, l) ==
    [state |-> state, payloadHash |-> HashOf[r], launch |-> l,
     createdAtMs |-> now]

\* Mutant of Unknown: the requests in flight are not consulted.
UnknownRecord(r) ==
    /\ Arrives(r)
    /\ Pruned(records)[KeyOf[r]] = None

Unknown(r) ==
    /\ Arrives(r)
    /\ inFlight[KeyOf[r]] = None
    /\ Pruned(records)[KeyOf[r]] = None

WithInProgress(r) ==
    [Pruned(records) EXCEPT ![KeyOf[r]] = NewRecord("in_progress", r, None)]

\* A key seen for the first time: write in_progress, then start the action.
Start(r) ==
    /\ Unknown(r)
    /\ records' = WithInProgress(r)
    /\ PersistOk(WithInProgress(r))
    /\ inFlight' = [inFlight EXCEPT ![KeyOf[r]] = r]
    /\ pc' = [pc EXCEPT ![r] = "acting"]
    /\ launch' = [launch EXCEPT ![r] = "pending"]
    /\ startedAt' = [startedAt EXCEPT ![r] = now]
    /\ UNCHANGED <<up, now, answer, crashes>>

\* The in_progress record reaches memory only, and the action never starts.
StartThrows(r) ==
    /\ Unknown(r)
    /\ records' = WithInProgress(r)
    /\ PersistThrows(DiskAfterPrune)
    /\ Finish(r, Reply("store_error", None))
    /\ UNCHANGED <<up, now, inFlight, launchVars, crashes>>

-----------------------------------------------------------------------------
(* The launch, outside the store.  A transaction that was handed to the    *)
(* network may be accepted at any later time: while its request runs, after *)
(* an ambiguous answer, or after the process has crashed.                  *)

Land(r) ==
    /\ launch[r] = "pending"
    /\ launch' = [launch EXCEPT ![r] = "landed"]
    /\ UNCHANGED <<up, now, storeVars, requestVars, startedAt, faults, crashes>>

-----------------------------------------------------------------------------
(* execute(), after its await *)

Waiters(k) == {r \in Requests : pc[r] = "waiting" /\ KeyOf[r] = k}

\* The `finally` of execute() and the answers: `own` for the leader r, `joined`
\* for those that awaited its promise.
Retire(r, waiters, own, joined) ==
    /\ inFlight' = [inFlight EXCEPT ![KeyOf[r]] = None]
    /\ pc' = [q \in Requests |->
                IF q = r \/ q \in waiters THEN "done" ELSE pc[q]]
    /\ answer' = [q \in Requests |->
                    IF q = r THEN own
                    ELSE IF q \in waiters THEN joined ELSE answer[q]]
    /\ UNCHANGED <<up, now, startedAt, crashes>>

\* Mutant of Settle: the leader is told it is a replay, the others that they lead.
SettleSwapped(r, own, joined) == Retire(r, Waiters(KeyOf[r]), joined, own)

\* Mutant of Settle: the requests that joined are forgotten.
SettleLeaderOnly(r, own, joined) == Retire(r, {}, own, joined)

Settle(r, own, joined) == Retire(r, Waiters(KeyOf[r]), own, joined)

Acting(r) == up /\ pc[r] = "acting"

With(r, rec) == [records EXCEPT ![KeyOf[r]] = rec]

\* The action resolved and the completed record is on disk.
Complete(r) ==
    LET map == With(r, NewRecord("completed", r, r)) IN
    /\ Acting(r)
    /\ launch[r] = "landed"
    /\ records' = map
    /\ PersistOk(map)
    /\ Settle(r, Reply("ok", r), Reply("replayed", r))
    /\ UNCHANGED launch

\* The action resolved, writing the completed record threw: the record
\* becomes in_doubt, in memory at least, and the leader is told so.
CompleteThrows(r) ==
    LET map == With(r, NewRecord("in_doubt", r, r)) IN
    /\ Acting(r)
    /\ launch[r] = "landed"
    /\ records' = map
    /\ faults < MaxFaults
    /\ \/ faults' = faults + 1 /\ disk' = map
       \/ faults + 2 <= MaxFaults /\ faults' = faults + 2 /\ disk' = disk
    /\ Settle(r, Reply("in_doubt", r), Reply("replayed", r))
    /\ UNCHANGED launch

\* The action threw an in-doubt error with the details of a transaction.
Doubt(r) ==
    LET map == With(r, NewRecord("in_doubt", r, r)) IN
    /\ Acting(r)
    /\ records' = map
    /\ \/ /\ PersistOk(map)
          /\ Settle(r, Reply("in_doubt", r), Reply("in_doubt", r))
       \/ /\ PersistThrows(disk)
          /\ Settle(r, Reply("store_error", None), Reply("in_doubt", r))
    /\ UNCHANGED launch

\* The action threw any other error: nothing was launched, the key is freed.
Reject(r) ==
    LET map == With(r, None) IN
    /\ Acting(r)
    /\ launch[r] = "pending"
    /\ launch' = [launch EXCEPT ![r] = "rejected"]
    /\ records' = map
    /\ \/ /\ PersistOk(map)
          /\ Settle(r, Reply("rejected", None), Reply("rejected", None))
       \/ /\ PersistThrows(disk)
          /\ Settle(r, Reply("store_error", None), Reply("rejected", None))

-----------------------------------------------------------------------------
(* Time and the process *)

Tick ==
    /\ now < MaxClock
    /\ now' = now + 1
    /\ UNCHANGED <<up, storeVars, requestVars, launchVars, faults, crashes>>

Crash ==
    /\ up
    /\ crashes < MaxCrashes
    /\ crashes' = crashes + 1
    /\ up' = FALSE
    /\ records' = [k \in Keys |-> None]
    /\ inFlight' = [k \in Keys |-> None]
    /\ pc' = [r \in Requests |->
                IF pc[r] \in {"waiting", "acting"} THEN "lost" ELSE pc[r]]
    /\ UNCHANGED <<now, disk, answer, launchVars, faults>>

\* The constructor: load() and its pruneExpired().  If that persist() throws,
\* the process does not start.
Restart ==
    /\ ~up
    /\ up' = TRUE
    /\ records' = Pruned(disk)
    /\ disk' = Pruned(disk)
    /\ UNCHANGED <<now, inFlight, requestVars, launchVars, faults, crashes>>

-----------------------------------------------------------------------------

Execute(r) ==
    PruneThrows(r) \/ Join(r) \/ FromRecord(r) \/ Start(r) \/ StartThrows(r)

SettleAny(r) == Complete(r) \/ CompleteThrows(r) \/ Doubt(r) \/ Reject(r)

Next ==
    \/ \E r \in Requests : Execute(r) \/ Land(r) \/ SettleAny(r)
    \/ Tick
    \/ Crash
    \/ Restart

\* A running action returns: every RPC call of a launch has a timeout.
Fairness == \A r \in Requests : WF_vars(SettleAny(r))

Spec == Init /\ [][Next]_vars /\ Fairness

-----------------------------------------------------------------------------
(* Properties *)

\* The launch of r has, or may still have, an effect on chain.
Live(r) == launch[r] \in {"pending", "landed"}

SameKey(q, r) == q # r /\ KeyOf[q] = KeyOf[r]

\* Two launches under one idempotency key start more than one TTL apart,
\* whatever the interleaving of retries, failed writes, crashes, restarts and
\* transactions that are accepted late (execute(), load(), persist()).
AtMostOneLaunchPerTtl ==
    \A q, r \in Requests :
        SameKey(q, r) /\ Live(q) /\ Live(r) =>
            \/ startedAt[r] - startedAt[q] > TtlMs
            \/ startedAt[q] - startedAt[r] > TtlMs

\* The record that protects a launch survives: until one TTL after the launch
\* was started the file holds a record of its key that is at least as recent,
\* so that no crash makes the store forget a launch (the order of persist()
\* and of the action in execute()).
LaunchRememberedOnDisk ==
    \A r \in Requests :
        Live(r) /\ now - startedAt[r] <= TtlMs =>
            /\ disk[KeyOf[r]] # None
            /\ disk[KeyOf[r]].createdAtMs >= startedAt[r]

\* Everyone who is admitted is answered: the leader and all that joined it, once
\* its action returns, unless the process crashes.
AdmittedAreAnswered ==
    \A r \in Requests :
        (pc[r] \in {"acting", "waiting"}) ~> (pc[r] \in {"done", "lost"})

asked == {r \in Requests : pc[r] # "new"}

Contract == INSTANCE IdempotencyContract

\* The store keeps the contract of IdempotencyStore: seen from outside, every
\* step of the code admits, lands or answers requests as the contract allows.
KeepsContract == Contract!Spec

=============================================================================
