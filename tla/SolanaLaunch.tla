----------------------------- MODULE SolanaLaunch -----------------------------
(***************************************************************************)
(* createLaunch() of src/src/modules/launches/solana.ts with               *)
(* createLaunchSpecificLookupTable() of solana-rpc.ts, called by several   *)
(* requests, on top of an RPC node that may fail any call and a cluster    *)
(* that executes, drops and rolls back transactions at its own pace.       *)
(*                                                                         *)
(* An attempt is one call of createLaunch().  Attempts with one            *)
(* idempotency key derive one launch address; the store lets a second one  *)
(* in only when the first was answered with a plain error.  Instructions,  *)
(* signatures and accounts are abstracted to the attempt that made them;   *)
(* the rules on the request's data are in SolanaRequest.                   *)
(***************************************************************************)
EXTENDS Fields, Integers, FiniteSets

CONSTANTS
    Attempts,        \* calls of createLaunch()
    Keys,            \* idempotency keys
    KeyOf,           \* the key of each call, None without the header
    Worlds,          \* deployments, with the node and the cluster they talk to
    RpcAttempts      \* bound on the attempts of a call answered HTTP 429

ASSUME SolanaAssumption ==
    /\ KeyOf \in [Attempts -> Keys \union {None}]
    /\ None \notin Keys \union Attempts
    /\ Keys \intersect Attempts = {}
    /\ RpcAttempts \in Nat \ {0}
    /\ Worlds \subseteq
          [callers : SUBSET Attempts, \* the calls that are made
           alt : BOOLEAN,             \* solana.altAddress is set
           large : BOOLEAN,           \* transactions over that table may not fit
           ambiguous : BOOLEAN,       \* a send may throw after the node took it
           forks : BOOLEAN,           \* processed transactions may be rolled back
           confirmTicks : Nat,        \* confirmTimeoutMs, in ticks of the clock
           slots : Nat]               \* bound on the slots of the cluster

VARIABLES
    world,
    at,          \* per attempt: where it is, and the locals of the loops
    key,         \* per key: what the store would do with a new request
    tx,          \* per attempt: its launch transaction on the cluster
    table,       \* per attempt: its lookup table transaction
    tableSlot,   \* per attempt: the slot in which that was executed
    slot         \* the slot of the cluster

vars == <<world, at, key, tx, table, tableSlot, slot>>
cluster == <<tx, table, tableSlot, slot>>

Waiting == {"table_confirm", "table_mark", "table_warm", "confirm"}
Calls == {"checks", "fetch_alt", "table_setup", "table_send", "build",
          "simulate", "send"} \union Waiting
TxStates == {"none", "inflight", "processed", "confirmed", "failing",
             "rejected", "expired"}

Kinds == {"ok", "in_doubt", "refused", "failed"}

AtRecords ==
    [pc : {"idle", "done"} \union Calls, tries : 0..RpcAttempts - 1,
     timer : 0..world.confirmTicks, mark : 0..world.slots, answer : {None} \union Kinds]

TypeOK ==
    /\ world \in Worlds
    /\ at \in [Attempts -> AtRecords]
    /\ key \in [Keys -> {"free", "busy", "done", "doubt"}]
    /\ tx \in [Attempts -> TxStates]
    /\ table \in [Attempts -> {"none", "inflight", "landed", "failed"}]
    /\ tableSlot \in [Attempts -> 0..world.slots]
    /\ slot \in 0..world.slots

Init ==
    /\ world \in Worlds
    /\ at = [a \in Attempts |-> [pc |-> "idle", tries |-> 0, timer |-> 0,
                                 mark |-> 0, answer |-> None]]
    /\ key = [k \in Keys |-> "free"]
    /\ tx = [a \in Attempts |-> "none"]
    /\ table = [a \in Attempts |-> "none"]
    /\ tableSlot = [a \in Attempts |-> 0]
    /\ slot = 0

\* Mutant: the seed of a call is random although it has a key.
RandomSeed(a) == a

\* deriveSolanaLaunchSeed(): the key decides the launch address, and every
\* call without a key has one of its own.
Seed(a) == IF KeyOf[a] = None THEN a ELSE KeyOf[a]

Rivals(a) == {q \in Attempts \ {a} : Seed(q) = Seed(a)}

\* launchAccountExists() on a node that answers: the launch account as of
\* commitment "confirmed".
AccountExists(a) == \E q \in Rivals(a) \union {a} : tx[q] = "confirmed"

Goto(a, where) == at' = [at EXCEPT ![a].pc = where, ![a].tries = 0]

\* The send returned: the deadline is set and the polling begins.
Poll(a, where) ==
    at' = [at EXCEPT ![a].pc = where, ![a].tries = 0, ![a].timer = world.confirmTicks]

\* Mutant: a call in doubt leaves its key free.
OutcomeForgetsDoubt(kind) == IF kind = "ok" THEN "done" ELSE "free"

\* execute() of the store files what createLaunch() returned or threw.
Outcome(kind) ==
    CASE kind = "ok" -> "done" [] kind = "in_doubt" -> "doubt" [] OTHER -> "free"

Answer(a, kind) ==
    /\ at' = [at EXCEPT ![a].pc = "done", ![a].answer = kind, ![a].tries = 0]
    /\ key' = IF KeyOf[a] = None THEN key
              ELSE [key EXCEPT ![KeyOf[a]] = Outcome(kind)]

Fail(a, kind) == Answer(a, kind) /\ UNCHANGED cluster
Step(a, where) == Goto(a, where) /\ UNCHANGED <<key, cluster>>

-----------------------------------------------------------------------------
(* One attempt *)

\* createLaunchWithIdempotency(): a key already answered is replayed by the
\* store and never gets here.
Begin(a) ==
    /\ at[a].pc = "idle" /\ a \in world.callers
    /\ Goto(a, "checks")
    /\ IF KeyOf[a] = None THEN key' = key
       ELSE /\ key[KeyOf[a]] = "free"
            /\ key' = [key EXCEPT ![KeyOf[a]] = "busy"]
    /\ UNCHANGED cluster

\* Everything up to the instruction: the request's rules and the price
\* (422), the readiness checks (503), the on-chain configuration.
Checks(a) ==
    /\ at[a].pc = "checks"
    /\ \/ Fail(a, "refused")
       \/ Step(a, IF world.alt THEN "fetch_alt" ELSE "table_setup")

FetchAlt(a) ==
    /\ at[a].pc = "fetch_alt"
    /\ Step(a, "build") \/ Fail(a, "refused")

\* getSlot, getLatestBlockhash and the signature of the setup transaction.
TableSetup(a) ==
    /\ at[a].pc = "table_setup"
    /\ Step(a, "table_send") \/ Fail(a, "failed")

TableReached(a) ==
    /\ table' = [table EXCEPT ![a] = "inflight"]
    /\ UNCHANGED <<tx, tableSlot, slot>>

TableSend(a) ==
    /\ at[a].pc = "table_send"
    /\ \/ Poll(a, "table_confirm") /\ UNCHANGED key /\ TableReached(a)
       \/ Fail(a, "failed")
       \/ world.ambiguous /\ Answer(a, "failed") /\ TableReached(a)

\* Mutant: the deadline is never compared with the clock.
NeverExpired(a) == FALSE

Expired(a) == at[a].timer = 0

TableConfirm(a) ==
    /\ at[a].pc = "table_confirm"
    /\ \/ table[a] = "landed" /\ Step(a, "table_mark")
       \/ table[a] = "failed" /\ Fail(a, "failed")
       \/ Expired(a) /\ Fail(a, "failed")

\* lookupTableSetupSlot: the slot read once the setup is confirmed.
TableMark(a) ==
    /\ at[a].pc = "table_mark"
    /\ \/ /\ at' = [at EXCEPT ![a].pc = "table_warm", ![a].tries = 0,
                              ![a].mark = slot]
          /\ UNCHANGED <<key, cluster>>
       \/ Expired(a) /\ Fail(a, "failed")

\* Mutant: the slot of the setup itself is late enough.
TableWarmTooSoon(a) ==
    /\ at[a].pc = "table_warm"
    /\ \/ slot >= at[a].mark /\ Step(a, "build")
       \/ Expired(a) /\ Fail(a, "failed")

\* A table can be used in a later slot than the one that extended it.
TableWarm(a) ==
    /\ at[a].pc = "table_warm"
    /\ \/ slot > at[a].mark /\ Step(a, "build")
       \/ Expired(a) /\ Fail(a, "failed")

\* buildSignedLaunchTransaction(), and again over a table of its own when
\* the configured table leaves the packet too large.
Build(a) ==
    /\ at[a].pc = "build"
    /\ \/ Step(a, "simulate")
       \/ world.large /\ world.alt /\ table[a] = "none" /\ Step(a, "table_setup")
       \/ Fail(a, "refused")

Simulate(a) ==
    /\ at[a].pc = "simulate"
    /\ \/ ~AccountExists(a) /\ Step(a, "send")
       \/ Fail(a, "refused")

Reached(a) ==
    /\ tx' = [tx EXCEPT ![a] = "inflight"]
    /\ UNCHANGED <<table, tableSlot, slot>>

\* sendTransaction(), whose preflight simulates once more.  What it throws
\* is a plain failure, whether or not the node took the transaction.
Send(a) ==
    /\ at[a].pc = "send"
    /\ \/ ~AccountExists(a) /\ Poll(a, "confirm") /\ UNCHANGED key /\ Reached(a)
       \/ Fail(a, "failed")
       \/ world.ambiguous /\ ~AccountExists(a) /\ Answer(a, "failed") /\ Reached(a)

\* throwIfSolanaSignatureRejected() and isSolanaSignatureConfirmed(): an
\* error counts at any commitment, a success at "confirmed".
RejectedStatus(a) == tx[a] \in {"failing", "rejected"}

ConfirmedStatus(a) == tx[a] = "confirmed"

ReadStatus(a) ==
    \/ RejectedStatus(a) /\ Fail(a, "failed")
    \/ ConfirmedStatus(a) /\ Fail(a, "ok")
    \/ /\ ~RejectedStatus(a) /\ ~ConfirmedStatus(a) /\ Expired(a)
       /\ AccountExists(a) /\ Fail(a, "ok")

\* Mutant: a status that cannot be read for long is a plain failure.
StatusUnreadableFails(a) ==
    \/ AccountExists(a) /\ Fail(a, "ok")
    \/ Expired(a) /\ Fail(a, "failed")

\* The status cannot be read: the launch account decides, and past the
\* deadline nobody knows.  A failing lookup counts as no account.
StatusUnreadable(a) ==
    \/ AccountExists(a) /\ Fail(a, "ok")
    \/ Expired(a) /\ Fail(a, "in_doubt")

Unresolved(a) ==
    /\ Expired(a)
    /\ ~RejectedStatus(a) /\ ~ConfirmedStatus(a)
    /\ Fail(a, "in_doubt")

Confirm(a) ==
    /\ at[a].pc = "confirm"
    /\ ReadStatus(a) \/ StatusUnreadable(a) \/ Unresolved(a)

\* withSolanaRpcRateLimitRetries(): HTTP 429 is tried again, up to a bound.
RateLimited(a) ==
    /\ at[a].pc \in Calls
    /\ at[a].tries + 1 < RpcAttempts
    /\ at' = [at EXCEPT ![a].tries = @ + 1]
    /\ UNCHANGED <<key, cluster>>

\* An answer that settles nothing, before the deadline: poll again.
PollAgain(a) ==
    /\ at[a].pc \in Waiting
    /\ ~Expired(a)
    /\ Goto(a, at[a].pc)
    /\ UNCHANGED <<key, cluster>>

Work(a) ==
    /\ UNCHANGED world
    /\ \/ Checks(a) \/ FetchAlt(a) \/ TableSetup(a) \/ TableSend(a)
       \/ TableConfirm(a) \/ TableMark(a) \/ TableWarm(a)
       \/ Build(a) \/ Simulate(a) \/ Send(a) \/ Confirm(a)

-----------------------------------------------------------------------------
(* The clock and the cluster *)

Tick ==
    /\ UNCHANGED world
    /\ \E a \in Attempts : at[a].timer > 0
    /\ at' = [a \in Attempts |->
                [at[a] EXCEPT !.timer = IF @ > 0 THEN @ - 1 ELSE 0]]
    /\ UNCHANGED <<key, cluster>>

NextSlot ==
    /\ slot < world.slots
    /\ slot' = slot + 1
    /\ UNCHANGED <<at, key, tx, table, tableSlot>>

ExecuteTable(a) ==
    /\ table[a] = "inflight"
    /\ \E result \in {"landed", "failed"} : table' = [table EXCEPT ![a] = result]
    /\ tableSlot' = [tableSlot EXCEPT ![a] = slot]
    /\ UNCHANGED <<at, key, tx, slot>>

\* initialize_launch creates the launch account, so it fails when another
\* transaction has; it may fail for other reasons.
Execute(a) ==
    /\ tx[a] = "inflight"
    /\ \/ /\ \A q \in Rivals(a) : tx[q] \notin {"processed", "confirmed"}
          /\ tx' = [tx EXCEPT ![a] = "processed"]
       \/ tx' = [tx EXCEPT ![a] = "failing"]
    /\ UNCHANGED <<at, key, table, tableSlot, slot>>

\* The blockhash of a transaction that nobody executed is too old.
Expire(a) ==
    /\ tx[a] = "inflight"
    /\ tx' = [tx EXCEPT ![a] = "expired"]
    /\ UNCHANGED <<at, key, table, tableSlot, slot>>

\* The cluster votes on its latest block: for it, or for another fork.
Settled(state) ==
    CASE state = "processed" -> "confirmed" [] state = "failing" -> "rejected"
      [] OTHER -> state

Dropped(state) == IF state \in {"processed", "failing"} THEN "inflight" ELSE state

Vote ==
    /\ \/ tx' = [a \in Attempts |-> Settled(tx[a])]
       \/ world.forks /\ tx' = [a \in Attempts |-> Dropped(tx[a])]
    /\ tx' # tx
    /\ UNCHANGED <<at, key, table, tableSlot, slot>>

Cluster == NextSlot \/ Vote \/ \E a \in Attempts : ExecuteTable(a) \/ Execute(a) \/ Expire(a)

Next ==
    \/ Tick \/ \E a \in Attempts : Work(a)
    \/ UNCHANGED world /\ Cluster
    \/ UNCHANGED world /\ \E a \in Attempts : Begin(a) \/ RateLimited(a) \/ PollAgain(a)

\* Every RPC call ends (the HTTP client has a timeout of its own), time goes
\* on, and nothing is asked of the cluster.
Fairness == WF_vars(Tick) /\ \A a \in Attempts : WF_vars(Work(a))

Spec == Init /\ [][Next]_vars /\ Fairness

-----------------------------------------------------------------------------
(* Properties *)

\* Whatever is retried after whatever failed, the attempts of one key make
\* at most one launch: they all aim at the address of the key.
OneLaunchPerKey ==
    \A a, q \in Attempts :
        /\ a # q /\ KeyOf[a] # None /\ KeyOf[a] = KeyOf[q]
        => ~({tx[a], tx[q]} \subseteq {"processed", "confirmed"})

\* An attempt answered with a plain error has made no launch and has none
\* on its way, so its key may be used again.
FailedIsFinal ==
    \A a \in Attempts :
        at[a].answer \in {"refused", "failed"}
        => tx[a] \notin {"inflight", "processed", "confirmed"}

\* A launch that may exist closes its key, unless it was answered with a
\* plain error: no second attempt runs beside the first.
LiveLaunchHoldsItsKey ==
    \A a \in Attempts :
        /\ KeyOf[a] # None /\ at[a].answer \notin {"refused", "failed"}
        /\ tx[a] \in {"inflight", "processed", "confirmed"}
        => key[KeyOf[a]] # "free"

\* A launch is built over a table of its own only when that table can be
\* used: executed, in a slot that is over.
OwnTableIsWarm ==
    \A a \in Attempts :
        at[a].pc \in {"build", "simulate", "send", "confirm"} /\ table[a] # "none"
        => table[a] = "landed" /\ slot > tableSlot[a]

\* Every attempt is answered, whatever the RPC node and the cluster do.
AttemptsEnd == \A a \in Attempts : at[a].pc = "checks" ~> at[a].pc = "done"

\* On a cluster without forks, with sends that fail only when they failed,
\* the service keeps the promise of SolanaContract: success names the
\* transaction that made the launch, and an attempt that failed makes none.
\* Of any other world it promises nothing.
Promised == ~world.ambiguous /\ ~world.forks

Closed(a) ==
    \/ tx[a] \in {"rejected", "expired", "failing"}
    \/ tx[a] = "none" /\ at[a].pc = "done"

Owners(s) == {a \in Attempts : Promised /\ Seed(a) = s /\ tx[a] \in {"processed", "confirmed"}}
OwnerOf(s) == IF Owners(s) = {} THEN None ELSE CHOOSE a \in Owners(s) : TRUE

Promise == INSTANCE SolanaContract WITH
    Attempts <- Attempts,
    None <- None,
    Seeds <- {Seed(a) : a \in Attempts},
    SeedOf <- [a \in Attempts |-> Seed(a)],
    owner <- [s \in {Seed(a) : a \in Attempts} |-> OwnerOf(s)],
    closed <- {a \in Attempts : Promised /\ Closed(a)},
    answer <- [a \in Attempts |-> IF Promised THEN at[a].answer ELSE None]

KeepsPromise == Promise!Spec

=============================================================================
