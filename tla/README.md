# Verification of the Doppler launch API

The Doppler API is a Fastify service that launches tokens on EVM chains and on
Solana. A launch is irreversible and costs money, so most of the hard code of
the service answers one question safely: *has this launch already been
submitted?* This project models that code, and what surrounds it from the start
of a process to the status of a mined launch, in TLA+; it is checked with TLC on
small instances, and every invariant, action property and refinement is also proved
with TLAPS, for every value of the constants.

Paths below are relative to `src/` of the service.

## 1. The system

| Component | Source | State it keeps | Operations | Talks to |
|---|---|---|---|---|
| File idempotency store | `infra/idempotency/store.ts` 281-454 | map of records, the JSON file, actions in flight | `execute`, `load`, `persist`, `pruneExpired` | file system, the launch action |
| Redis idempotency store | same file, 456-786 | record and lock in Redis, in-flight map per replica | `execute`, `executeWithLock`, `waitForRecordOrUnlock`, heartbeat | Redis, the launch action |
| Transaction submitter | `infra/tx/submitter.ts` | FIFO queue per chain, nonce lock in Redis, lock health | `submitContractTx` and its locks | Redis, EVM RPC |
| Launch service | `modules/launches/service.ts`, policies | none | `createLaunch…`, `createLaunchWithIdempotency` | store, auction services, Solana service |
| EVM auction services | `modules/auctions/{static,multicurve,dynamic}` | none | resolve, price, simulate, submit | SDK, pricing, submitter |
| Sale and fee mathematics | `modules/auctions/multicurve/mapper.ts`, `tick-spacing.ts` | none | allocations, beneficiaries, spacings | - |
| EVM request schemas | `modules/launches/schema.ts`, `modules/auctions/*/schema.ts` | none | parse, refine | - |
| SDK client, collision translation | `infra/doppler/sdk-client.ts` | client cache | client construction, revert translation | SDK, RPC |
| Solana launch service | `modules/launches/solana.ts`, `solana-schema.ts`, `solana-assembly.ts` | none (a key decides the launch address) | parse, price, build, simulate, send, confirm, readiness | Solana RPC |
| Lookup table, RPC client | `modules/launches/solana-rpc.ts` | none | create and extend the table, wait, retry on 429 | Solana RPC |
| Status service | `modules/status/service.ts` | none; its clients keep block numbers | `getLaunchStatus` | EVM RPC |
| Pricing | `modules/pricing/` | price cache | resolve, fetch | CoinGecko |
| Configuration and start-up | `core/config.ts`, `app/server.ts` | the services | `loadConfig`, `buildServices`, `buildServer` | environment, Redis |
| Chain registry | `infra/chain/registry.ts` | one client per chain, with its cache of the block number | lookup | RPC |
| HTTP shell | `app/`, `core/` | counters, rate limits | auth, routing, health, errors | everything |

A request enters through the HTTP shell, is routed by the launch service, and
(when it carries an `Idempotency-Key`) runs as the *action* of the store's
`execute`; its body is parsed inside the action. The EVM action ends in the
submitter, the Solana action in its own confirmation loop. Store and submitter
meet only through the errors that the submitter throws: `IDEMPOTENCY_KEY_IN_DOUBT`
makes the store keep the key, anything else makes it free it. Everything rests on
a configuration that `loadConfig` has checked.

### What is hard

* **Interleaving.** Replicas race on Redis between any two commands; inside a
  process every `await` lets other requests run; the chain moves between two
  reads of one status call.
* **Failure in the middle.** A write of the store may fail before or after the
  irreversible step; a Redis reply may be lost after the command was applied; an
  RPC answer may be lost after the transaction was accepted.
* **Crash and restart** between the in-progress record and the final one.
* **Leases and deadlines.** Locks and records expire while their owner still
  works; lookup tables and confirmations are polled against a deadline.
* **Stale values**: a record read before a lock is taken, a nonce read before a
  broadcast, a salt simulated before another launch takes it, a price fetched
  before a newer one, an on-chain configuration read twice, a block number that a
  client of the chain has kept.
* **Boundaries**: supplies and shares that must add up exactly on every path,
  defaults that count in comparisons, spacings that must divide every tick.

### What makes each component correct

* Stores: at most one launch per key within the record's lifetime; nothing that
  was launched is forgotten; an answer is about the launch it names; everyone
  admitted is answered.
* Submitter: nonces are not shared; a returned hash stands; an ambiguous broadcast
  keeps the lock; nobody waits for ever.
* Launch pipeline: what reaches the chain is allowed; a plain error leaves nothing
  behind; a pending launch is not sent again.
* Solana: one launch per key whatever is retried; success names the transaction
  that made the launch; doubt is never reported as rejection.
* Status: a final answer fits the chain, names the right pool and, from one server,
  never goes back.
* Pricing: a cached price is younger than its TTL and of the right asset.
* Terms: what is documented is accepted and nothing else; supplies are spent, fees
  are whole.
* Start-up: replicas that share traffic share what coordinates them; "ready" is
  said only of dependencies that were up when the answer could come from them.

## 2. Plan and state

The order follows the irreversible step: first the code that decides whether a
transaction may be sent again, then what surrounds it.

| # | Module | Subject | Model | Proofs |
|---|---|---|---|---|
| 1 | `IdempotencyContract` | what any store promises to the callers of `execute` | done | with 2 and 3 |
| 2 | `FileIdempotencyStore` | the file store, shown to implement 1 | done | `FileIdempotencyStoreProofs` |
| 3 | `RedisIdempotencyStore` | the Redis store of several replicas | done | `RedisIdempotencyStoreProofs` |
| 4 | `TxSubmitter` | queue, nonce lock, broadcast | done | `TxSubmitterProofs` |
| 5 | `LaunchPipeline` | routes, rules, policies, simulation, submission, with stores and submitter as what 2-4 show of them | done | `LaunchPipelineProofs` |
| 6 | `SolanaContract`, `SolanaLaunch` | attempts, lookup table, send and confirmation on a cluster with forks | done | `SolanaLaunchProofs` |
| 7 | `LaunchStatus` | answers about a chain that moves while the RPC fails | done | `ReadServicesProofs` |
| 8 | `PricingCache` | overlapping fetches | done | `ReadServicesProofs` |
| 9 | `AuctionRequest`, `SaleTerms`, `CurveTerms`, `AuctionTerms` | from the body of an EVM request to the SDK's builder | done | `LaunchPipelineProofs` |
| 10 | `SolanaRequest` | from the body of a Solana request to the terms of the launch | done | `SolanaLaunchProofs` |
| 11 | `DeploymentConfig`, `Readiness` | a process from its environment to its probes | done | `ReadinessProofs` |
| - | `Fields` | absent fields, defaults and sums, shared by 9 and 10 | done | `FieldsProofs` |

Compositions: `AuctionTerms` is `SaleTerms` followed by `CurveTerms` over the state
of `AuctionRequest`; `Readiness` continues `DeploymentConfig`. Refinements:
`FileIdempotencyStore` implements `IdempotencyContract` (`KeepsContract`),
`RedisIdempotencyStore` implements it until one of its windows opens (`KeepsContract`
there), and `SolanaLaunch` implements `SolanaContract` (`KeepsPromise`); all three are
proved step by step.

## 3. The modules

### `FileIdempotencyStore` and `IdempotencyContract`

JavaScript runs the code between two awaits without interruption, so `execute`
is three steps: the code up to `await promise` (`PruneThrows`, `Join`,
`FromRecord`, `Start`, `StartThrows`: the early returns of the code, in its
order), the launch itself (`Land`), and the continuation (`Complete`,
`CompleteThrows`, `Doubt`, `Reject`: its `try`, its `catch` and its `finally`).
`records` is the map in memory, `disk` the file, `inFlight` the map of promises.
`persist` throws or writes the whole map: a temporary file renamed over the old
one. `Crash` empties memory and loses the requests that wait; `Restart` is the
constructor with `load` and `pruneExpired`. `launch` and `startedAt` are what the
world knows of a launch, which the code does not.

`IdempotencyContract` has no records, files or crashes: it says when a launch may
be started (every other that may have an effect is more than one TTL old), what a
request may be told, once and only after it has been `asked`, and that a launch of
which a caller was told is not rejected any more. `KeepsContract` checks that each
step of the code is a step of the contract or changes nothing that it sees. The
contract ends with what callers build on it, `LaunchesAreApart` and
`AnswersStayTrue`; a theorem derives both from the contract alone.

### `RedisIdempotencyStore`

Each Redis command of a replica is a step, together with what the replica does
with the reply up to its next await. `pc` is the next command: `new`/`read` the
`GET` at the head of the loop of `execute`, `acquire` the `SET NX`, `pollRecord`
and `pollLock` the two reads of `waitForRecordOrUnlock`, `afterWait` the read that
follows it, `writeProgress` ... `release` those of `executeWithLock`. Any command
may fail, having been applied or not; a lost reply to `SET NX` leaves a lock that
nobody knows to hold. A promise stays in `inFlight` after it has settled, until
its owner has written the record: who meets it then is answered at once
(`PromiseAnswer`). `windows` is a history variable: it records that a lock
lapsed while its holder ran, that a record expired, or that a lock was taken
although a record had appeared. Keys do not interact in Redis, so one key is
enough.

Its `Contract` is `IdempotencyContract` for that key. The store reads no clock, so the
contract's stands still and a launch excludes every later one; a client whose replica
died has got an error that says nothing (`store_error`). `KeepsContract` demands a step
of the contract of every step after which no window is open.

### `TxSubmitter`

`Submit`, `Enter` and `LeaveQueue` are `withChainLock`; `Acquire`,
`HeartbeatFails`, `Verify`, `VerifyFails` and `Release` are
`withDistributedNonceLock`; `ReadNonce`, `RpcFails`, `Prepare` and `Send` are
`submitContractTx`. `healthy` is `lockHealthy`. The network is `tx`: a transaction
whose reply was lost may be under way (`transit`) and be accepted later, by
`Deliver`. `Send` is the whole classification of broadcast errors: an ambiguous
one says nothing of the transaction, any other means that it was refused.
`windows` again records what weakens the protection: a lock that lapsed during
the broadcast, or while a doubtful transaction was under way; a doubtful
transaction without Redis; a stale nonce from a lagging node.

### `LaunchPipeline`

A request is a record: its body, the rule it is at, its salt and its answer.
`Begin` and `NoKey` are `createLaunchWithIdempotency`; `Rules` lists the checks of
each auction service in the order of its code, and `Rule` takes them one at a time,
so that what was called before a refusal is visible (`called`); `Build` is the SDK's
builder, `SdkSimulate` and `Simulate` the two simulations on the pending state,
`Translate` the collision translation, `Submit` the submitter seen from above. The
store is `key`: free, busy, done or in doubt. The chain is `tx`, with transactions
that arrive late, are mined, reverted or dropped; salts are what the SDK mines, and
`foreign` the ones whose address belongs to somebody else. The same module is used
with two kinds of traffic: single requests of any shape over restrictive
deployments, and equal requests that race.

### `SolanaLaunch` and `SolanaContract`

An attempt is one call of `createLaunch`. `Begin` and `Answer` are the store;
`Checks` ... `Build` lead to the transaction, over the configured lookup table or
through `TableSetup`, `TableSend`, `TableConfirm`, `TableMark` and `TableWarm`, which are
`createLaunchSpecificLookupTable`; `Simulate`, `Send` and `Confirm` are the rest of
`createLaunch`. `RateLimited` is the retry on 429, `PollAgain` a poll that settles
nothing; `timer` is the deadline. The cluster executes, expires, confirms and rolls
back transactions (`Execute`, `Expire`, `Vote`), and `NextSlot` is its clock. `Worlds`
says what may go wrong: sends that throw although they arrived, forks, transactions
that do not fit. `Seed` is what decides the launch address.

`SolanaContract` knows only which attempt made the launch of an address, which
attempts can no longer make one, and what each was told. `KeepsPromise` maps the
detailed state to it where the service can keep the promise: on a cluster without
forks, with sends that fail only when they failed.

### `LaunchStatus`

A client polls one transaction. `Ask` parses the id; `Receipt`, `Lookup` (with its two
attempts), `Head`, `Create` (with `TxAttempts`), `Sdk` and `Hook` are the reads of
`getLaunchStatus` and of `resolvePoolIdFromCreateTx`, each at its own moment of a
chain that submits, mines, drops and reorganises (`Submit`, `Grow`, `Drop`, `Reorg`).
`kind` is what the transaction does, by initializer, and a pool id is what it was
derived from.

A process has one client per chain (`registry.ts:72-75`) for all statuses and for
`GET /ready`, and viem makes the calls of one client share. `getBlockNumber` keeps its
number for `cacheTime`, which is the polling interval of 4 s as the registry sets
neither (`kept`, `Latest`, `HeadExpires`), and callers that find none join the request
on its way; `getTransactionReceipt` joins a request for the same receipt (`wanted`,
`Seen`). `Servers` are the replicas, and a call goes to any of them. `OthersReadHead`
and `OthersWantReceipt` are the other calls of a busy one. So the number that a
call subtracts from may be older than the receipt, and nothing checks the difference.
An answer carries whether its call asked the node itself (`own`) and who gave it
(`from`), which the properties need: from a receipt and a number of its own,
confirmations count from one; on one server nothing goes back, because what its client
keeps is never behind what it has answered; across servers, an answer of a call's own
does not go back either. No answer ever claims more confirmations than there are.

### `PricingCache`

`AskPrice` is the code of the service up to the call of the provider: override, cache,
support of the numeraire; `Look` is the moment at which the provider reads the
market, `Receive` the continuation after the fetch, `FetchFails` the errors and the
timer. A price is its asset and the moment of its market; the entry expires a TTL
after the moment at which the *request* read the clock.

### `AuctionTerms` and its parts

One EVM body runs through `Parse` (the schemas), `ResolveSaleNumbers`,
`ResolveAllocationPlan`, `NormalizeFeeBeneficiaries` (`SaleTerms`), then one of `Preset`,
`Ranges`, `Static`, `Dynamic` and, for multicurve auctions, `Initializer`
(`CurveTerms`). `plan` is what the builder is given. The tick spacings follow
`tick-spacing.ts` with its greatest common divisor, and are compared with a
definition that has none: the largest spacing that divides. `Typed` is what the schemas
say of single fields (an amount is a number, a list is a list), which the bodies of an
instance must satisfy; `InBounds` is the bounds that the reference gives of them, which
`WellFormed` and the documentation both name. Sums and absent fields are in `Fields`,
written as recursive functions because the proofs need them to be.

### `SolanaRequest`

`Parse` is `solana-schema.ts` with its error mapping; `Rules`, `Price`, `Curve`,
`Readiness`, `Fetch`, `Fees` and `Gate` are `createLaunch` in its order, up to the
instruction. `Reconfigure` is the administrator of the on-chain account, who may act
between any two of them. The ratio of the market caps is a perfect square, so that
the curve's check is exact.

### `DeploymentConfig` and `Readiness`

`Load` is `loadConfig`: `ConfigOf` with its defaults, and `Checks` in their order; an
environment variable is absent, garbage or a value. `Build` and `Serve` are
`buildServices` and `buildServer`, which look again at some of it and at the world:
the idempotency file, Redis. A list of checks that is `Passed` has none that failed, and
`FirstFailed` is the one that stops the process. `Readiness` goes on from there: `Begin` asks every chain,
`ChainAnswers`, `ChainFails` and `ChainTimesOut` settle them, `AskSolana` and
`SolanaCheck` are `getReadiness`, `Reply` is the answer. `health` of a dependency
changes at any time; it is that of its answers as they arrive, the network included.
The probe shares the clients of the chains with every status: `Begin` lets a chain pass
whose block number is `Kept` (for `CacheTime` after it came), and `ChainAnswers` stands
also for the answer to another request, which a probe joins. `lastUp` says how long a
chain has been away, so that `ReadyIsEarned` can grant that time and no more.

## 4. The runs

| Run | Question | Instance |
|---|---|---|
| `FileStore` | no second launch within the TTL, none forgotten, the contract kept (true answers, each once), everyone admitted is answered | 3 requests of one key, 2 payloads, clock 0..3 with TTL 1, 2 failing writes, 1 crash |
| `RedisStore` | a second launch needs a window, none is forgotten, answers name their launch, the contract kept until a window opens, everyone is answered | 3 requests, 2 payloads, 2 replicas, any 1 mishap |
| `Submitter` | nonces apart, hashes stand, doubt keeps the lock, everyone gets through | 3 requests, 2 replicas, any 1 mishap |
| `LaunchPipeline` | permitted launches only, policies first, one launch per key, errors leave nothing, salts not reused | every body with at most one flaw over 6 deployments; 3 racing launches, 2 under one key, over 2 salts |
| `SolanaLaunch` | one launch per key, the key held, warm tables, the contract, everyone answered | 4 worlds of up to 3 attempts, 2 tries per call, deadline of 2 ticks, 2 slots |
| `LaunchStatus` | answers fit the chain, name the pool, go forward, and come | 1 client polling, 2 servers, one of them with other calls, 12 kinds of transaction, 2 blocks, 3 attempts |
| `PricingCache` | young and fitting prices | 2 requests, 2 chains, 1 token, 2 assets, TTL 3, timeout 2, clock 0..6 |
| `AuctionTerms` | spent supplies, whole fees, largest spacings, exactly the documented requests | seven families of bodies at the boundaries of every rule |
| `SolanaRequest` | exactly the documented requests, routed fees | bodies at the boundaries of every rule, two routes, all price sources |
| `Process` | coordination, a documented process starts, earned and answered probes | all combinations within each group of settings; 2 chains and Solana, block numbers kept for 1 tick |
| `RedisStoreStaleRead` | (violated) at most one launch | 2 requests, 2 replicas, no fault |
| `SolanaAmbiguous` | (violated) a plain failure is final | 1 attempt |

**Bounds.** The dangerous schedules of a store need two launches and an observer,
hence three requests; a clock of three TTLs lets a record expire, be written again
and expire again; two failing writes reach the second failure inside one `catch`.
`MaxMishaps` limits the *sum* of failing commands, lapses, expiries and crashes in
the Redis store and the submitter, where liveness is expensive; the theorems of
section 5 remove this bound, and the number of requests, keys and replicas, for
their safety properties, so that only the liveness properties of these two rest on
it. Several keys in one file and a submitter without
Redis are also covered by the theorems. In the same way the pipeline and the status service are proved for any number of
requests, salts, blocks and attempts. The three attempts at the create
transaction stand for twelve, and deadlines are as long as is needed to tell "before"
from "after". Two blocks are enough for a receipt newer than a kept number by one or
two, for a further confirmation and for a reorganisation, and a second server with no
calls but the client's for two caches of different age. Bodies are enumerated in
families: the fields that a rule relates vary
together and the others stay sound; amounts are small and a WAD is 20 units, the
least in which a twentieth exists; ticks, fees and spacings have their real sizes.
`Probed` limits the environments whose probes are followed, since no other setting is
read by them.

In most runs the requests are finite in number, so that the system may stop, and
deadlock is not checked; it is checked in `LaunchStatus`, whose client polls for ever.

**Fairness.** Weak fairness is assumed of the steps of a request that has begun, of
the expiry of locks that nobody refreshes and of timers; never of faults, lapses,
crashes, restarts, chains or dependencies. RPC calls have the timeouts of their
transport, the Redis client gives up a command after its retries, the confirmation
loops have deadlines, and Redis expires keys by itself. `SolanaLaunch`: the clock and
the steps of an attempt. `LaunchStatus`: the steps of a call. `Process`: the start, the
timers and the steps of the handler; an answer of Solana's node only if the node
answers at all. `PricingCache`, `LaunchPipeline` and the two on terms have safety
properties only. Weak fairness of acquisition is enough for `EverySubmissionSettles`
because requests are finite; the code polls and gives no order between replicas, so
an endless stream of requests on one replica could starve another.

### Disagreements found

With a run that shows them:

* `RedisStoreStaleRead`: `execute` reads the record, then takes the lock, and does
  not read again. If another replica finishes its launch and releases the lock in
  between, the action runs twice, with no fault at all (`store.ts:772`; the unit
  test *redis backend dedupes in-flight requests across store instances*
  expects one execution).
* `SolanaAmbiguous`: whatever the send throws is answered as a plain failure, while
  the transaction may have arrived and the launch appear (`solana.ts:890`, against
  `README.md:152`). `OneLaunchPerKey` shows why this does not lead to two launches
  under one key: all attempts aim at one address.

Seen in the same models, without a run of their own:

* When the write of the in-progress record fails, the action never starts, but the
  file store keeps the record in memory and tells retries that a transaction may have
  been submitted (`store.ts:396`, `docs/errors.md:118`).
* When the write of an in-doubt record to Redis fails, its error replaces the one that
  names the transaction (`store.ts:686`, `docs/errors.md:124`); the key stays closed.
* `confirmations` has a minimum of 0 in `docs/openapi.yaml:1780`. It is the block number
  minus that of the receipt plus one, and a kept number (`status/service.ts:320`) may be
  more than one block older: then it is negative. It may also be lower than another
  replica has said. `AnswersFitTheChain` and `StatusGoesForward` except both.
* A probe may be answered with a block number of up to 4 s before
  (`ready.get.ts:30`), so that a chain which has just failed is still ready, where
  `docs/api-reference.md:447` says that each RPC is checked.
* A status call whose lookup fails says `not_found` (`status/service.ts:307`,
  `docs/api-reference.md:407`), and unguarded reads end in a 500 where the reference
  has a 502 (`status/service.ts:320`, `docs/api-reference.md:411`).
* An integer string of a Solana request that is no decimal number makes a refinement
  throw, and the answer is a 500 (`solana-schema.ts:32`, `docs/errors.md:28`).
* A Solana launch without a price is refused under two codes, depending on where the
  price was expected from (`solana.ts:455`, `docs/errors.md:76`).
* Readiness answers carry the text of provider errors (`ready.get.ts:56`,
  `docs/errors.md:138`).

And what the proofs taught of the models themselves. `AcceptsWhatIsDocumented` of Solana
requests is false of amounts beyond 64 bits, which the small instance does not have: the
schema bounds them (`docs/api-reference.md:366`, `383`), so the bound is now part of the
documentation. That of EVM requests compared an auction's
duration with at most a hundred epochs, a bound of the instance that stood in the
definition; `IsMultiple` has none. `Readiness` needs that no answer is "ready" before
there is one.

## 5. The proofs

All are checked by TLAPS for any number of requests, keys and replicas and any
values of the bounds. They rest on the named `ASSUME`s, each as weak as the code
justifies:

* the null value is not a request, a record or an answer, and bounds are natural
  numbers; no answer of a probe is not "ready" (`ReadinessAssumption`);
* bodies, environments and deployments have fields of their types, which are those of
  the schemas and of `loadConfig` (`InputsAssumption`, `BodiesAssumption`,
  `CasesAssumption`, `EnvAssumption`);
* the SDK's tables are what they are called: every fee tier has a positive spacing,
  every preset two ticks, and the default duration is made of default epochs
  (`CurveAssumption`, `TermsAssumption`);
* several replicas imply Redis (`DeploymentAssumption`), which
  `SharedProcessesAreCoordinated` proves of what `loadConfig` accepts.

| Theorem | Property |
|---|---|
| `FileIdempotencyStoreProofs!NoSecondLaunch` | `AtMostOneLaunchPerTtl` |
| `FileIdempotencyStoreProofs!LaunchesRemembered` | `LaunchRememberedOnDisk` |
| `FileIdempotencyStoreProofs!ImplementsContract` | `KeepsContract` |
| `FileIdempotencyStoreProofs!ContractProtectsCallers` | `LaunchesAreApart`, `AnswersStayTrue` of the contract |
| `FileIdempotencyStoreProofs!AnswersAreHonest` | `AnswersStayTrue`, of the file store |
| `RedisIdempotencyStoreProofs!NoSecondLaunch` | `SecondLaunchNeedsWindow` |
| `RedisIdempotencyStoreProofs!LaunchesRemembered` | `LaunchRemembered` |
| `RedisIdempotencyStoreProofs!AnswersAreHonest` | `AnswersNameTheirLaunch` |
| `RedisIdempotencyStoreProofs!ImplementsContract` | `KeepsContract` (Redis) |
| `TxSubmitterProofs!NoncesNeverShared` | `NoncesApart` |
| `TxSubmitterProofs!HashesNeverReplaced` | `HashesStand` |
| `TxSubmitterProofs!DoubtNeverUnlocked` | `DoubtKeepsLock` |
| `LaunchPipelineProofs!KeysLaunchOnce` | `OneLaunchPerKey` |
| `LaunchPipelineProofs!ErrorsSendNothing` | `FailuresLeaveNothing` |
| `LaunchPipelineProofs!SentWasPermitted` | `SubmittedWasPermitted` |
| `LaunchPipelineProofs!PoliciesComeFirst` | `PolicyFailsFast` |
| `LaunchPipelineProofs!PendingIsNotResubmitted` | `NoResubmission` |
| `LaunchPipelineProofs!SuppliesAreSpent` | `SupplyIsSpent` |
| `LaunchPipelineProofs!FeesMakeOneWhole` | `FeesAreWhole` |
| `LaunchPipelineProofs!PresetSpacingsAreLargest` | `SpacingIsLargest` |
| `LaunchPipelineProofs!RequestsAreBuiltAsDocumented` | `AcceptsWhatIsDocumented` (EVM) |
| `SolanaLaunchProofs!LaunchesOnce` | `OneLaunchPerKey` |
| `SolanaLaunchProofs!KeysStayClosed` | `LiveLaunchHoldsItsKey` |
| `SolanaLaunchProofs!TablesAreWarm` | `OwnTableIsWarm` |
| `SolanaLaunchProofs!ImplementsContract` | `KeepsPromise` |
| `SolanaLaunchProofs!RequestsAreAcceptedAsDocumented` | `AcceptsWhatIsDocumented` (Solana) |
| `SolanaLaunchProofs!FeesGoWhereTheyMay` | `FeesAreRouted` |
| `ReadServicesProofs!AnswersFit` | `AnswersFitTheChain` |
| `ReadServicesProofs!PoolsAreNamed` | `ConfirmedNamesItsPool` |
| `ReadServicesProofs!StatusIsNotTakenBack` | `StatusGoesForward` |
| `ReadServicesProofs!PricesStayYoung` | `CachedPricesAreYoung` |
| `ReadServicesProofs!PricesFit` | `PricesFitTheRequest` |
| `ReadinessProofs!SharedProcessesAreCoordinated` | `SharedIsCoordinated` |
| `ReadinessProofs!ReadyAnswersAreEarned` | `ReadyIsEarned` |
| `TypeCorrect` of each component, `PricesTypeCorrect` | `TypeOK`, `PricingTypeOK` |

* **File store, `ProtectionInv`.** "No two launches" says nothing of the records
  that prevent the second one. The invariant adds that memory (while the process
  is up) and the file *cover* every launch younger than the TTL with a record no
  older than it, that the request in flight of a key is its newest launch, and
  that requests that have not started have launched nothing. A launch can then
  only start where no cover is, that is where every other is too old.
* **File store's contract, `ContractInv`.** The contract starts a launch only where the
  protection above lets the code start one, so that part of the simulation is the
  invariant of the store. For the answers it adds that records and answers are honest
  (each names a launch of its own key and payload that landed, or may have), that what
  `inFlight` holds is a running action of that key, and that waiters carry the payload
  of the action they wait for. A request that joins a running action is for the contract
  only one more that was asked. `Crash` and `Restart` are stutters of it, and so is
  what failing writes do to the file.
* **The contract, `CallersInv`.** No launch starts in the future, launches that may have
  an effect are apart, and what was told is true. An answer that names a launch could
  become false only by a rejection, which the contract excludes of a launch that was
  named before, and of one that is named in the same step (`Allowed` speaks of the
  launches after the step).
* **Redis store, `WindowInv`.** While no window has opened, whoever is inside
  `executeWithLock` owns the lock in Redis; before it writes its record nothing
  live exists under the key; and every live launch has a record unless it is its
  own holder that is about to write. Deleting a record is then harmless: the
  only one who may do it launched nothing. `HonestInv` says that the record, the
  outcome of a holder and every answer name launches of their payload which nothing
  can reject any more; this holds with every window open.
* **Redis store's contract, `ContractInv`.** What a holder is about to answer is already
  what the contract allows (`OutcomesFit`); what is in flight has a launch. A mismatch
  may be answered only of a payload that was asked, and a doubt without details only of
  one that the store has dealt with, so every lock comes from a request that was asked,
  and every record from one that was answered or launched, or is about to be, still
  inside the lock (`RecordIsKnown`). Whoever waits beside a record waits for such a
  request (`WaitsForKnown`); once the lock is gone, and no lapse has taken it, that
  request has left, with an answer or a launch (`OrphansAreSeen`), which is why the
  doubt of a stale `in_progress` record is justified.
* **Submitter, `ActiveIsHead` and `NonceInv`.** Whoever is past the queue is at
  its head, so that without Redis at most one request is inside. While no window
  has opened, only an *owner* (of the lock in Redis; without Redis, of the queue)
  has a transaction about to be sent or under way, and the nonce that an owner has
  read is not that of any broadcast transaction. Owners are unique, hence nonces
  differ, nothing is replaced, and a doubtful transaction is covered by the lock.
* **Pipeline, `ProgressInv`, `KeyInv`, `BeforeInv`.** Every step of a request is
  reduced to what it may change (`Effect`). `ProgressInv` says of each request what
  it has passed: the rules before the one it is at are kept, the launch it built is a
  permitted one, it has called nobody before the policies, and it has a transaction
  only while it is answered with success or doubt. `KeyInv` ties a key to the one
  request that runs under it, and to the one that sent a transaction. `BeforeInv` says
  that no live transaction which the last simulation saw pending has the salt that
  this request will send.
* **Solana, `KeyInv` and `TableInv`.** Every step of an attempt is first reduced to
  its *effect* (`WorkEffect`): it stays inside its calls or ends with an answer that
  sets its key, and may send its transaction or its table. A running attempt holds
  its key as busy and is the only one of the key, an attempt that ended well or in
  doubt has closed it, and one that has not begun has sent nothing. A table is
  executed no later than the slot that its attempt marked, and used in a later one.
  That the address is taken once is kept by the cluster alone. For the contract,
  `PromiseInv` adds, of the worlds in which the promise is made, that an attempt
  answered with a plain error has no transaction that may still create a launch, and
  that of one address only one attempt has. An attempt that finds the account of its
  launch has therefore made it itself (`NoRivals`), which is what success claims.
* **Status, `CallInv`.** Each read of a call may happen in another state of the chain;
  the invariant is what survives between them. Until the chain reorganises, the
  transaction whose receipt was read, or is on its way, stays mined in its block, no
  depth that was read exceeds the present one, and no depth is less than what the client
  was told before by that server. The last needs `ServerOk`: what the client of a server
  keeps or waits for has reached (`Reached`) what that server has answered.
* **Pricing, `EntryInv`.** An entry that may be served expires a TTL after a moment
  no later than its market's, because the request reads the clock before the fetch:
  whichever of two answers is stored last, it carries its own expiry.

* **EVM terms, `TermsInv` and `DecisionInv`.** `TermsInv` says, stage by stage, what the
  plan of a request has by then: a division of the supply, shares that make one whole
  with the owner among them, a largest spacing. `DecisionInv` says what the request
  itself has: at each stage, everything that is documented of the parts already looked
  at, and, of a request that was refused, that something documented is missing. The
  lemmas below them are about one part each. A list of ranges that meet end to start
  covers every cap between its ends once, and a list that does so meets
  (`ChainedRangesPartition`, `PartitionsAreChained`). The loop of `tick-spacing.ts`
  keeps the common divisors of its ticks (`EuclidStep`, `GcdManyDivisors`), so that the
  largest divisor of its result under the limit is the largest common one. The second
  look at the allocations refuses nothing (`AllocationsNeverRefuse`).
* **Solana terms, `RequestInv`.** By stages again: what a stage let pass is what the
  documentation says of its part, and a refusal that is not of the chain's has a cause
  in the text (`RefusalsHaveACause`). The administrator may reconfigure between any two
  stages; the shares that are built (`Routed`) are held to the configuration that the
  request fetched, not to the present one.
* **Start, `StartInv`.** What a stage of the start has passed holds of the configuration
  it made; the list of `loadConfig`'s checks is taken apart by its pieces
  (`PassedInParts`), so that no check needs its index.
* **Readiness, `AgeInv` and `HandlerInv`.** A chain whose number is kept was up no longer
  ago than the number's age. While the handler works, a chain that passed and a Solana
  check that passed were up since their answer could come from them; `seenUp` only grows
  until the reply, which is "ready" only if all of them passed.

Sums, lists and Euclid's loop are inductions over data. The library's induction
theorems take an operator as a parameter, which the installed provers cannot
instantiate, so these lemmas argue by a least counterexample (`LeastNat`, from `WFMin`
of the natural numbers), and the recursions are recursive
functions, of which `SumOf` and `gcd` are shown to satisfy their equations first.

Only model-checked are the liveness properties, which are outside the prover's reach:
`AdmittedAreAnswered`, `EveryRequestAnswered`, `EverySubmissionSettles`, `AttemptsEnd`,
`CallsEnd`, `StartsOrSaysWhy` and `Answers`. For these the bounds of section 4 count.

## 6. What is abstracted, and what is left out

* Payloads are their hashes; responses and error details are the launch they
  name; collisions of the hash are not considered.
* A launch that ends in an error other than in-doubt is taken by the stores to have
  had no effect. `FailuresLeaveNothing` shows it of the EVM pipeline, given the
  submitter's classification of errors; for Solana `SolanaAmbiguous` refutes it.
* A crash is that of the process: what was written to the file stays. Power loss
  is not modelled (the code does not call `fsync`). The clock does not go back.
* Redis is a single server that keeps its data. `RedisFlips` is followed only while
  the process starts.
* Record formats (validation, legacy records) and the switched-off store, which runs
  the action directly, are left out.
* One signer on one chain: queues and locks of different chains share nothing. Other
  users of the signer's key would take nonces without taking the lock.
* A receipt that is missing is taken to be the `TransactionNotFoundError` that the code
  tests for, or a failing call. If the client library throws its error of a missing
  *receipt* instead, the lookup after `status/service.ts:292` is never made and the
  answer is a 502, one of the outcomes of `Receipt`. A node that lags behind its own
  receipt is not modelled; a kept block number is. Requests for a transaction or for contract data that join another's on its way are
  covered by calls that fail and by what the chain may do in between.
* A refinement of the schema that runs after a failed pattern is modelled where it
  throws (`SchemaThrows`); elsewhere its further issues do not change the answer.
* The prices and ticks that the SDKs derive in floating point, and the comparison of
  the clock with `balanceLimitEnd`, are outcomes that may go either way.
* Lengths and formats of single strings in requests are left out.

Not modelled: the byte layout of hooks, payloads and accounts in
`solana-assembly.ts`, which is about programs that are not in the repository; the
construction of SDK and chain clients; `getLaunch`, one read;
authentication, the error envelope, capabilities and counters, which are functions
of a single request; rate limiting, which is the plugin's; and the scripts that run
the live tests.
