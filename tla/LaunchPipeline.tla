---------------------------- MODULE LaunchPipeline ----------------------------
(***************************************************************************)
(* EVM launches from the route to the broadcast: createLaunchWith-         *)
(* Idempotency() and createLaunchInternal() of modules/launches/service.ts,*)
(* the three auction services, the policies, the collision translation of  *)
(* infra/doppler/sdk-client.ts and the pending state they simulate on.     *)
(*                                                                         *)
(* The store and the submitter appear as what they promise (their modules  *)
(* have the details): a key is free, busy, done or in doubt, and a         *)
(* submission ends with a hash, a plain error or an in-doubt error.  The   *)
(* rules on amounts and shares are in SaleTerms; here a request keeps them *)
(* or has a flaw.                                                          *)
(***************************************************************************)
EXTENDS Fields, Integers, Sequences, FiniteSets

CONSTANTS
    Requests,      \* calls of createLaunchWithIdempotency()
    Keys, KeyOf,   \* idempotency keys; None without the header
    Deployments,   \* configurations of the service and of its chain, each
                   \* with a name for the traffic it gets
    Callers,       \* per traffic: the requests that are made
    Inputs,        \* per traffic: the bodies they may have
    Salts,         \* what the SDK may choose for the token address
    RpcFails       \* calls of the node and of the price provider may fail

ASSUME PipelineAssumption ==
    /\ KeyOf \in [Requests -> Keys \union {None}]
    /\ None \notin Keys \union Salts
    /\ \A d \in Deployments : d.traffic \in DOMAIN Inputs \intersect DOMAIN Callers
    /\ RpcFails \in BOOLEAN

\* The bodies that the schema describes: one object per family, and only a
\* dynamic launch names a migration.
Body ==
    LET Choices(families, migrations) ==
            [auction: families, migration: migrations,
             governance: {"noOp", "default", "custom"},
             numeraire: {"given", "default"}, price: {"given", "auto"},
             flaws: SUBSET STRING]
    IN Choices({"static", "multicurve"}, {"none"})
       \union Choices({"dynamic"}, {"uniswapV2", "uniswapV4", "uniswapV4Rehype"})

ASSUME InputsAssumption == \A t \in DOMAIN Inputs : Inputs[t] \subseteq Body

VARIABLES
    config,    \* the deployment
    foreign,   \* salts whose address somebody else's token has
    req,       \* per request: its body, its progress and its answer
    key,       \* per key: what the store would do with a new request
    tx         \* per request: its transaction

vars == <<config, foreign, req, key, tx>>
world == <<config, foreign>>

Live == {"pending", "mined"}

\* The checks of each family in their order.  That the chain has every
\* module address is checked once, at start, by the registry.
StaticRules(i) ==
    <<"sale", "governance", "owner", "numeraire", "price", "fees", "share">>

MulticurveRules(i) ==
    <<"sale", "governance", "owner", "numeraire", "price", "fees", "curves">>

\* The Airlock owner is asked for only when there are pool fees to share.
DynamicRules(i) ==
    <<"v2_fees", "sale", "governance", "numeraire", "price">>
    \o (IF i.migration = "uniswapV2" THEN <<>> ELSE <<"owner", "fees">>)
    \o <<"migration", "proceeds">>

FamilyRules(i) ==
    CASE i.auction = "static" -> StaticRules(i)
      [] i.auction = "multicurve" -> MulticurveRules(i)
      [] i.auction = "dynamic" -> DynamicRules(i)

\* Mutant: dynamic launches forget the governance policy.
RulesWithoutGovernance(i) ==
    <<"parse", "limit_end", "chain", "auction">>
    \o (IF i.auction # "dynamic" THEN FamilyRules(i)
        ELSE SelectSeq(FamilyRules(i), LAMBDA rule : rule # "governance"))

\* Mutant: the owner is asked for before the policies are looked at.
RulesOwnerFirst(i) ==
    <<"parse", "limit_end", "chain", "auction", "owner">> \o FamilyRules(i)

Rules(i) == <<"parse", "limit_end", "chain", "auction">> \o FamilyRules(i)

\* Rules that ask the node or the price provider.
Remote(rule, i) == rule = "owner" \/ (rule = "price" /\ i.price = "auto")

AuctionSupported(i) == i.auction \in config.auctions

GovernanceAllowed(mode) ==
    /\ mode \in config.governanceModes
    /\ mode # "noOp" => config.governanceEnabled

\* Rehype is an option of the uniswapV4 mode.
Mode(i) == IF i.migration = "uniswapV4Rehype" THEN "uniswapV4" ELSE i.migration

Holds(rule, i) ==
    CASE rule = "auction" -> AuctionSupported(i)
      [] rule = "governance" -> GovernanceAllowed(i.governance)
      [] rule = "migration" -> Mode(i) \in config.migrations
      [] rule = "numeraire" -> i.numeraire = "given" \/ config.hasNumeraire
      [] rule = "price" -> i.price = "given" \/ config.pricing
      [] OTHER -> rule \notin i.flaws

\* What the builders are given besides the numbers: who initializes the
\* pool, who migrates it, and which of the two gets the fee beneficiaries.
StaticParams(i) ==
    [initializer |-> "lockableV3", migrator |-> "noOp", governance |-> i.governance,
     feesTo |-> {"initializer"}]

MulticurveParams(i) ==
    [initializer |-> "rehypeDopplerHook", migrator |-> "noOp", governance |-> i.governance,
     feesTo |-> {"initializer"}]

\* resolveRequestedMigration().
MigratorOf(i) ==
    CASE i.migration = "uniswapV2" -> "v2MigratorSplit"
      [] i.migration = "uniswapV4" -> "dopplerHookMigrator"
      [] i.migration = "uniswapV4Rehype" -> "rehypeDopplerHookMigrator"

DynamicParams(i) ==
    [initializer |-> "v4", migrator |-> MigratorOf(i), governance |-> i.governance,
     feesTo |-> IF i.migration = "uniswapV2" THEN {} ELSE {"migrator"}]

Params(i) ==
    CASE i.auction = "static" -> StaticParams(i)
      [] i.auction = "multicurve" -> MulticurveParams(i)
      [] i.auction = "dynamic" -> DynamicParams(i)

Init ==
    /\ config \in Deployments
    /\ foreign \in SUBSET Salts
    /\ req = [r \in Requests |->
                [pc |-> "idle", input |-> None, rule |-> 1, called |-> FALSE,
                 params |-> None, salt |-> None, before |-> {}, answer |-> None]]
    /\ key = [k \in Keys |-> "free"]
    /\ tx = [r \in Requests |-> "none"]

\* Mutant: the key of a launch in doubt may be used again.
OutcomeForgetsDoubt(kind) == IF kind = "ok" THEN "done" ELSE "free"

RuleNames ==
    {"parse", "limit_end", "chain", "auction", "sale", "governance", "owner", "numeraire",
     "price", "fees", "share", "curves", "v2_fees", "migration", "proceeds"}

\* A request ends at one of the rules, or as named here.
Answers ==
    RuleNames \union {"key_required", "upstream", "build", "simulation", "collision",
                      "submission", "ok", "in_doubt"}

ASSUME AnswersAssumption == None \notin Answers

\* What the store makes of a settled action.
Outcome(kind) ==
    CASE kind = "ok" -> "done" [] kind = "in_doubt" -> "doubt" [] OTHER -> "free"

Answer(r, kind) ==
    /\ req' = [req EXCEPT ![r].pc = "done", ![r].answer = kind]
    /\ key' = IF KeyOf[r] = None THEN key
              ELSE [key EXCEPT ![KeyOf[r]] = Outcome(kind)]

Refuse(r, kind) == Answer(r, kind) /\ UNCHANGED <<tx, world>>

Goto(r, where) ==
    /\ req' = [req EXCEPT ![r].pc = where]
    /\ UNCHANGED <<key, tx, world>>

-----------------------------------------------------------------------------
(* One request *)

\* createLaunchWithIdempotency(): the body is parsed inside the action of
\* the store.
Begin(r) ==
    /\ req[r].pc = "idle" /\ r \in Callers[config.traffic]
    /\ \E i \in Inputs[config.traffic] :
         /\ KeyOf[r] # None => key[KeyOf[r]] = "free"
         /\ req' = [req EXCEPT ![r].input = i, ![r].pc = "rules"]
    /\ key' = IF KeyOf[r] = None THEN key ELSE [key EXCEPT ![KeyOf[r]] = "busy"]
    /\ ~(config.requireKey /\ KeyOf[r] = None)
    /\ UNCHANGED <<tx, world>>

NoKey(r) ==
    /\ req[r].pc = "idle" /\ r \in Callers[config.traffic]
    /\ config.requireKey /\ KeyOf[r] = None
    /\ Refuse(r, "key_required")

\* The next rule: kept, broken, or not decided because a call failed.
Rule(r) ==
    LET i == req[r].input rule == Rules(i)[req[r].rule] IN
    /\ req[r].pc = "rules" /\ req[r].rule <= Len(Rules(i))
    /\ \/ /\ Holds(rule, i)
          /\ req' = [req EXCEPT ![r].rule = @ + 1, ![r].called = @ \/ Remote(rule, i)]
          /\ UNCHANGED <<key, tx, world>>
       \/ ~Holds(rule, i) /\ Refuse(r, rule)
       \/ RpcFails /\ Remote(rule, i) /\ Refuse(r, "upstream")

\* The builder of the SDK has rules of its own.
Build(r) ==
    /\ req[r].pc = "rules" /\ req[r].rule > Len(Rules(req[r].input))
    /\ \/ /\ req' = [req EXCEPT ![r].pc = "sdk_simulate", ![r].params = Params(req[r].input)]
          /\ UNCHANGED <<key, tx, world>>
       \/ Refuse(r, "build")

\* Mutant: simulations see mined tokens only.
OccupiedWhenMined(s) ==
    s \in foreign \/ \E q \in Requests : req[q].salt = s /\ tx[q] = "mined"

\* The token address of a salt has code, in the pending state.
Occupied(s) ==
    s \in foreign \/ \E q \in Requests : req[q].salt = s /\ tx[q] \in Live

\* simulateCreate...() of the SDK, through the collision-aware client.
SdkSimulate(r) ==
    /\ req[r].pc = "sdk_simulate"
    /\ \/ \E s \in Salts :
            /\ req' = [req EXCEPT ![r].pc = IF Occupied(s) THEN "translate" ELSE "simulate",
                                  ![r].salt = s]
            /\ UNCHANGED <<key, tx, world>>
       \/ RpcFails /\ Refuse(r, "upstream")

\* simulateContract() on blockTag "pending".
Simulate(r) ==
    /\ req[r].pc = "simulate"
    /\ \/ Occupied(req[r].salt) /\ Goto(r, "translate")
       \/ /\ ~Occupied(req[r].salt)
          /\ req' = [req EXCEPT ![r].pc = "submit",
                                ![r].before = {q \in Requests : tx[q] \in Live}]
          /\ UNCHANGED <<key, tx, world>>
       \/ RpcFails /\ Refuse(r, "upstream")

\* translateCreateSimulationError(): a collision is one only if the address
\* has code; the error of the simulation stands otherwise.
Translate(r) ==
    /\ req[r].pc = "translate"
    /\ \/ Occupied(req[r].salt) /\ Refuse(r, "collision")
       \/ ~Occupied(req[r].salt) /\ Refuse(r, "simulation")
       \/ RpcFails /\ Refuse(r, "simulation")

With(r, state) == tx' = [tx EXCEPT ![r] = state] /\ UNCHANGED world

\* Mutant: an ambiguous broadcast is a failed one.
SubmitWithoutDoubt(r) ==
    /\ req[r].pc = "submit"
    /\ \/ Answer(r, "ok") /\ With(r, "pending")
       \/ Refuse(r, "submission")
       \/ \E state \in {"none", "late", "pending"} : Answer(r, "submission") /\ With(r, state)

\* submitCreateTx(): a hash, an error before or instead of the broadcast, or
\* a broadcast nobody knows the end of.
Submit(r) ==
    /\ req[r].pc = "submit"
    /\ \/ Answer(r, "ok") /\ With(r, "pending")
       \/ Refuse(r, "submission")
       \/ \E state \in {"none", "late", "pending"} : Answer(r, "in_doubt") /\ With(r, state)

Work(r) ==
    Rule(r) \/ Build(r) \/ SdkSimulate(r) \/ Simulate(r) \/ Translate(r) \/ Submit(r)

-----------------------------------------------------------------------------
(* The chain *)

Land(r) == tx[r] = "late" /\ With(r, "pending") /\ UNCHANGED <<req, key>>

\* create() reverts when the token exists.
Mine(r) ==
    /\ tx[r] = "pending"
    /\ With(r, IF \E q \in Requests : tx[q] = "mined" /\ req[q].salt = req[r].salt
               THEN "reverted" ELSE "mined")
    /\ UNCHANGED <<req, key>>

Drop(r) ==
    /\ tx[r] \in {"late", "pending"}
    /\ With(r, "dropped") /\ UNCHANGED <<req, key>>

Next ==
    \E r \in Requests : Begin(r) \/ NoKey(r) \/ Work(r) \/ Land(r) \/ Mine(r) \/ Drop(r)

Spec == Init /\ [][Next]_vars

-----------------------------------------------------------------------------
(* Properties *)

Possible == Live \union {"late"}

\* Retried after any answer that leaves the key free, a key never has two
\* transactions that exist or may yet.
OneLaunchPerKey ==
    \A r, q \in Requests :
        /\ r # q /\ KeyOf[r] # None /\ KeyOf[r] = KeyOf[q]
        => ~({tx[r], tx[q]} \subseteq Possible)

\* A request answered with an error other than in doubt, by whichever of
\* its many checks and calls, has left no transaction behind.
FailuresLeaveNothing ==
    \A r \in Requests : req[r].answer \notin {None, "ok", "in_doubt"} => tx[r] = "none"

\* What the deployment allows, as the documentation of the codes puts it.
Permitted(i) ==
    /\ i.flaws \intersect {"parse", "limit_end", "chain", "sale"} = {}
    /\ i.auction \in config.auctions
    /\ i.governance \in config.governanceModes
    /\ i.governance = "noOp" \/ config.governanceEnabled
    /\ i.auction = "dynamic" => Mode(i) \in config.migrations
    /\ i.auction # "dynamic" \/ i.migration # "uniswapV2" => "fees" \notin i.flaws
    /\ i.auction = "multicurve" => "curves" \notin i.flaws
    /\ config.hasNumeraire \/ i.numeraire = "given"
    /\ config.pricing \/ i.price = "given"

\* No family lets a request through to the chain that its deployment does
\* not allow, and the beneficiaries that were checked are sent to exactly one
\* of the modules that can hold them; launches that cannot have any send none.
SubmittedWasPermitted ==
    \A r \in Requests :
        LET i == req[r].input
            unshared == i.auction = "dynamic" /\ i.migration = "uniswapV2"
        IN tx[r] # "none" =>
             /\ Permitted(i)
             /\ Cardinality(req[r].params.feesTo) = IF unshared THEN 0 ELSE 1

\* Every family refuses an auction type or a governance mode before any call
\* of the node or of the price provider.
PolicyFailsFast ==
    \A r \in Requests : req[r].answer \in {"auction", "governance"} => ~req[r].called

\* A deployment that was pending when a launch was last simulated is never
\* submitted again by it: two transactions for one address need two
\* requests that overlap between simulation and broadcast.
NoResubmission ==
    \A r, q \in Requests :
        q \in req[r].before /\ tx[q] \in Live /\ tx[r] # "none"
        => req[r].salt # req[q].salt

=============================================================================
