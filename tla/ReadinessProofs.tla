--------------------------- MODULE ReadinessProofs ---------------------------
(***************************************************************************)
(* Proofs about one process, from its start to its answers to GET /ready.  *)
(* The start is an induction over its stages: what loadConfig() checked of *)
(* the environment is what the services are built with.  The handler is an *)
(* induction over its phases: what a client keeps came while its chain was *)
(* up, and what the handler was told came from a dependency that was up    *)
(* when an answer to it could.                                             *)
(***************************************************************************)
EXTENDS Readiness, SequenceTheorems, TLAPS

-----------------------------------------------------------------------------
(* What a list of checks that passed says *)

IsList(s) == \E S : s \in Seq(S)

LEMMA TuplesAreLists ==
    /\ IsList(<<>>)
    /\ \A a : IsList(<<a>>)
    /\ \A a, b, c : IsList(<<a, b, c>>)
    /\ \A a, b, c, d : IsList(<<a, b, c, d>>)
    /\ \A a, b, c, d, e, f, g, h : IsList(<<a, b, c, d, e, f, g, h>>)
  <1>1. IsList(<<>>)
    <2>1. <<>> \in Seq({})
      OBVIOUS
    <2> QED BY <2>1 DEF IsList
  <1>2. ASSUME NEW a PROVE IsList(<<a>>)
    <2>1. <<a>> \in Seq({a})
      OBVIOUS
    <2> QED BY <2>1 DEF IsList
  <1>3. ASSUME NEW a, NEW b, NEW c PROVE IsList(<<a, b, c>>)
    <2>1. <<a, b, c>> \in Seq({a, b, c})
      OBVIOUS
    <2> QED BY <2>1 DEF IsList
  <1>4. ASSUME NEW a, NEW b, NEW c, NEW d PROVE IsList(<<a, b, c, d>>)
    <2>1. <<a, b, c, d>> \in Seq({a, b, c, d})
      OBVIOUS
    <2> QED BY <2>1 DEF IsList
  <1>5. ASSUME NEW a, NEW b, NEW c, NEW d, NEW e, NEW f, NEW g, NEW h
        PROVE  IsList(<<a, b, c, d, e, f, g, h>>)
    <2>1. <<a, b, c, d, e, f, g, h>> \in Seq({a, b, c, d, e, f, g, h})
      OBVIOUS
    <2> QED BY <2>1 DEF IsList
  <1> QED BY <1>1, <1>2, <1>3, <1>4, <1>5

\* The checks of a list made of two lists passed only if those of both did.
LEMMA PassedInParts ==
    ASSUME NEW s, NEW t, IsList(s), IsList(t)
    PROVE  IsList(s \o t) /\ (Passed(s \o t) => Passed(s) /\ Passed(t))
  <1>1. PICK S, T : s \in Seq(S) /\ t \in Seq(T)
    BY DEF IsList
  <1>2. s \in Seq(S \union T) /\ t \in Seq(S \union T)
    BY <1>1, SeqMonotonic
  <1>3. /\ s \o t \in Seq(S \union T)
        /\ Len(s \o t) = Len(s) + Len(t)
        /\ \A i \in 1 .. Len(s) + Len(t) :
             (s \o t)[i] = IF i <= Len(s) THEN s[i] ELSE t[i - Len(s)]
    BY <1>2, ConcatProperties
  <1>4. DOMAIN s = 1 .. Len(s) /\ DOMAIN t = 1 .. Len(t) /\ Len(s) \in Nat /\ Len(t) \in Nat
    BY <1>2, LenProperties
  <1>5. DOMAIN (s \o t) = 1 .. Len(s) + Len(t)
    BY <1>3, LenProperties
  <1>6. ASSUME Passed(s \o t), NEW i \in DOMAIN s PROVE ~s[i].failed
    <2>1. i \in 1 .. Len(s) + Len(t) /\ i <= Len(s)
      BY <1>4
    <2>2. (s \o t)[i] = s[i] /\ i \in DOMAIN (s \o t)
      BY <1>3, <1>5, <2>1
    <2> QED BY <1>6, <2>2 DEF Passed
  <1>7. ASSUME Passed(s \o t), NEW i \in DOMAIN t PROVE ~t[i].failed
    <2>1. /\ Len(s) + i \in 1 .. Len(s) + Len(t)
          /\ ~(Len(s) + i <= Len(s)) /\ Len(s) + i - Len(s) = i
      BY <1>4
    <2>2. (s \o t)[Len(s) + i] = t[i] /\ Len(s) + i \in DOMAIN (s \o t)
      BY <1>3, <1>5, <2>1
    <2> QED BY <1>7, <2>2 DEF Passed
  <1> QED BY <1>3, <1>6, <1>7 DEF Passed, IsList

-----------------------------------------------------------------------------
(* What loadConfig() lets through *)

\* What a configuration says that coordinates replicas
Coordinated(c) ==
    /\ c.deploymentMode = "shared" /\ c.redisUrl /\ c.enabled
    /\ c.backend = "redis" /\ c.requireKey /\ c.redisLockRefresh < c.redisLockTtl

\* The checks that replicas rely on are among those loadConfig() makes.
LEMMA CoordinationIsChecked ==
    ASSUME NEW e, Passed(Checks(e)), ConfigOf(e).deploymentMode = "shared"
    PROVE  Passed(LockChecks(ConfigOf(e))) /\ Passed(SharedChecks(ConfigOf(e)))
  <1> DEFINE c == ConfigOf(e)
             first == <<Check("INVALID_ENV", e.mode = Bad),
                        Check("INVALID_ENV", e.backend = Bad),
                        Check("MISSING_ENV", ~e.apiKey),
                        Check("MISSING_ENV", e.privateKey = None),
                        Check("INVALID_ENV", ~ChainsResolve(e)),
                        Check("INVALID_ENV", e.numeraire /\ e.defaultChain = None),
                        Check("INVALID_ENV", e.provider = Bad),
                        Check("MISSING_ENV", c.backend = "redis" /\ ~e.redisUrl)>>
             lock == LockChecks(c)
             shared == IF c.deploymentMode = "shared" THEN SharedChecks(c) ELSE <<>>
             parse == <<Check("INVALID_ENV", ~SolanaParses(e, c))>>
             solana == IF c.solana THEN SolanaChecks(e, c) ELSE <<>>
             confirm == <<Check("INVALID_ENV", e.confirm = Bad)>>
  <1>1. Checks(e) = first \o lock \o shared \o parse \o solana \o confirm
    BY DEF Checks
  <1>2. IsList(first) /\ IsList(parse) /\ IsList(confirm)
    BY TuplesAreLists
  <1>3. IsList(lock)
    BY TuplesAreLists DEF LockChecks
  <1>4. IsList(shared)
    BY TuplesAreLists DEF SharedChecks
  <1>5. IsList(solana)
    BY TuplesAreLists DEF SolanaChecks
  <1>6. shared = SharedChecks(c)
    OBVIOUS
  <1> HIDE DEF first, lock, shared, parse, solana, confirm
  <1>7. IsList(first \o lock) /\ (Passed(first \o lock) => Passed(lock))
    BY <1>2, <1>3, PassedInParts
  <1>8. /\ IsList(first \o lock \o shared)
        /\ Passed(first \o lock \o shared) => Passed(first \o lock) /\ Passed(shared)
    BY <1>4, <1>7, PassedInParts
  <1>9. /\ IsList(first \o lock \o shared \o parse)
        /\ Passed(first \o lock \o shared \o parse) => Passed(first \o lock \o shared)
    BY <1>2, <1>8, PassedInParts
  <1>10. /\ IsList(first \o lock \o shared \o parse \o solana)
         /\ Passed(first \o lock \o shared \o parse \o solana)
              => Passed(first \o lock \o shared \o parse)
    BY <1>5, <1>9, PassedInParts
  <1>11. Passed(first \o lock \o shared \o parse \o solana)
    BY <1>1, <1>2, <1>10, PassedInParts
  <1>12. Passed(lock) /\ Passed(shared)
    BY <1>7, <1>8, <1>9, <1>10, <1>11
  <1> QED BY <1>6, <1>12 DEF lock

\* An environment that makes the process shared gets past loadConfig() only
\* with a configuration that coordinates it.
LEMMA SharedConfigIsCoordinated ==
    ASSUME NEW family \in Envs, NEW e \in family, Shared(e), Passed(Checks(e))
    PROVE  Coordinated(ConfigOf(e))
  <1> DEFINE c == ConfigOf(e)
  <1>1. c.deploymentMode = "shared"
    BY EnvAssumption DEF Shared, ConfigOf, parseDeploymentMode, Or
  <1>2. Passed(LockChecks(c)) /\ Passed(SharedChecks(c))
    BY <1>1, CoordinationIsChecked
  <1>3. c.requireKey
    BY <1>1 DEF ConfigOf
  <1>4. c.redisLockTtl \in Nat /\ c.redisLockRefresh \in Nat
    BY EnvAssumption DEF ConfigOf, parseNumber, Template
  <1> HIDE DEF c
  <1>5. ~(c.redisLockRefresh >= c.redisLockTtl)
    <2>1. 1 \in DOMAIN LockChecks(c)
      BY DEF LockChecks
    <2>2. ~LockChecks(c)[1].failed
      BY <1>2, <2>1 DEF Passed
    <2>3. LockChecks(c)[1] = Check("INVALID_ENV", c.redisLockRefresh >= c.redisLockTtl)
      BY DEF LockChecks
    <2>4. ~Check("INVALID_ENV", c.redisLockRefresh >= c.redisLockTtl).failed
      BY <2>2, <2>3, Zenon
    <2> QED BY <2>4, Zenon DEF Check
  <1>6. c.redisUrl /\ c.enabled /\ c.backend = "redis"
    <2>1. {1, 2, 3} \subseteq DOMAIN SharedChecks(c)
      BY DEF SharedChecks
    <2>2. ~SharedChecks(c)[1].failed /\ ~SharedChecks(c)[2].failed /\ ~SharedChecks(c)[3].failed
      BY <1>2, <2>1 DEF Passed
    <2>3. /\ SharedChecks(c)[1] = Check("MISSING_ENV", ~c.redisUrl)
          /\ SharedChecks(c)[2] = Check("INVALID_ENV", ~c.enabled)
          /\ SharedChecks(c)[3] = Check("INVALID_ENV", c.backend # "redis")
      BY DEF SharedChecks
    <2>4. /\ ~Check("MISSING_ENV", ~c.redisUrl).failed
          /\ ~Check("INVALID_ENV", ~c.enabled).failed
          /\ ~Check("INVALID_ENV", c.backend # "redis").failed
      BY <2>2, <2>3, Zenon
    <2> QED BY <2>4, Zenon DEF Check
  <1>7. c.redisLockRefresh < c.redisLockTtl
    BY <1>4, <1>5
  <1> QED BY <1>1, <1>3, <1>6, <1>7 DEF Coordinated, c

-----------------------------------------------------------------------------
(* The start *)

\* What coordinates replicas, at every stage: in the configuration once it
\* is loaded, then in the services built from it.
StartInv ==
    /\ \E family \in Envs : env \in family
    /\ stage \in {"load", "refused", "build", "serve", "serving"}
    /\ DOMAIN services = {"submitter", "store", "enabled", "requireKey", "limits", "lockTtl",
                          "lockRefresh"}
    /\ (stage \in {"build", "serve"} /\ Shared(env)) => Coordinated(config)
    /\ (stage \in {"serve", "serving"} /\ Shared(env)) =>
         /\ services.store = "redis" /\ services.enabled /\ services.requireKey
         /\ services.submitter = "distributed" /\ services.lockRefresh < services.lockTtl
    /\ (stage = "serving" /\ Shared(env)) => services.limits = "redis"

LEMMA StartInvInit == Init => StartInv
  BY DEF Init, StartInit, StartInv

\* Of the steps of this module only those of the start touch its state.
LEMMA ProbesLeaveTheStart ==
    Next => \/ Load \/ Build \/ Serve \/ RedisFlips
            \/ UNCHANGED startVars
  BY DEF Next, Begin, AskSolana, SolanaCheck, Reply, Tick, ChainAnswers, ChainFails,
         ChainTimesOut, Change

LEMMA StartInvNext ==
    ASSUME StartInv, [Next]_vars
    PROVE  StartInv'
  <1> USE DEF StartInv
  <1>1. CASE Load
    <2>1. CASE Passed(Checks(env))
      <3>1. stage' = "build" /\ config' = ConfigOf(env) /\ UNCHANGED <<env, services>>
        BY <1>1, <2>1 DEF Load, Advance
      <3>2. Shared(env) => Coordinated(ConfigOf(env))
        BY <2>1, SharedConfigIsCoordinated
      <3>3. Shared(env)' = Shared(env) /\ Coordinated(config)' = Coordinated(ConfigOf(env))
        BY <3>1 DEF Shared, Coordinated
      <3> QED BY <3>1, <3>2, <3>3
    <2>2. CASE ~Passed(Checks(env))
      <3>1. stage' = "refused" /\ UNCHANGED <<env, services>>
        BY <1>1, <2>2 DEF Load, Refuse
      <3> QED BY <3>1
    <2> QED BY <2>1, <2>2
  <1>2. CASE Build
    <2>1. CASE stage' = "refused"
      <3>1. UNCHANGED <<env, services>>
        BY <1>2, <2>1 DEF Build, Advance, Refuse
      <3> QED BY <2>1, <3>1
    <2>2. CASE stage' # "refused"
      <3>1. /\ stage = "build" /\ stage' = "serve" /\ UNCHANGED <<env, config>>
            /\ services' = [submitter |-> IF RedisClient THEN "distributed" ELSE "local",
                            store |-> config.backend, enabled |-> config.enabled,
                            requireKey |-> config.requireKey, limits |-> "none",
                            lockTtl |-> config.redisLockTtl,
                            lockRefresh |-> config.redisLockRefresh]
        BY <1>2, <2>2 DEF Build, Advance, Refuse
      <3>2. Shared(env)' = Shared(env) /\ Coordinated(config)' = Coordinated(config)
        BY <3>1 DEF Shared, Coordinated
      <3>3. Coordinated(config) => RedisClient
        BY DEF Coordinated, RedisClient, UsesRedis
      <3>4. ASSUME Shared(env)
            PROVE  /\ services'.store = "redis" /\ services'.enabled /\ services'.requireKey
                   /\ services'.submitter = "distributed"
                   /\ services'.lockRefresh < services'.lockTtl
        <4>1. Coordinated(config)
          BY <3>1, <3>4
        <4> QED BY <3>1, <3>3, <4>1 DEF Coordinated
      <3> QED BY <3>1, <3>2, <3>4
    <2> QED BY <2>1, <2>2
  <1>3. CASE Serve
    <2>1. CASE stage' = "refused"
      <3>1. UNCHANGED <<env, services>>
        BY <1>3, <2>1 DEF Serve, Advance, Refuse
      <3> QED BY <2>1, <3>1
    <2>2. CASE stage' # "refused"
      <3>1. /\ stage = "serve" /\ stage' = "serving" /\ UNCHANGED <<env, config>>
            /\ services' = [services EXCEPT !.limits =
                              IF config.deploymentMode = "shared" THEN "redis" ELSE "local"]
        BY <1>3, <2>2 DEF Serve, Advance, Refuse
      <3>2. Shared(env)' = Shared(env)
        BY <3>1 DEF Shared
      <3>3. Shared(env) => config.deploymentMode = "shared"
        BY <3>1 DEF Coordinated
      <3> QED BY <3>1, <3>2, <3>3
    <2> QED BY <2>1, <2>2
  <1>4. CASE RedisFlips \/ UNCHANGED startVars
    <2>1. UNCHANGED <<env, stage, config, services>>
      BY <1>4 DEF RedisFlips, startVars
    <2>2. Shared(env)' = Shared(env) /\ Coordinated(config)' = Coordinated(config)
      BY <2>1 DEF Shared, Coordinated
    <2> QED BY <2>1, <2>2
  <1>5. CASE UNCHANGED vars
    BY <1>4, <1>5 DEF vars
  <1> QED BY <1>1, <1>2, <1>3, <1>4, <1>5, ProbesLeaveTheStart

\* Processes that the environment makes replicas of one another never serve
\* without what coordinates them: the records, the nonce locks and the limits
\* in Redis, locks refreshed before they run out, a key on every create
\* request.
THEOREM SharedProcessesAreCoordinated == Spec => []SharedIsCoordinated
  <1>1. StartInv => SharedIsCoordinated
    BY DEF StartInv, SharedIsCoordinated
  <1> QED BY <1>1, StartInvInit, StartInvNext, PTL DEF Spec

-----------------------------------------------------------------------------
(* The probes *)

\* A block number that is kept came from a chain that was up no longer ago.
AgeInv ==
    /\ age \in [Chains -> Nat] /\ lastUp \in [Chains -> Nat]
    /\ \A c \in Chains :
         /\ Kept(c) => lastUp[c] <= age[c]
         /\ health[c] = "up" => lastUp[c] = 0

\* What this request has been told so far came from a dependency that was up
\* when an answer to it could.
HandlerInv ==
    /\ AgeInv
    /\ handler \in {"idle", "chains", "solana"}
    /\ stage # "serving" => handler = "idle" /\ reply # "ready"
    /\ handler # "idle" => reply = NoAnswer
    /\ DOMAIN health = Chains \union {"solana"} /\ DOMAIN probe = Chains
    /\ checks \in Seq({"passed", "failed"})
    /\ handler = "chains" =>
         /\ checks = <<>>
         /\ \A c \in Chains : health[c] = "up" => c \in seenUp
    /\ handler \in {"chains", "solana"} =>
         \A c \in Chains : probe[c] = "passed" => c \in seenUp
    /\ handler = "solana" =>
         /\ health["solana"] = "up" => "solana" \in seenUp
         /\ \A i \in DOMAIN checks : checks[i] = "passed" => "solana" \in seenUp
    /\ ReadyIsEarned

LEMMA HandlerInvInit == Init => HandlerInv
  BY ReadinessAssumption DEF Init, StartInit, HandlerInv, AgeInv, Kept, ReadyIsEarned

LEMMA HandlerInvNext ==
    ASSUME HandlerInv, [Next]_vars
    PROVE  HandlerInv'
  <1> USE DEF HandlerInv
  <1>1. CASE (Load \/ Build \/ Serve \/ RedisFlips) /\ UNCHANGED probeVars
    <2>1. stage # "serving"
      BY <1>1 DEF Load, Build, Serve, RedisFlips
    <2>2. handler = "idle" /\ reply # "ready"
      BY <2>1
    <2>3. AgeInv'
      BY <1>1 DEF probeVars, AgeInv, Kept
    <2> QED BY <1>1, <2>2, <2>3 DEF probeVars, ReadyIsEarned
  <1>2. CASE Begin
    <2>1. /\ stage = "serving" /\ UNCHANGED <<stage, config, health, age, lastUp>>
          /\ handler' = "chains" /\ checks' = <<>> /\ reply' = NoAnswer
          /\ probe' = [c \in Chains |-> IF Kept(c) THEN "passed" ELSE "pending"]
          /\ seenUp' = {c \in Chains : health[c] = "up" \/ lastUp[c] < CacheTime}
      BY <1>2 DEF Begin, Served, startVars
    <2>2. ASSUME NEW c \in Chains, probe'[c] = "passed" PROVE c \in seenUp'
      <3>1. Kept(c)
        BY <2>1, <2>2
      <3>2. lastUp[c] < CacheTime
        BY <3>1, ReadinessAssumption DEF AgeInv, Kept
      <3> QED BY <2>1, <3>2
    <2>3. AgeInv'
      BY <2>1 DEF AgeInv, Kept
    <2> QED BY <2>1, <2>2, <2>3, ReadinessAssumption DEF ReadyIsEarned
  <1>3. ASSUME NEW c \in Chains, ChainAnswers(c) \/ ChainFails(c) \/ ChainTimesOut(c)
        PROVE  HandlerInv'
    <2>1. PICK outcome \in {"passed", "failed"} :
            Settled(c, outcome) /\ (outcome = "passed" => health[c] = "up")
      BY <1>3 DEF ChainAnswers, ChainFails, ChainTimesOut, TimedOut
    <2>2. /\ probe' = IF Waits(c) THEN [probe EXCEPT ![c] = outcome] ELSE probe
          /\ UNCHANGED <<stage, config, health, lastUp, handler, checks, reply, seenUp>>
      BY <1>3, <2>1 DEF Settled, ChainAnswers, ChainFails, ChainTimesOut, startVars
    <2>3. ASSUME handler \in {"chains", "solana"}, NEW d \in Chains, probe'[d] = "passed"
          PROVE  d \in seenUp
      <3>1. CASE probe[d] = "passed"
        BY <2>3, <3>1
      <3>2. CASE probe[d] # "passed"
        <4>1. d = c /\ Waits(c) /\ outcome = "passed"
          BY <2>2, <2>3, <3>2
        <4> QED BY <2>1, <4>1 DEF Waits
      <3> QED BY <3>1, <3>2
    <2>4. AgeInv'
      <3>1. CASE ChainAnswers(c)
        <4>1. age' = [age EXCEPT ![c] = 0] /\ health[c] = "up"
          BY <3>1 DEF ChainAnswers
        <4> QED BY <2>2, <4>1 DEF AgeInv, Kept
      <3>2. CASE ChainFails(c) \/ ChainTimesOut(c)
        <4>1. UNCHANGED age
          BY <3>2 DEF ChainFails, ChainTimesOut
        <4> QED BY <2>2, <4>1 DEF AgeInv, Kept
      <3> QED BY <1>3, <3>1, <3>2
    <2> QED BY <2>2, <2>3, <2>4 DEF ReadyIsEarned
  <1>4. CASE AskSolana
    <2>1. /\ handler = "chains" /\ handler' = "solana"
          /\ seenUp' = seenUp \union {d \in {"solana"} : health[d] = "up"}
          /\ UNCHANGED <<stage, config, health, age, lastUp, probe, checks, reply>>
      BY <1>4 DEF AskSolana, startVars
    <2>2. AgeInv'
      BY <2>1 DEF AgeInv, Kept
    <2> QED BY <2>1, <2>2 DEF ReadyIsEarned
  <1>5. CASE SolanaCheck
    <2>1. /\ handler = "solana"
          /\ checks' = Append(checks, IF health["solana"] = "up" THEN "passed" ELSE "failed")
          /\ UNCHANGED <<stage, config, health, age, lastUp, handler, probe, reply, seenUp>>
      BY <1>5 DEF SolanaCheck, startVars
    <2>2. \A i \in DOMAIN checks' : checks'[i] = "passed" => "solana" \in seenUp
      <3>1. CASE health["solana"] = "up"
        BY <2>1, <3>1
      <3>2. CASE health["solana"] # "up"
        BY <2>1, <3>2
      <3> QED BY <3>1, <3>2
    <2>3. checks' \in Seq({"passed", "failed"})
      BY <2>1
    <2>4. AgeInv'
      BY <2>1 DEF AgeInv, Kept
    <2> QED BY <2>1, <2>2, <2>3, <2>4 DEF ReadyIsEarned
  <1>6. CASE Reply
    <2>1. /\ handler = "solana" /\ Len(checks) = ChecksToMake /\ handler' = "idle"
          /\ probe' = [c \in Chains |-> "pending"] /\ checks' = <<>>
          /\ UNCHANGED <<stage, config, health, age, lastUp, seenUp>>
          /\ reply' = "ready" => (\A c \in Chains : probe[c] = "passed") /\ SolanaOk
      BY <1>6 DEF Reply, startVars
    <2>2. ASSUME reply' = "ready", config.solana PROVE "solana" \in seenUp
      <3>1. Len(checks) >= 3
        BY <2>1, <2>2 DEF ChecksToMake
      <3>2. 1 \in DOMAIN checks
        BY <3>1
      <3> QED BY <2>1, <2>2, <3>2 DEF SolanaOk
    <2>3. ReadyIsEarned'
      BY <2>1, <2>2 DEF ReadyIsEarned
    <2>4. stage = "serving"
      BY <2>1
    <2>5. AgeInv'
      BY <2>1 DEF AgeInv, Kept
    <2> QED BY <2>1, <2>3, <2>4, <2>5
  <1>7. CASE Tick
    <2>1. /\ age' = [c \in Chains |-> Older(age[c])]
          /\ lastUp' = [c \in Chains |-> IF health[c] = "up" THEN 0 ELSE Older(lastUp[c])]
          /\ UNCHANGED <<stage, config, health, handler, probe, checks, reply, seenUp>>
      BY <1>7 DEF Tick, startVars
    <2>2. AgeInv'
      <3>1. age' \in [Chains -> Nat] /\ lastUp' \in [Chains -> Nat]
        BY <2>1, ReadinessAssumption DEF AgeInv, Older
      <3>2. ASSUME NEW c \in Chains, age'[c] < CacheTime PROVE lastUp'[c] <= age'[c]
        <4>1. age[c] \in Nat /\ lastUp[c] \in Nat /\ CacheTime \in Nat
          BY ReadinessAssumption DEF AgeInv
        <4>2. age[c] < CacheTime /\ age'[c] = age[c] + 1
          BY <2>1, <3>2, <4>1 DEF Older
        <4>3. lastUp[c] <= age[c]
          BY <4>2 DEF AgeInv, Kept
        <4> QED BY <2>1, <4>1, <4>2, <4>3 DEF Older
      <3>3. \A c \in Chains : health[c] = "up" => lastUp'[c] = 0
        BY <2>1
      <3> QED BY <2>1, <3>1, <3>2, <3>3 DEF AgeInv, Kept
    <2> QED BY <2>1, <2>2 DEF ReadyIsEarned
  <1>8. ASSUME NEW d \in Chains \union {"solana"}, Change(d)
        PROVE  HandlerInv'
    <2>1. PICK h \in {"up", "down", "silent"} :
            /\ health' = [health EXCEPT ![d] = h]
            /\ seenUp' = IF h = "up" /\ (d \in Chains => handler = "chains")
                                     /\ (d \notin Chains => handler = "solana")
                         THEN seenUp \union {d} ELSE seenUp
            /\ lastUp' = [c \in Chains |-> IF c = d /\ h = "up" THEN 0 ELSE lastUp[c]]
      BY <1>8 DEF Change
    <2>2. /\ UNCHANGED <<stage, config, age, handler, probe, checks, reply>>
          /\ seenUp \subseteq seenUp'
      BY <1>8, <2>1 DEF Change, startVars
    <2>3. ASSUME handler = "chains", NEW c \in Chains, health'[c] = "up" PROVE c \in seenUp'
      BY <2>1, <2>2, <2>3
    <2>4. ASSUME handler = "solana", health'["solana"] = "up" PROVE "solana" \in seenUp'
      BY <2>1, <2>2, <2>4, ReadinessAssumption
    <2>5. ReadyIsEarned'
      BY <2>2 DEF ReadyIsEarned
    <2>6. DOMAIN health' = DOMAIN health
      BY <2>1
    <2>7. AgeInv'
      <3>1. lastUp' \in [Chains -> Nat]
        BY <2>1 DEF AgeInv
      <3>2. \A c \in Chains : health'[c] = "up" => lastUp'[c] = 0
        BY <2>1 DEF AgeInv
      <3>3. \A c \in Chains : Kept(c) => lastUp'[c] <= age[c]
        BY <2>1 DEF AgeInv
      <3> QED BY <2>2, <3>1, <3>2, <3>3 DEF AgeInv, Kept
    <2> QED BY <2>2, <2>3, <2>4, <2>5, <2>6, <2>7
  <1>9. CASE UNCHANGED vars
    BY <1>9 DEF vars, startVars, probeVars, AgeInv, Kept, ReadyIsEarned
  <1> QED BY <1>1, <1>2, <1>3, <1>4, <1>5, <1>6, <1>7, <1>8, <1>9 DEF Next

\* "ready" is never said of a chain that has been failing or silent since the
\* time of the cache before the request came, whatever other requests had put
\* into the client's cache or left on their way, nor of a Solana that was not
\* up while the request could ask it.
THEOREM ReadyAnswersAreEarned == Spec => []ReadyIsEarned
  <1>1. HandlerInv => ReadyIsEarned
    BY DEF HandlerInv
  <1> QED BY <1>1, HandlerInvInit, HandlerInvNext, PTL DEF Spec

=============================================================================
