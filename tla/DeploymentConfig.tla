----------------------------- MODULE DeploymentConfig -----------------------------
(***************************************************************************)
(* The start of one process: loadConfig() of core/config.ts reads the      *)
(* environment, buildServices() and buildServer() of app/server.ts build   *)
(* from the configuration what the other modules are about.                *)
(*                                                                         *)
(* An environment variable is absent (or blank), garbage, or a value.      *)
(* Settings that nothing else depends on (port, log level, CORS, limits,   *)
(* URLs and asset ids of the pricing provider) are left out.  What the     *)
(* process does once it serves is in the other modules; Readiness composes *)
(* its start with the probes that follow.                                  *)
(***************************************************************************)
EXTENDS Integers, Sequences

CONSTANTS
    Envs,   \* families of environments
    None,   \* absent or blank
    Bad     \* a value that does not parse

ASSUME EnvAssumption ==
    /\ None # "shared"
    /\ \A family \in Envs : \A e \in family :
         /\ {e.lockTtl, e.lockRefresh} \subseteq Nat \union {None, Bad}
         /\ e.redisUrl \in BOOLEAN

VARIABLES
    env,
    files,     \* the idempotency file: "readable", also when there is none, or "corrupt"
    redisUp,   \* whether Redis answers
    stage,     \* the next step of start()
    config,
    services,
    refusal    \* the check that stopped the process

startVars == <<env, files, redisUp, stage, config, services, refusal>>

\* doppler.config.ts, with the times of the locks in units of 100 seconds
Template ==
    [deploymentMode |-> "standalone", enabled |-> TRUE, backend |-> "file",
     requireKey |-> FALSE, redisLockTtl |-> 9, redisLockRefresh |-> 3,
     pricingProvider |-> "coingecko"]

\* parseBoolean(): what is neither a yes nor a no is the default.
parseBoolean(value, fallback) ==
    IF value \in {"on", "off"} THEN value = "on" ELSE fallback

\* parseNumber(): so is what is no positive number.
parseNumber(value, fallback) == IF value \in {None, Bad} THEN fallback ELSE value

Or(value, fallback) == IF value = None THEN fallback ELSE value

\* Mutant: production does not select a mode.
parseModeAsGiven(e) == Or(e.mode, Template.deploymentMode)

parseDeploymentMode(e) ==
    IF e.mode = None /\ e.production THEN "shared" ELSE Or(e.mode, Template.deploymentMode)

\* parseSolanaKeypairBytes()
Keypair(e) == IF e.keypairPath # None THEN e.keypairPath ELSE e.keypair

ConfigOf(e) ==
    LET mode == parseDeploymentMode(e) IN
    [deploymentMode |-> mode,
     redisUrl |-> e.redisUrl,
     privateKey |-> e.privateKey,
     defaultChain |-> e.defaultChain,
     chains |-> e.rpc,
     enabled |-> parseBoolean(e.enabled, Template.enabled),
     backend |-> Or(e.backend, Template.backend),
     requireKey |-> mode = "shared" \/ parseBoolean(e.requireKey, Template.requireKey),
     redisLockTtl |-> parseNumber(e.lockTtl, Template.redisLockTtl),
     redisLockRefresh |-> parseNumber(e.lockRefresh, Template.redisLockRefresh),
     solana |-> parseBoolean(e.solana, FALSE),
     table |-> e.table,
     priceMode |-> Or(e.priceMode, "required"),
     keypair |-> Keypair(e),
     fixed |-> IF Or(e.priceMode, "required") = "required" THEN None ELSE e.fixed]

Check(code, failed) == [code |-> code, failed |-> failed]
NoRefusal == Check("none", FALSE)

LockChecks(c) == <<Check("INVALID_ENV", c.redisLockRefresh >= c.redisLockTtl)>>

SharedChecks(c) ==
    <<Check("MISSING_ENV", ~c.redisUrl),
      Check("INVALID_ENV", ~c.enabled),
      Check("INVALID_ENV", c.backend # "redis")>>

SolanaChecks(e, c) ==
    <<Check("MISSING_ENV", c.keypair = None),
      Check("MISSING_ENV", ~e.solanaRpcUrl),
      Check("MISSING_ENV", ~e.solanaWsUrl),
      Check("MISSING_ENV", c.priceMode = "fixed" /\ c.fixed = None)>>

\* resolveTemplateChains(), resolveDefaultChainId()
ChainsResolve(e) == e.rpc # {} /\ e.defaultChain \in e.rpc \union {None}

\* parseSolanaDefaultNetwork() to parseSolanaKeypairJson()
SolanaParses(e, c) ==
    /\ Bad \notin {e.network, e.priceMode, c.keypair, c.fixed}
    /\ None \in {e.keypair, e.keypairPath}

\* The checks of loadConfig() in their order
Checks(e) ==
    LET c == ConfigOf(e) IN
    <<Check("INVALID_ENV", e.mode = Bad),
      Check("INVALID_ENV", e.backend = Bad),
      Check("MISSING_ENV", ~e.apiKey),
      Check("MISSING_ENV", e.privateKey = None),
      Check("INVALID_ENV", ~ChainsResolve(e)),
      Check("INVALID_ENV", e.numeraire /\ e.defaultChain = None),
      Check("INVALID_ENV", e.provider = Bad),
      Check("MISSING_ENV", c.backend = "redis" /\ ~e.redisUrl)>>
    \o LockChecks(c)
    \o (IF c.deploymentMode = "shared" THEN SharedChecks(c) ELSE <<>>)
    \o <<Check("INVALID_ENV", ~SolanaParses(e, c))>>
    \o (IF c.solana THEN SolanaChecks(e, c) ELSE <<>>)
    \o <<Check("INVALID_ENV", e.confirm = Bad)>>

Passed(checks) == \A i \in DOMAIN checks : ~checks[i].failed

FirstFailed(checks) == SelectSeq(checks, LAMBDA check : check.failed)[1]

Advance(next) == stage' = next /\ UNCHANGED <<env, files, redisUp, refusal>>

Refuse(check) ==
    /\ stage' = "refused" /\ refusal' = check
    /\ UNCHANGED <<env, files, redisUp, config, services>>

\* loadConfig()
Load ==
    /\ stage = "load"
    /\ LET checks == Checks(env) IN
       IF Passed(checks)
       THEN Advance("build") /\ config' = ConfigOf(env) /\ UNCHANGED services
       ELSE Refuse(FirstFailed(checks))

\* Mutant: a client is made for every deployment.
UsesRedisAlways == TRUE

\* usesRedis()
UsesRedis == config.deploymentMode = "shared" \/ config.backend = "redis"

RedisClient == UsesRedis /\ config.redisUrl

\* buildServices(), with the registry that makes an account of the private
\* key and the file store that loads its file.  "LATE" is a check that
\* loadConfig() has already made.
Build ==
    /\ stage = "build"
    /\ LET checks ==
             <<Check("INTERNAL_ERROR", config.privateKey = Bad),
               Check("LATE", UsesRedis /\ ~config.redisUrl),
               Check("LATE", config.backend = "redis" /\ ~RedisClient),
               Check("IDEMPOTENCY_STORE_CORRUPT",
                     config.backend = "file" /\ config.enabled /\ files = "corrupt")>>
       IN IF ~Passed(checks) THEN Refuse(FirstFailed(checks))
          ELSE /\ Advance("serve")
               /\ services' = [submitter |-> IF RedisClient THEN "distributed" ELSE "local",
                               store |-> config.backend, enabled |-> config.enabled,
                               requireKey |-> config.requireKey, limits |-> "none",
                               lockTtl |-> config.redisLockTtl,
                               lockRefresh |-> config.redisLockRefresh]
               /\ UNCHANGED config

\* buildServer() and listen()
Serve ==
    /\ stage = "serve"
    /\ LET shared == config.deploymentMode = "shared"
           checks == <<Check("LATE", shared /\ ~RedisClient),
                       Check("REDIS_UNAVAILABLE", shared /\ ~redisUp)>>
       IN IF ~Passed(checks) THEN Refuse(FirstFailed(checks))
          ELSE /\ Advance("serving")
               /\ services' = [services EXCEPT !.limits = IF shared THEN "redis" ELSE "local"]
               /\ UNCHANGED config

\* Redis goes down and comes back; followed for as long as the start asks it.
RedisFlips ==
    /\ stage \in {"load", "build", "serve"}
    /\ redisUp' = ~redisUp
    /\ UNCHANGED <<env, files, stage, config, services, refusal>>

StartInit ==
    /\ \E family \in Envs : env \in family
    /\ files \in {"readable", "corrupt"} /\ redisUp \in BOOLEAN
    /\ stage = "load" /\ config = None /\ refusal = NoRefusal
    /\ services = [submitter |-> "none", store |-> "none", enabled |-> FALSE,
                   requireKey |-> FALSE, limits |-> "none", lockTtl |-> 0, lockRefresh |-> 0]

StartStep == Load \/ Build \/ Serve

-----------------------------------------------------------------------------
(* Properties *)

\* docs/configuration.md: the effective mode is shared when it says so, or
\* when it says nothing and NODE_ENV is production.
Shared(e) == e.mode = "shared" \/ (e.mode = None /\ e.production)

\* Two replicas that the environment makes shared never serve without what
\* coordinates them: the records, the nonce locks and the limits are in
\* Redis, locks are refreshed before they run out, and no create request
\* goes without a key.
SharedIsCoordinated ==
    (stage = "serving" /\ Shared(env)) =>
        /\ services.store = "redis" /\ services.enabled /\ services.requireKey
        /\ services.submitter = "distributed" /\ services.limits = "redis"
        /\ services.lockRefresh < services.lockTtl

\* The environments that docs/configuration.md accepts.  A garbage Boolean or
\* duration is its default; garbage of every other kind is refused, of the
\* payer and the confirmation timeout even when Solana is off.
Documented(e) ==
    LET redis == e.backend = "redis"
        ttl == IF e.lockTtl \in {None, Bad} THEN 9 ELSE e.lockTtl
        refresh == IF e.lockRefresh \in {None, Bad} THEN 3 ELSE e.lockRefresh
    IN /\ e.apiKey /\ e.privateKey # None /\ e.rpc # {}
       /\ Bad \notin {e.mode, e.backend, e.provider, e.network, e.priceMode, e.keypair,
                      e.keypairPath, e.confirm}
       /\ e.defaultChain # None => e.defaultChain \in e.rpc
       /\ e.numeraire => e.defaultChain # None
       /\ redis \/ Shared(e) => e.redisUrl
       /\ Shared(e) => redis /\ e.enabled # "off"
       /\ refresh < ttl
       /\ None \in {e.keypair, e.keypairPath}
       /\ e.priceMode \notin {None, "required"} => e.fixed # Bad
       /\ e.solana = "on" => /\ e.keypair # None \/ e.keypairPath # None
                             /\ e.solanaRpcUrl /\ e.solanaWsUrl
                             /\ e.priceMode = "fixed" => e.fixed # None

\* A documented process gets to serve, or the world outside the environment
\* stopped it: the key is no key, the file is corrupt, Redis is away.
StartsOrSaysWhy ==
    Documented(env) ~>
        \/ stage = "serving"
        \/ refusal.code = "INTERNAL_ERROR" /\ env.privateKey = Bad
        \/ refusal.code = "IDEMPOTENCY_STORE_CORRUPT" /\ files = "corrupt" /\ ~Shared(env)
        \/ refusal.code = "REDIS_UNAVAILABLE" /\ Shared(env)

=============================================================================
