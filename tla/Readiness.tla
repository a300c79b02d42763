----------------------------- MODULE Readiness -----------------------------
(***************************************************************************)
(* A process from its start (DeploymentConfig) to its answers to           *)
(* GET /ready: the handler of app/routes/ready.get.ts asks every chain at  *)
(* once and waits for each at most READY_RPC_TIMEOUT_MS; then              *)
(* getReadiness() of modules/launches/solana.ts makes the checks that the  *)
(* configuration asks for, one after the other.  Dependencies come and go  *)
(* while it does.                                                          *)
(*                                                                         *)
(* The client of a chain is shared by all requests of the process.  It     *)
(* keeps the latest block number for a while, and who asks for it          *)
(* meanwhile is answered without the chain; who asks while a request for   *)
(* it is on its way waits for that one.                                    *)
(***************************************************************************)
EXTENDS DeploymentConfig

CONSTANTS
    Probed,     \* the environments in which the probes are followed, a bound
    Chains,     \* the configured EVM chains
    Timeout,    \* READY_RPC_TIMEOUT_MS, in ticks
    CacheTime,  \* how long a client keeps a block number, in ticks
    NoAnswer

ASSUME ReadinessAssumption ==
    /\ Timeout \in Nat /\ CacheTime \in Nat
    /\ "solana" \notin Chains /\ NoAnswer # "ready"

VARIABLES
    health,    \* per dependency: "up" its answers arrive, "down" it fails, "silent"
               \* neither
    age,       \* per chain: ticks since its client got the block number it keeps
    lastUp,    \* per chain: ticks since it was up, for the properties
    handler,   \* where the handler is
    waited,    \* ticks since the chains were asked
    probe,     \* per chain: its answer is "pending", or it "passed" or "failed"
    checks,    \* what came of the Solana checks made so far, details left out
    reply,
    seenUp     \* the dependencies that were up when this answer could come from
               \* them, for the properties

probeVars == <<health, age, lastUp, handler, waited, probe, checks, reply, seenUp>>
vars == <<startVars, probeVars>>

\* rpcReachable, latestBlockhash, initializerConfig, addressLookupTable
ChecksToMake == IF ~config.solana THEN 0 ELSE IF config.table THEN 4 ELSE 3

Served == stage = "serving" /\ env \in Probed

\* The block number of a chain that a client keeps is handed to whoever asks.
\* All ages from CacheTime on are alike.
Kept(c) == age[c] < CacheTime

Older(ticks) == IF ticks < CacheTime THEN ticks + 1 ELSE CacheTime

Begin ==
    /\ Served /\ handler = "idle"
    /\ handler' = "chains" /\ waited' = 0
    /\ probe' = [c \in Chains |-> IF Kept(c) THEN "passed" ELSE "pending"]
    /\ checks' = <<>> /\ reply' = NoAnswer
    /\ seenUp' = {c \in Chains : health[c] = "up" \/ lastUp[c] < CacheTime}
    /\ UNCHANGED <<startVars, health, age, lastUp>>

Waits(c) == handler = "chains" /\ probe[c] = "pending"

Settled(c, outcome) ==
    probe' = IF Waits(c) THEN [probe EXCEPT ![c] = outcome] ELSE probe

\* A block number arrives, whichever request of the process asked for it, is
\* kept, and answers the handler if it waits for one.
ChainAnswers(c) ==
    /\ Served /\ ~Kept(c) /\ health[c] = "up"
    /\ age' = [age EXCEPT ![c] = 0]
    /\ Settled(c, "passed")
    /\ UNCHANGED <<startVars, health, lastUp, handler, waited, checks, reply, seenUp>>

\* The chain fails, or the earlier request that the handler waits for does.
ChainFails(c) ==
    /\ Waits(c) /\ Settled(c, "failed")
    /\ UNCHANGED <<startVars, health, age, lastUp, handler, waited, checks, reply, seenUp>>

\* Mutants: who has not answered in time is let through, or asked again.
TimedOutPasses == "passed"
TimedOutAgain == "pending"

TimedOut == "failed"

\* withTimeout(): the timer wins the race; what comes later is ignored.
ChainTimesOut(c) ==
    /\ waited = Timeout /\ Waits(c) /\ Settled(c, TimedOut)
    /\ UNCHANGED <<startVars, health, age, lastUp, handler, waited, checks, reply, seenUp>>

\* Mutant: the first chain to settle is enough.
ChainsSettledAny == \E c \in Chains : probe[c] # "pending"

\* Promise.all()
ChainsSettled == \A c \in Chains : probe[c] # "pending"

AskSolana ==
    /\ handler = "chains" /\ ChainsSettled
    /\ handler' = "solana" /\ waited' = 0
    /\ seenUp' = seenUp \union {d \in {"solana"} : health[d] = "up"}
    /\ UNCHANGED <<startVars, health, age, lastUp, probe, checks, reply>>

\* One check of getReadiness()
SolanaCheck ==
    /\ handler = "solana" /\ Len(checks) < ChecksToMake
    /\ health["solana"] # "silent"
    /\ checks' = Append(checks, IF health["solana"] = "up" THEN "passed" ELSE "failed")
    /\ UNCHANGED <<startVars, health, age, lastUp, handler, waited, probe, reply, seenUp>>

SolanaOk == \A i \in DOMAIN checks : checks[i] = "passed"

Reply ==
    /\ handler = "solana" /\ Len(checks) = ChecksToMake
    /\ handler' = "idle"
    /\ reply' = IF (\A c \in Chains : probe[c] = "passed") /\ SolanaOk
                THEN "ready" ELSE "degraded"
    /\ probe' = [c \in Chains |-> "pending"] /\ checks' = <<>>
    /\ UNCHANGED <<startVars, health, age, lastUp, waited, seenUp>>

\* Time passes, and no timer is late.
Tick ==
    /\ Served /\ (handler = "chains" => waited < Timeout)
    /\ waited' = IF handler = "chains" THEN waited + 1 ELSE waited
    /\ age' = [c \in Chains |-> Older(age[c])]
    /\ lastUp' = [c \in Chains |-> IF health[c] = "up" THEN 0 ELSE Older(lastUp[c])]
    /\ UNCHANGED <<startVars, health, handler, probe, checks, reply, seenUp>>

\* A dependency comes or goes.
Change(d) ==
    /\ Served
    /\ \E h \in {"up", "down", "silent"} \ {health[d]} :
         /\ health' = [health EXCEPT ![d] = h]
         /\ seenUp' = IF h = "up" /\ (d \in Chains => handler = "chains")
                                  /\ (d \notin Chains => handler = "solana")
                      THEN seenUp \union {d} ELSE seenUp
         /\ lastUp' = [c \in Chains |-> IF c = d /\ h = "up" THEN 0 ELSE lastUp[c]]
    /\ UNCHANGED <<startVars, age, handler, waited, probe, checks, reply>>

Init ==
    /\ StartInit
    /\ health = [d \in Chains \union {"solana"} |-> "up"]
    /\ age = [c \in Chains |-> CacheTime] /\ lastUp = [c \in Chains |-> 0]
    /\ handler = "idle" /\ waited = 0 /\ checks = <<>> /\ reply = NoAnswer
    /\ probe = [c \in Chains |-> "pending"] /\ seenUp = {}

Next ==
    \/ (Load \/ Build \/ Serve \/ RedisFlips) /\ UNCHANGED probeVars
    \/ Begin \/ AskSolana \/ SolanaCheck \/ Reply \/ Tick
    \/ \E c \in Chains : ChainAnswers(c) \/ ChainFails(c) \/ ChainTimesOut(c)
    \/ \E d \in Chains \union {"solana"} : Change(d)

\* Nothing holds up the start; Redis need not stay as it is.  Timers fire,
\* and the handler goes on when it can.  Nobody has to ask and no dependency
\* has to answer, but an answer of Solana's node arrives.
Fairness ==
    /\ WF_vars(StartStep /\ UNCHANGED probeVars)
    /\ WF_vars(Tick) /\ WF_vars(AskSolana) /\ WF_vars(SolanaCheck) /\ WF_vars(Reply)
    /\ \A c \in Chains : WF_vars(ChainTimesOut(c))

Spec == Init /\ [][Next]_vars /\ Fairness

-----------------------------------------------------------------------------
(* Properties *)

\* "ready" is never said of a chain that has been failing or silent since
\* CacheTime before the request came, nor of a Solana that was not up while
\* the request could ask it, however the answers, the timeouts, the changes
\* and what other requests leave in the clients interleave; a Solana that is
\* off is not waited for.
ReadyIsEarned ==
    reply = "ready" => Chains \subseteq seenUp /\ (config.solana => "solana" \in seenUp)

\* Chains alone never keep a caller waiting, whatever they do; only a Solana
\* node that is silent can, for its checks have no timeout.
Answers == handler = "chains" ~> (handler = "idle" \/ health["solana"] = "silent")

=============================================================================
