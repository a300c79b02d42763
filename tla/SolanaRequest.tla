------------------------------ MODULE SolanaRequest ------------------------------
(***************************************************************************)
(* From the body of a Solana create request to the terms of the launch:    *)
(* solana-schema.ts, and what SolanaLaunchService.createLaunch() does in   *)
(* solana.ts before it builds the instruction.  What it does after that is *)
(* in SolanaLaunch.                                                        *)
(*                                                                         *)
(* Amounts and basis points are small numbers.  The range of market caps   *)
(* is the square root of its ratio, a number whose square is exact.        *)
(***************************************************************************)
EXTENDS Fields, Integers, Sequences, FiniteSets

CONSTANTS
    Cases,             \* families of bodies, each with the route it is sent to, with
                       \* the deployments that serve them: config.solana, the payer
                       \* and whether prices are provided
    Configs,           \* what the initializer's account on chain may say
    Malformed,         \* a string that is not a decimal integer
    U64_MAX,
    BPS,               \* SOLANA_FEE_BPS_DENOMINATOR
    MAX_BENEFICIARIES  \* SOLANA_MAX_FEE_BENEFICIARIES

ASSUME RequestAssumption ==
    U64_MAX \in Nat /\ BPS \in Nat \ {0} /\ MAX_BENEFICIARIES \in Nat

\* What the types of the schema admit, with basis points inside their bounds
\* and strings of digits inside those of durations.
Body(r) ==
    /\ r.route \in {"generic", "dedicated"}
    /\ {r.metadata, r.unknown, r.cpmm} \subseteq BOOLEAN
    /\ {r.supply, r.distribution, r.liquidity, r.raise, r.gate}
         \subseteq Nat \union {None, Malformed}
    /\ r.price \in Nat \union {None} /\ r.root \in Nat
    /\ r.beneficiaries \in Seq([address : STRING, shareBps : Nat]) \union {None}
    /\ r.dynamic # None => /\ {r.dynamic.start, r.dynamic.end} \subseteq 0..BPS
                           /\ r.dynamic.duration \in Nat \union {Malformed}

Deployed(d) ==
    /\ d.enabled \in BOOLEAN /\ d.defaultNetwork \in {"solanaDevnet", "solanaMainnetBeta"}
    /\ d.market # None

ASSUME CasesAssumption ==
    /\ None \notin Nat \union Configs \union {Malformed} /\ Malformed \notin Nat
    /\ None \notin {"solanaDevnet", "solanaMainnetBeta", "devnet", "mainnet-beta",
                   "built", "SOLANA_NOT_READY"}
    /\ \A c \in Cases : (\A r \in c.bodies : Body(r)) /\ (\A d \in c.deployments : Deployed(d))

VARIABLES
    request,   \* the body
    config,    \* the deployment that serves it
    chain,     \* the initializer's account on chain
    stage,     \* the next step of the handler
    terms,     \* what the instruction will be built from
    answer

requestVars == <<request, config, chain, stage, terms, answer>>

Bps(entries) == SumOf([i \in DOMAIN entries |-> entries[i].shareBps])
Distinct(entries) ==
    \A i, j \in DOMAIN entries : i # j => entries[i].address # entries[j].address

-----------------------------------------------------------------------------
(* The schema: the set of parts it finds an issue in *)

IntegerStrings(r) ==
    {r.supply, r.distribution, r.liquidity, r.raise, r.gate}
    \union (IF r.dynamic = None THEN {} ELSE {r.dynamic.duration})

\* A refinement runs although the pattern before it failed, and BigInt()
\* throws what is no validation issue.
SchemaThrows(r) == Malformed \in IntegerStrings(r)

\* solanaEconomicsSchema
EconomicsWellFormed(r) ==
    LET reserved == Or(r.distribution, 0) + Or(r.liquidity, 0)
    IN /\ r.supply \in 1..U64_MAX
       /\ {r.distribution, r.liquidity} \subseteq 0..U64_MAX \union {None}
       /\ reserved < r.supply

\* solanaFeeBeneficiariesSchema: an empty list is allowed.
BeneficiariesWellFormed(list) ==
    list \notin {None, <<>>} =>
        /\ Len(list) <= MAX_BENEFICIARIES
        /\ \A i \in DOMAIN list : list[i].shareBps \in 1..BPS
        /\ Distinct(list) /\ Bps(list) = BPS

\* solanaMigrationSchema
MigrationWellFormed(r) ==
    /\ r.raise # None => r.raise \in 1..U64_MAX
    /\ r.cpmm => r.raise # None

\* solanaDynamicFeeSchema
DynamicFeeWellFormed(d) ==
    d # None => d.end <= d.start /\ (d.start > d.end => d.duration > 0)

\* solanaAuctionSchema
AuctionWellFormed(r) ==
    /\ DynamicFeeWellFormed(r.dynamic)
    /\ r.gate \in 0..U64_MAX \union {None}
    /\ (r.curveFee # None /\ r.swapFee # None) => r.curveFee = r.swapFee

NetworksOf(route) ==
    IF route = "generic" THEN {"solanaDevnet", "solanaMainnetBeta"}
    ELSE {"devnet", "mainnet-beta", None}

Issues(r) ==
    {part \in {"network", "metadata", "curve", "economics", "unknown", "pricing",
               "beneficiaries", "migration"} :
        CASE part = "network" -> r.network \notin NetworksOf(r.route)
          [] part = "metadata" -> ~r.metadata
          [] part = "curve" -> ~AuctionWellFormed(r)
          [] part = "economics" -> ~EconomicsWellFormed(r)
          [] part = "unknown" -> r.unknown
          [] part = "pricing" -> r.price = 0
          [] part = "beneficiaries" -> ~BeneficiariesWellFormed(r.beneficiaries)
          [] part = "migration" -> ~MigrationWellFormed(r)}

\* remapSolanaSchemaError(): the first of these parts names the error, and an
\* unknown key in the economics does not count as one of them.
ErrorOf(issues) ==
    IF "metadata" \in issues THEN "SOLANA_INVALID_METADATA"
    ELSE IF "curve" \in issues THEN "SOLANA_INVALID_CURVE"
    ELSE IF "economics" \in issues THEN "SOLANA_INVALID_ECONOMICS"
    ELSE IF "beneficiaries" \in issues THEN "SOLANA_INVALID_FEE_BENEFICIARIES"
    ELSE "INVALID_REQUEST"

\* Mutant: an omitted network is devnet, whatever the deployment says.
CanonicalAsDevnet(r, d) ==
    CASE r.network \in {"devnet", None} -> "solanaDevnet"
      [] r.network = "mainnet-beta" -> "solanaMainnetBeta"
      [] OTHER -> r.network

\* normalizeDedicatedSolanaCreateRequest()
Canonical(r, d) ==
    CASE r.network = None -> d.defaultNetwork
      [] r.network = "devnet" -> "solanaDevnet"
      [] r.network = "mainnet-beta" -> "solanaMainnetBeta"
      [] OTHER -> r.network

-----------------------------------------------------------------------------
(* createLaunch() *)

Go(next) == stage' = next /\ UNCHANGED <<request, config, chain, answer>>
Refuse(code) ==
    stage' = "done" /\ answer' = code /\ UNCHANGED <<request, config, chain, terms>>

Parse ==
    /\ stage = "parse"
    /\ IF SchemaThrows(request) THEN Refuse("INTERNAL_ERROR")
       ELSE IF Issues(request) # {} THEN Refuse(ErrorOf(Issues(request)))
       ELSE Go("rules") /\ UNCHANGED terms

ReservesBase == Or(request.distribution, 0) + Or(request.liquidity, 0) > 0

\* assertEnabled(), assertSupportedNetwork(), the reserves without a
\* migration, resolveNumeraireAddress()
Rules ==
    /\ stage = "rules"
    /\ IF ~config.enabled \/ Canonical(request, config) = "solanaMainnetBeta"
       THEN Refuse("SOLANA_NETWORK_UNSUPPORTED")
       ELSE IF ~request.cpmm /\ ReservesBase THEN Refuse("SOLANA_INVALID_ECONOMICS")
       ELSE IF request.numeraire = "other" THEN Refuse("SOLANA_NUMERAIRE_UNSUPPORTED")
       ELSE Go("price") /\ UNCHANGED terms

\* resolveNumerairePriceUsd(), with the answers of the pricing service
Price ==
    /\ stage = "price"
    /\ LET own == Or(request.price, config.fixed) IN
       IF own # None THEN Go("curve") /\ terms' = [terms EXCEPT !.price = own]
       ELSE IF config.mode # "coingecko" THEN Refuse("SOLANA_NUMERAIRE_PRICE_REQUIRED")
       ELSE IF ~config.provider THEN Refuse("PRICE_REQUIRED")
       ELSE \/ Go("curve") /\ terms' = [terms EXCEPT !.price = config.market]
            \/ Refuse("PRICE_FETCH_FAILED")

BaseForCurve(r) == r.supply - Or(r.distribution, 0) - Or(r.liquidity, 0)

\* resolveVirtualBaseForRange()
VirtualBase(r) == BaseForCurve(r) \div (r.root - 1)

\* The end of the curve sells what is left against virtualBase, so that the
\* ratio of the market caps is (base + virtual)^2 to virtual^2.  It may be 2%
\* off the requested one; the quote side is the SDK's.
Stable(base, virtual, root) ==
    LET derived == (base + virtual) * (base + virtual)
        wanted == root * root * virtual * virtual
    IN 50 * (IF derived > wanted THEN derived - wanted ELSE wanted - derived) <= wanted

\* deriveSolanaCurveConfig()
Curve ==
    /\ stage = "curve"
    /\ IF /\ request.root > 1
          /\ VirtualBase(request) \in 1..U64_MAX
          /\ Stable(BaseForCurve(request), VirtualBase(request), request.root)
       THEN Go("readiness") /\ terms' = [terms EXCEPT !.virtualBase = VirtualBase(request)]
       ELSE Refuse("SOLANA_INVALID_CURVE")

\* Each of the checks of getReadiness() may fail.
Readiness ==
    /\ stage = "readiness"
    /\ \/ Go("fetch") /\ UNCHANGED terms
       \/ Refuse("SOLANA_NOT_READY")

\* A second fetch of the account that readiness has just looked at; its
\* failure is nobody's.
Fetch ==
    /\ stage = "fetch"
    /\ \/ Go("fees") /\ terms' = [terms EXCEPT !.config = chain]
       \/ Refuse("INTERNAL_ERROR")

RequestedList == Or(request.beneficiaries, <<>>)

\* resolveSwapFeeBps()
SwapFee == Or(Or(request.swapFee, request.curveFee), terms.config.minFee)

Beneficiaries ==
    IF RequestedList # <<>> THEN RequestedList
    ELSE IF terms.config.protocolFee >= BPS THEN <<>>
    ELSE <<[address |-> config.payer, shareBps |-> BPS]>>

\* Mutant: the payer is not compared with the protocol's beneficiary.
ProtocolNotRequested ==
    \A i \in DOMAIN RequestedList : RequestedList[i].address # terms.config.admin

\* resolveFeeBeneficiaries(): the payer who is the protocol's beneficiary has
\* to name somebody else.
ProtocolStaysOut ==
    \A i \in DOMAIN Beneficiaries : Beneficiaries[i].address # terms.config.admin

Fees ==
    /\ stage = "fees"
    /\ IF SwapFee \notin terms.config.minFee..terms.config.maxFee
       THEN Refuse("SOLANA_INVALID_CURVE")
       ELSE IF ~ProtocolStaysOut THEN Refuse("SOLANA_INVALID_FEE_BENEFICIARIES")
       ELSE Go("gate") /\ terms' = [terms EXCEPT !.swapFee = SwapFee, !.fees = Beneficiaries]

\* resolveManagedCosignerGate(): only a gate is looked up.
Gate ==
    /\ stage = "gate"
    /\ \/ stage' = "done" /\ answer' = "built" /\ UNCHANGED <<request, config, chain, terms>>
       \/ request.gate # None /\ Refuse("SOLANA_NOT_READY")

\* The initializer's administrator changes its account.
Reconfigure ==
    /\ stage # "done" /\ chain' \in Configs
    /\ UNCHANGED <<request, config, stage, terms, answer>>

RequestInit ==
    /\ \E c \in Cases : request \in c.bodies /\ config \in c.deployments
    /\ chain \in Configs
    /\ stage = "parse" /\ answer = None
    /\ terms = [price |-> None, virtualBase |-> 0, config |-> None, swapFee |-> None,
                fees |-> <<>>]

RequestNext ==
    \/ Parse \/ Rules \/ Price \/ Curve \/ Readiness \/ Fetch \/ Fees \/ Gate
    \/ Reconfigure

RequestSpec == RequestInit /\ [][RequestNext]_requestVars

-----------------------------------------------------------------------------
(* Properties *)

Built == answer = "built"

\* What docs/api-reference.md says a Solana create request is, apart from
\* what only the chain can tell.
RequestDocumented(r, d) ==
    LET reserved == Or(r.distribution, 0) + Or(r.liquidity, 0)
        shares == Or(r.beneficiaries, <<>>)
    IN /\ Malformed \notin IntegerStrings(r) /\ r.metadata /\ ~r.unknown /\ r.price # 0
       /\ \/ <<r.route, r.network>> \in
                 {<<"generic", "solanaDevnet">>, <<"dedicated", "devnet">>}
          \/ <<r.route, r.network>> = <<"dedicated", None>>
                 /\ d.defaultNetwork = "solanaDevnet"
       /\ r.supply \in 1..U64_MAX /\ reserved < r.supply
       /\ reserved > 0 => r.cpmm
       /\ r.cpmm => r.raise # None
       /\ {r.raise, r.gate} \subseteq 0..U64_MAX \union {None} /\ r.raise # 0
       /\ r.numeraire # "other"
       /\ r.root > 1
       /\ Cardinality({r.curveFee, r.swapFee} \ {None}) < 2
       /\ r.dynamic # None => \/ r.dynamic.start = r.dynamic.end
                              \/ r.dynamic.start > r.dynamic.end /\ r.dynamic.duration # 0
       /\ shares # <<>> =>
            /\ Bps(shares) = BPS /\ \A i \in DOMAIN shares : shares[i].shareBps > 0
            /\ Cardinality({shares[i].address : i \in DOMAIN shares}) = Len(shares)
            /\ Len(shares) <= MAX_BENEFICIARIES

\* "Deterministic request validation runs before dependency readiness
\* checks": no request that its text alone condemns costs a readiness check
\* or is told to come back later.
DeterministicFirst ==
    stage \in {"readiness", "fetch", "fees", "gate"} \/ answer = "SOLANA_NOT_READY"
        => RequestDocumented(request, config) /\ config.enabled

\* Whatever the account of the initializer says when it is fetched, and
\* however it changes around that: fees go to distinct accounts, in shares
\* that make one whole unless the protocol takes all, and the protocol's
\* beneficiary, who is paid by the program, is never among them.
FeesAreRouted ==
    Built =>
        /\ Distinct(terms.fees)
        /\ \A i \in DOMAIN terms.fees : terms.fees[i].address # terms.config.admin
        /\ IF terms.fees = <<>>
           THEN terms.config.protocolFee >= BPS /\ Or(request.beneficiaries, <<>>) = <<>>
           ELSE Bps(terms.fees) = BPS
        /\ terms.swapFee \in terms.config.minFee..terms.config.maxFee

\* The other direction of DeterministicFirst: a request that is as documented
\* is refused only for what the outside says.
RefusalsHaveACause ==
    (stage = "done" /\ ~Built /\ RequestDocumented(request, config) /\ config.enabled) =>
        \/ answer \in {"SOLANA_NOT_READY", "PRICE_FETCH_FAILED"}
        \/ answer = "INTERNAL_ERROR" /\ terms.price # None
        \/ /\ answer \in {"SOLANA_NUMERAIRE_PRICE_REQUIRED", "PRICE_REQUIRED"}
           /\ request.price = None /\ config.fixed = None
        \/ answer = "SOLANA_INVALID_CURVE" /\ terms.price # None
        \/ answer = "SOLANA_INVALID_FEE_BENEFICIARIES" /\ terms.config # None

\* Both directions: exactly the documented requests get past what can be
\* decided without the outside.
AcceptsWhatIsDocumented == DeterministicFirst /\ RefusalsHaveACause

=============================================================================
