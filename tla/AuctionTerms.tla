----------------------------- MODULE AuctionTerms -----------------------------
(***************************************************************************)
(* An EVM create request from its body to what the SDK's builder is given: *)
(* the common terms (SaleTerms) and then the auction's (CurveTerms), in    *)
(* the order in which the auction services resolve them.  The rules of the *)
(* deployment, the calls and the transaction are in LaunchPipeline.        *)
(***************************************************************************)
EXTENDS SaleTerms, CurveTerms

\* What the schemas say of single fields, as far as the terms rest on it.
Address == [account : STRING, spelling : STRING]
MaybeNat == Nat \union {None}

CurveTyped(c) ==
    /\ c.type \in {"preset", "ranges", "static", "dynamic"}
    /\ c.fee \in MaybeNat /\ (c.type # "static" => c.spacing \in MaybeNat)
    /\ c.type = "preset" => c.presets \in Seq({"low", "medium", "high"}) \union {None}
    /\ c.type = "ranges" =>
         c.ranges \in Seq([start : Nat, end : Nat \union {Open}, shares : Nat])
    /\ c.type = "static" => {c.start, c.end} \subseteq Nat
    /\ c.type = "dynamic" =>
         /\ {c.min, c.start, c.minProceeds, c.maxProceeds} \subseteq Nat
         /\ {c.duration, c.epoch, c.spacing, c.gamma} \subseteq MaybeNat \ {0}

InitializerTyped(r) ==
    /\ r.start \in Nat /\ {r.end, r.duration} \subseteq MaybeNat
    /\ r.beneficiaries \in Seq([account : STRING, shares : Nat]) \union {None}

Typed(i) ==
    /\ {i.user, i.owner} \subseteq Address
    /\ i.supply \in Nat /\ {i.forSale, i.limit} \subseteq MaybeNat
    /\ i.allocations \in
         Seq([address : Address, amount : Nat, duration : Nat, cliff : Nat]) \union {None}
    /\ i.beneficiaries \in Seq([address : Address, amount : Nat]) \union {None}
    /\ CurveTyped(i.curve)
    /\ Multicurve(i.curve) => InitializerTyped(i.initializer)

ASSUME BodiesAssumption ==
    None \notin Int \union {"ok"} /\ \A family \in Bodies : \A i \in family : Typed(i)

WellFormed(i) == CommonWellFormed(i) /\ AuctionWellFormed(i)

Parse ==
    /\ stage = "parse"
    /\ IF WellFormed(input) THEN stage' = "sale" /\ UNCHANGED <<input, plan, answer>>
       ELSE Done("INVALID_REQUEST")

TermsInit ==
    /\ \E family \in Bodies : input \in family
    /\ stage = "parse" /\ answer = None
    /\ plan = [forSale |-> 0, allocations |-> <<>>, fees |-> <<>>, source |-> None,
               spacing |-> None, ranges |-> <<>>, destination |-> None]

TermsNext ==
    \/ Parse
    \/ ResolveSaleNumbers \/ ResolveAllocationPlan \/ NormalizeFeeBeneficiaries
    \/ Preset \/ Ranges \/ Static \/ Dynamic \/ Initializer

TermsSpec == TermsInit /\ [][TermsNext]_termsVars

-----------------------------------------------------------------------------
(* Properties *)

Accepted == answer = "ok"

\* A launch that is built mints exactly its supply: what is sold and what is
\* locked add up to it, on each of the ways the two are derived from one
\* another, at least a fifth is sold, and the limit on balances leaves no
\* account able to hold everything.
SupplyIsSpent ==
    Accepted =>
        /\ plan.forSale + Total(plan.allocations) = input.supply
        /\ 5 * plan.forSale >= input.supply
        /\ AllOf(plan.allocations, LAMBDA e : e.amount > 0)
        /\ input.limit # None => input.limit < input.supply

\* Whatever the spelling of the addresses, and whether the owner is named,
\* appended or is the user: the shares sum to one, no account has two
\* entries, the owner has at least a twentieth, and the contract's maximum
\* of entries is kept.
FeesAreWhole ==
    Accepted =>
        /\ Total(plan.fees) = WAD
        /\ Unique(plan.fees)
        /\ Len(plan.fees) <= MAX_FEE_BENEFICIARIES
        /\ \E i \in DOMAIN plan.fees :
             /\ Account(plan.fees[i].address) = Account(input.owner)
             /\ 20 * plan.fees[i].amount >= WAD

\* What docs/custom-curves.md says of presets: a spacing that is not in the
\* request is the largest one, no greater than the default of the fee, that
\* divides every boundary of the selected presets; also where the choice is
\* left to the SDK, and where the tier has none and the default is derived.
SpacingIsLargest ==
    (Accepted /\ Curve.type = "preset" /\ Curve.spacing = None) =>
        LET fee == Or(Curve.fee, LOW)
            spacing == IF plan.spacing # None THEN plan.spacing ELSE TICK_SPACINGS[fee]
            presets == IF Given(Curve.presets) = <<>> THEN {"low", "medium", "high"}
                       ELSE Range(Curve.presets)
            ticks == BoundariesOf(presets)
        IN /\ Divides(spacing, ticks)
           /\ \A s \in (spacing + 1)..SpacingLimit(fee) : ~Divides(s, ticks)

\* Exactly the documented requests reach the builder, in whatever order the
\* functions look at them: the second look at the allocations refuses nothing
\* the first let pass, the pairwise checks of the ranges make one partition,
\* the union of initializers takes one destination, and defaults count before
\* they are compared.
AcceptsWhatIsDocumented ==
    stage = "done" =>
        (Accepted <=> /\ CommonWellFormed(input) /\ InBounds(input)
                      /\ SaleDocumented(input) /\ FeesDocumented(input)
                      /\ AuctionDocumented(input))

=============================================================================
