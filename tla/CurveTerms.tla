------------------------------- MODULE CurveTerms -------------------------------
(***************************************************************************)
(* The shape of an auction: the curve and initializer schemas of the three *)
(* auction families (modules/auctions/*/schema.ts), the tick spacing the   *)
(* multicurve service chooses (tick-spacing.ts) and the values it hands to *)
(* the SDK's builder.                                                      *)
(*                                                                         *)
(* Market caps and amounts are small numbers and a WAD is WAD units; ticks *)
(* and fees have their real size.                                          *)
(***************************************************************************)
EXTENDS AuctionRequest, Functions, FiniteSetsExt

CONSTANTS
    Open,                      \* the end "max" of a range
    PresetTicks,               \* the SDK's lower and upper tick of each preset
    TICK_SPACINGS,             \* the SDK's spacing of each fee tier
    LOW,                       \* FEE_TIERS.LOW
    V4_MAX_FEE,
    V4_MAX_TICK_SPACING,
    DOPPLER_MAX_TICK_SPACING,
    DEFAULT_AUCTION_DURATION,
    DEFAULT_EPOCH_LENGTH,
    MAX_HOOK_FEE               \* of a Rehype initializer

ASSUME CurveAssumption ==
    /\ LOW \in DOMAIN TICK_SPACINGS /\ DOMAIN TICK_SPACINGS \subseteq Nat
    /\ \A fee \in DOMAIN TICK_SPACINGS : TICK_SPACINGS[fee] \in Nat \ {0}
    /\ PresetTicks \in [{"low", "medium", "high"} -> Int \X Int]
    /\ WAD \in Nat \ {0} /\ DOPPLER_MAX_TICK_SPACING \in Nat \ {0}
    /\ DEFAULT_EPOCH_LENGTH \in Nat \ {0} /\ DEFAULT_AUCTION_DURATION \in Nat \ {0}
    /\ DEFAULT_AUCTION_DURATION % DEFAULT_EPOCH_LENGTH = 0
    /\ Open \notin Nat

Curve == input.curve
Shares(entries) == SumOf([i \in DOMAIN entries |-> entries[i].shares])
AllPositive(entries) == \A i \in DOMAIN entries : entries[i].shares > 0

-----------------------------------------------------------------------------
(* The schemas *)

InRange(field, lowest, highest) == field # None => field \in lowest..highest

FeeAndSpacing(c) ==
    InRange(c.fee, 0, V4_MAX_FEE) /\ InRange(c.spacing, 1, V4_MAX_TICK_SPACING)

\* rangesCurveConfigSchema looks at a range and at the one after it.
EndsAbove(r) == r.end # Open => r.end > r.start

Meets(r, next) == r.end # Open /\ next.start = r.end

RangesWellFormed(c) ==
    /\ FeeAndSpacing(c)
    /\ c.ranges # <<>>
    /\ \A i \in DOMAIN c.ranges : EndsAbove(c.ranges[i])
    /\ \A i \in 1..(Len(c.ranges) - 1) : Meets(c.ranges[i], c.ranges[i + 1])
    /\ Shares(c.ranges) = WAD

\* staticRangeCurveConfigSchema, staticPresetCurveConfigSchema
StaticWellFormed(c) ==
    /\ c.fee # None => c.fee \in {100, 500, 3000, 10000}
    /\ InRange(c.maxShare, 1, WAD)
    /\ c.preset = None => c.end > c.start

EpochsFit(c) ==
    Or(c.duration, DEFAULT_AUCTION_DURATION) % Or(c.epoch, DEFAULT_EPOCH_LENGTH) = 0

\* dynamicRangeCurveConfigSchema
DynamicWellFormed(c) ==
    /\ c.min < c.start
    /\ c.maxProceeds > 0 /\ c.minProceeds <= c.maxProceeds
    /\ InRange(c.fee, 0, V4_MAX_FEE)
    /\ InRange(c.spacing, 1, DOPPLER_MAX_TICK_SPACING)
    /\ c.fee \notin DOMAIN TICK_SPACINGS \union {None} => c.spacing # None
    /\ EpochsFit(c)
    /\ c.gamma # None => c.gamma % Or(c.spacing, DOPPLER_MAX_TICK_SPACING) = 0

CurveWellFormed(c) ==
    CASE c.type = "preset" -> FeeAndSpacing(c)
      [] c.type = "ranges" -> RangesWellFormed(c)
      [] c.type = "static" -> StaticWellFormed(c)
      [] c.type = "dynamic" -> DynamicWellFormed(c)

\* rehypeFeeBeneficiariesSchema, for a list that is there
RehypeBeneficiariesWellFormed(entries) ==
    /\ Len(entries) \in 1..10 /\ AllPositive(entries)
    /\ \A i, j \in DOMAIN entries : i # j => entries[i].account # entries[j].account
    /\ Shares(entries) = WAD

\* rehypeInitializerSchema: a union of strict shapes, so that an object with
\* both destinations has neither shape.
DestinationWellFormed(r) ==
    IF r.buyback # None THEN r.beneficiaries = None
    ELSE r.beneficiaries # None /\ RehypeBeneficiariesWellFormed(r.beneficiaries)

DecayWellFormed(r) ==
    LET end == Or(r.end, r.start)
    IN r.start >= end /\ (r.start > end => Or(r.duration, 0) > 0)

\* rehypeFeeDistributionInfoSchema, each side a sequence of four weights
SidesAddUp(r) == \A side \in {r.asset, r.numeraire} : SumOf(side) = WAD

InitializerWellFormed(r) ==
    /\ InRange(r.start, 0, MAX_HOOK_FEE) /\ InRange(r.end, 0, MAX_HOOK_FEE)
    /\ DestinationWellFormed(r) /\ DecayWellFormed(r) /\ SidesAddUp(r)

Multicurve(c) == c.type \in {"preset", "ranges"}

AuctionWellFormed(a) ==
    CurveWellFormed(a.curve)
    /\ (Multicurve(a.curve) => InitializerWellFormed(a.initializer))

-----------------------------------------------------------------------------
(* tick-spacing.ts *)

\* Euclid's loop: gcd[y][x].
gcd[y \in Nat] == [x \in Nat |-> IF y = 0 THEN x ELSE gcd[x % y][y]]

AbsTick(tick) == IF tick < 0 THEN -tick ELSE tick

gcdMany(ticks) ==
    LET acc[n \in 0..Len(ticks)] ==
            IF n = 0 THEN 0 ELSE gcd[AbsTick(ticks[n])][acc[n - 1]]
    IN acc[Len(ticks)]

\* The fee in hundredths of a basis point, over 50, rounded half up.
deriveTickSpacingFromFee(fee) == Max({1, (fee + 25) \div 50})

SpacingLimit(fee) ==
    IF fee \in DOMAIN TICK_SPACINGS THEN TICK_SPACINGS[fee] ELSE deriveTickSpacingFromFee(fee)

\* None leaves the spacing to the SDK.
UnlessSdk(spacing, fee) ==
    IF fee \in DOMAIN TICK_SPACINGS /\ TICK_SPACINGS[fee] = spacing THEN None ELSE spacing

AllPresets == <<"low", "medium", "high">>

\* Mutant: an empty list selects nothing.
SelectedAsGiven(c) == Or(c.presets, AllPresets)

Selected(c) == IF Given(c.presets) = <<>> THEN AllPresets ELSE c.presets

\* The two ticks of each preset, one preset after the other.
TicksOf(presets) ==
    [k \in 1..2 * Len(presets) |-> PresetTicks[presets[(k + 1) \div 2]][IF k % 2 = 1 THEN 1 ELSE 2]]

\* The loop goes down from the smaller of the limit and the divisor.
LargestDivisor(g, limit) == Max({s \in 1..Min({limit, g}) : g % s = 0})

resolvePresetTickSpacing(c) ==
    LET fee == Or(c.fee, LOW)
        g == gcdMany(TicksOf(Selected(c)))
        limit == SpacingLimit(fee)
    IN IF c.spacing # None THEN c.spacing
       ELSE UnlessSdk(IF g <= 0 THEN limit ELSE LargestDivisor(g, limit), fee)

resolveRangesTickSpacing(c) ==
    IF c.spacing # None THEN c.spacing
    ELSE IF c.fee \in DOMAIN TICK_SPACINGS \union {None} THEN None
    ELSE deriveTickSpacingFromFee(c.fee)

-----------------------------------------------------------------------------
(* The request *)

Preset ==
    /\ stage = "curve" /\ Curve.type = "preset"
    /\ plan' = [plan EXCEPT !.spacing = resolvePresetTickSpacing(Curve)]
    /\ stage' = "initializer" /\ UNCHANGED <<input, answer>>

\* parsePositiveBigInt() refuses a share of "0", which the schema lets pass.
Ranges ==
    /\ stage = "curve" /\ Curve.type = "ranges"
    /\ IF AllPositive(Curve.ranges)
       THEN /\ plan' = [plan EXCEPT !.spacing = resolveRangesTickSpacing(Curve),
                                    !.ranges = Curve.ranges]
            /\ stage' = "initializer" /\ UNCHANGED <<input, answer>>
       ELSE Done("INVALID_BIGINT")

\* resolveStaticMarketCapRange()
STATIC_MARKET_CAP_PRESETS ==
    [low |-> <<7500, 30000>>, medium |-> <<50000, 150000>>, high |-> <<250000, 750000>>]

Static ==
    /\ stage = "curve" /\ Curve.type = "static"
    /\ plan' = [plan EXCEPT !.ranges =
                  IF Curve.preset # None THEN STATIC_MARKET_CAP_PRESETS[Curve.preset]
                  ELSE <<Curve.start, Curve.end>>]
    /\ Conclude("ok")

\* Absent fields are left to the SDK.
Dynamic ==
    /\ stage = "curve" /\ Curve.type = "dynamic"
    /\ plan' = [plan EXCEPT !.spacing = Curve.spacing]
    /\ Conclude("ok")

Initializer ==
    /\ stage = "initializer"
    /\ plan' = [plan EXCEPT !.destination =
                  Or(input.initializer.beneficiaries, input.initializer.buyback)]
    /\ Conclude("ok")

-----------------------------------------------------------------------------
(* The documentation *)

BoundariesOf(presets) == {PresetTicks[p][k] : p \in presets, k \in {1, 2}}

Divides(spacing, ticks) == \A t \in ticks : AbsTick(t) % spacing = 0

\* What the guides document of each shape, in terms of what it is for.
Covers(r, cap) == r.start <= cap /\ (r.end = Open \/ cap < r.end)

\* The ranges, in order, hold every market cap from the first start to the
\* last end exactly once.
RangesDocumented(ranges) ==
    LET caps == {r.start : r \in Range(ranges)} \union
                ({r.end : r \in Range(ranges)} \ {Open})
        inside == {cap \in caps : \E r \in Range(ranges) : r.end = Open \/ cap < r.end}
    IN /\ ranges # <<>> /\ AllPositive(ranges) /\ Shares(ranges) = WAD
       /\ \A i, j \in DOMAIN ranges : i < j => ranges[i].start < ranges[j].start
       /\ \A r \in Range(ranges) : Covers(r, r.start)
       /\ \A cap \in inside : Cardinality({i \in DOMAIN ranges : Covers(ranges[i], cap)}) = 1

\* So many whole steps make the total.
IsMultiple(total, step) == \E n \in 1..total : n * step = total

\* Every epoch of the auction is whole, and the curve moves by whole ticks.
DynamicDocumented(c) ==
    /\ IsMultiple(Or(c.duration, DEFAULT_AUCTION_DURATION), Or(c.epoch, DEFAULT_EPOCH_LENGTH))
    /\ c.gamma # None => IsMultiple(c.gamma, Or(c.spacing, DOPPLER_MAX_TICK_SPACING))
    /\ c.fee \in {None} \union DOMAIN TICK_SPACINGS \/ c.spacing # None
    /\ c.min < c.start /\ 0 < c.maxProceeds /\ ~(c.maxProceeds < c.minProceeds)

\* One destination, a fee that never rises and moves only over time.
InitializerDocumented(r) ==
    /\ (r.buyback = None) <=> (r.beneficiaries # None)
    /\ r.beneficiaries # None =>
         /\ r.beneficiaries # <<>> /\ AllPositive(r.beneficiaries)
         /\ Shares(r.beneficiaries) = WAD
         /\ Cardinality({e.account : e \in Range(r.beneficiaries)}) = Len(r.beneficiaries)
    /\ r.end \notin {None, r.start} => r.end < r.start /\ r.duration \notin {None, 0}
    /\ SumOf(r.asset) = WAD /\ SumOf(r.numeraire) = WAD

\* The bounds that the reference gives of single fields.
InBounds(a) ==
    /\ a.curve.type = "static" =>
         a.curve.fee \in {None, 100, 500, 3000, 10000} /\ InRange(a.curve.maxShare, 1, WAD)
    /\ a.curve.type = "dynamic" =>
         /\ InRange(a.curve.fee, 0, V4_MAX_FEE)
         /\ InRange(a.curve.spacing, 1, DOPPLER_MAX_TICK_SPACING)
    /\ Multicurve(a.curve) =>
         /\ FeeAndSpacing(a.curve)
         /\ InRange(a.initializer.start, 0, MAX_HOOK_FEE)
         /\ InRange(a.initializer.end, 0, MAX_HOOK_FEE)
         /\ Len(Given(a.initializer.beneficiaries)) <= 10

AuctionDocumented(a) ==
    CASE a.curve.type = "preset" -> InitializerDocumented(a.initializer)
      [] a.curve.type = "ranges" -> /\ RangesDocumented(a.curve.ranges)
                                    /\ InitializerDocumented(a.initializer)
      [] a.curve.type = "static" -> a.curve.preset # None \/ a.curve.start < a.curve.end
      [] a.curve.type = "dynamic" -> DynamicDocumented(a.curve)

=============================================================================
