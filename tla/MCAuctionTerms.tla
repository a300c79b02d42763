---------------------------- MODULE MCAuctionTerms ----------------------------
(* An instance of AuctionTerms for TLC: the inputs vary one group of fields *)
(* around a request that is fine.                                           *)
EXTENDS AuctionTerms

StaticCurve == [type |-> "static", preset |-> "low", start |-> 1, end |-> 2, fee |-> None,
                maxShare |-> None]

Addr(a, s) == [account |-> a, spelling |-> s]
User == Addr("user", "lower")
OtherOwner == Addr("owner", "mixed")

Base ==
    [supply |-> 10, forSale |-> None, allocations |-> None, beneficiaries |-> None,
     limit |-> None, limitEnd |-> None, excluded |-> {}, user |-> User, owner |-> OtherOwner,
     curve |-> StaticCurve, initializer |-> None]

SeqsUpTo(S, n) == UNION {[1..k -> S] : k \in 0..n}

Vesting(amounts) ==
    [address : {Addr("a", "lower")}, amount : amounts, duration : {1, 2}, cliff : {0, 2}]

\* Sales: every division of small supplies, with schedules that are too
\* short, cliffs that are too long and one allocation too many.
Sales ==
    {[Base EXCEPT !.supply = s, !.forSale = f, !.allocations = a, !.limit = l, !.limitEnd = e,
                  !.excluded = x] :
        s \in {0, 1, 4, 5, 6, 10}, f \in {None, 0, 1, 2, 5, 6, 10, 11},
        a \in {None} \union SeqsUpTo(Vesting({0, 1, 4, 5, 8}), 1)
              \union SeqsUpTo([address : {User}, amount : {1, 3, 4, 5}, duration : {2}, cliff : {0}], 3),
        l \in {None, 5}, e \in {None, 9}, x \in {{}, {"a"}}}

Sharers == {Addr("user", "lower"), Addr("user", "mixed"), Addr("owner", "lower"),
            Addr("owner", "mixed"), Addr("zero", "lower")}

\* Fees: up to three entries in any spelling, by a user who may be the owner.
Fees ==
    {[Base EXCEPT !.beneficiaries = b, !.user = u] :
        b \in {None} \union SeqsUpTo([address : (Sharers \ {Addr("zero", "lower")})
                                                \union {Addr("b", "lower")},
                                      amount : {1, 9, 10, 18, 19, 20}], 2)
              \union [1..1 -> [address : Sharers, amount : {0, 20}]]
              \union {<<[address |-> p, amount |-> 9], [address |-> q, amount |-> 9],
                        [address |-> r, amount |-> n]>> :
                        p \in {User}, q \in {Addr("b", "lower")},
                        r \in {Addr("c", "lower"), Addr("owner", "lower"), Addr("user", "mixed")},
                        n \in {1, 2}},
        u \in {User, Addr("owner", "lower"), Addr("owner", "mixed")}}

Ticks == [low |-> <<-600, 1000>>, medium |-> <<300, 700>>, high |-> <<-450, 750>>]
Tiers == [f \in {100, 500, 3000, 10000} |->
            CASE f = 100 -> 1 [] f = 500 -> 10 [] f = 3000 -> 60 [] f = 10000 -> 200]

Side == <<20, 0, 0, 0>>
Hook == [start |-> 3, end |-> None, duration |-> None, buyback |-> "b", beneficiaries |-> None,
         asset |-> Side, numeraire |-> Side]
PresetCurve == [type |-> "preset", presets |-> None, fee |-> None, spacing |-> None]

Presets ==
    {[Base EXCEPT !.curve = [PresetCurve EXCEPT !.presets = p, !.fee = f, !.spacing = s], !.initializer = Hook] :
        p \in {None} \union SeqsUpTo({"low", "medium", "high"}, 2),
        f \in {None, 0, 75, 100, 500, 3000, 9000, 10000, 20000}, s \in {None, 7}}

\* Ranges of every shape over three market caps, and one list of three.
RangeSet(shares) == [start : {1, 2, 3}, end : {1, 2, 3, Open}, shares : shares]

RangeCurves ==
    {[Base EXCEPT !.curve = [type |-> "ranges", ranges |-> r, fee |-> f, spacing |-> None], !.initializer = Hook] :
        r \in SeqsUpTo(RangeSet({0, 10, 20}), 2)
              \union {[i \in 1..3 |-> [start |-> i, end |-> e[i], shares |-> n[i]]] :
                        e \in [1..3 -> {2, 3, 4, Open}],
                        n \in {<<5, 5, 10>>, <<10, 0, 10>>, <<10, 10, 5>>}},
        f \in {None, 3000, 20}}

\* Initializers: every destination, schedule and split.
Entries == [account : {"a", "b"}, shares : {0, 10, 20}]
Sides == {Side, <<5, 5, 5, 5>>, <<10, 10, 10, 0>>}

Initializers ==
    {[Base EXCEPT !.curve = PresetCurve, !.initializer = [start |-> 3, end |-> e, duration |-> d, buyback |-> b, beneficiaries |-> r,
                       asset |-> x, numeraire |-> y]] :
        e \in {None, 2, 3, 5}, d \in {None, 0, 9}, b \in {None, "b"},
        r \in {None} \union SeqsUpTo(Entries, 2), x \in Sides, y \in Sides}

Statics ==
    {[Base EXCEPT !.curve = [type |-> "static", preset |-> p, start |-> a, end |-> b, fee |-> f,
                 maxShare |-> None]] :
        p \in {None, "low", "high"}, a \in {1, 2}, b \in {1, 2}, f \in {None, 100, 300}}

Dynamics ==
    {[Base EXCEPT !.curve = [type |-> "dynamic", start |-> 2, min |-> m, minProceeds |-> q[1],
                 maxProceeds |-> q[2], duration |-> d, epoch |-> e, fee |-> f, spacing |-> s,
                 gamma |-> g]] :
        m \in {1, 2}, q \in {<<0, 0>>, <<1, 1>>, <<2, 1>>}, d \in {None, 6, 9},
        e \in {None, 2, 5}, f \in {None, 75, 3000}, s \in {None, 20}, g \in {None, 30, 40, 60}}

MCBodies == {Sales, Fees, Presets, RangeCurves, Initializers, Statics, Dynamics}

=============================================================================
