------------------------------- MODULE SaleTerms -------------------------------
(***************************************************************************)
(* What is sold, what is locked and who shares the pool fees: the common   *)
(* part of the request schema (modules/launches/schema.ts) and the         *)
(* functions of modules/auctions/multicurve/mapper.ts, in the order the    *)
(* auction services call them.                                             *)
(*                                                                         *)
(* Token amounts are small numbers and a WAD is WAD units; an address is   *)
(* an account and the spelling of its hexadecimal digits.                  *)
(***************************************************************************)
EXTENDS AuctionRequest

CONSTANTS
    MAX_VESTING_ALLOCATIONS,
    MAX_FEE_BENEFICIARIES,
    MIN_DURATION,            \* of a vesting schedule
    LOCK_DURATION            \* of the allocation the service makes itself

ASSUME TermsAssumption ==
    /\ WAD \in Nat \ {0} /\ WAD % 20 = 0
    /\ MAX_VESTING_ALLOCATIONS \in Nat \ {0} /\ MAX_FEE_BENEFICIARIES \in Nat \ {0, 1}
    /\ MIN_DURATION \in Nat /\ LOCK_DURATION \in Nat

Account(address) == address.account
Total(entries) == SumOf([i \in DOMAIN entries |-> entries[i].amount])
AllOf(entries, Good(_)) == \A i \in DOMAIN entries : Good(entries[i])

\* Addresses are compared in lower case.
Unique(entries) ==
    \A i, j \in DOMAIN entries :
        i # j => Account(entries[i].address) # Account(entries[j].address)

-----------------------------------------------------------------------------
(* The schema *)

Positive(entry) == entry.amount > 0 /\ Account(entry.address) # "zero"

VestingWellFormed(entry) ==
    /\ Positive(entry)
    /\ entry.duration >= MIN_DURATION
    /\ entry.cliff <= entry.duration

\* vestingAllocationSchema: an array that is there is not empty.
AllocationsWellFormed(i) ==
    i.allocations # None =>
        /\ Len(i.allocations) \in 1..MAX_VESTING_ALLOCATIONS
        /\ AllOf(i.allocations, VestingWellFormed)

\* poolFeeBeneficiariesSchema: an array that is there may be empty.
BeneficiariesWellFormed(i) ==
    /\ Len(Given(i.beneficiaries)) <= MAX_FEE_BENEFICIARIES
    /\ AllOf(Given(i.beneficiaries), Positive)
    /\ Unique(Given(i.beneficiaries))

\* tokenMetadataSchema
BalanceLimitWellFormed(i) ==
    /\ (i.limit = None) <=> (i.limitEnd = None)
    /\ i.excluded # {} => i.limit # None
    /\ i.limit # None => i.limit > 0

\* economicsSchema
EconomicsWellFormed(i) == i.supply > 0 /\ (i.forSale # None => i.forSale > 0)

CommonWellFormed(i) ==
    /\ EconomicsWellFormed(i)
    /\ AllocationsWellFormed(i)
    /\ BeneficiariesWellFormed(i)
    /\ BalanceLimitWellFormed(i)

-----------------------------------------------------------------------------
(* The functions of the mapper *)

Explicit == Total(Given(input.allocations))

\* Mutant: allocations are added to what is sold by default.
TokensForSaleWithoutAllocations ==
    IF input.forSale # None THEN input.forSale ELSE input.supply

TokensForSale ==
    IF input.forSale # None THEN input.forSale ELSE input.supply - Explicit

\* Mutant: the fifth is taken of what is locked.
EnoughForSaleOfRest(forSale) ==
    forSale < input.supply => 5 * forSale >= input.supply - forSale

\* MIN_MARKET_SALE_PERCENT
EnoughForSale(forSale) ==
    forSale < input.supply => 100 * forSale >= 20 * input.supply

AllocationsFit(forSale) ==
    Given(input.allocations) # <<>> => Explicit = input.supply - forSale

InSupply(forSale) == forSale \in 1..input.supply

\* resolveSaleNumbers()
ResolveSaleNumbers ==
    /\ stage = "sale"
    /\ LET sold == TokensForSale IN
       CASE ~InSupply(sold) -> Done("INVALID_ECONOMICS")
         [] InSupply(sold) /\ input.limit # None /\ input.limit >= input.supply ->
              Done("INVALID_TOKEN_CONFIG")
         [] OTHER ->
              IF EnoughForSale(sold) /\ AllocationsFit(sold)
              THEN /\ plan' = [plan EXCEPT !.forSale = sold]
                   /\ stage' = "allocations" /\ UNCHANGED <<input, answer>>
              ELSE Done("INVALID_ECONOMICS")

\* resolveAllocationPlan(): what is not sold and not allocated is locked for
\* the user.
ResolveAllocationPlan ==
    /\ stage = "allocations"
    /\ LET rest == input.supply - plan.forSale
           entries == IF rest = 0 THEN <<>>
                      ELSE IF Given(input.allocations) # <<>> THEN input.allocations
                      ELSE <<[address |-> input.user, amount |-> rest,
                              duration |-> LOCK_DURATION, cliff |-> 0]>>
       IN IF (rest = 0 /\ input.allocations # None) \/ Total(entries) # rest
          THEN Done("INVALID_ECONOMICS")
          ELSE /\ plan' = [plan EXCEPT !.allocations = entries]
               /\ stage' = "fees" /\ UNCHANGED <<input, answer>>

PROTOCOL_MIN_SHARE == WAD \div 20
ProtocolEntry == [address |-> input.owner, amount |-> PROTOCOL_MIN_SHARE]

DefaultShares ==
    IF Account(input.user) = Account(input.owner)
    THEN <<[address |-> input.owner, amount |-> WAD]>>
    ELSE <<[address |-> input.user, amount |-> (WAD * 95) \div 100],
           [address |-> input.owner, amount |-> (WAD * 5) \div 100]>>

\* Mutant: the owner is looked for as written.
OwnerIsThereAsWritten == \E i \in DOMAIN input.beneficiaries :
                             input.beneficiaries[i].address = input.owner

OwnerIsThere == \E i \in DOMAIN input.beneficiaries :
                    Account(input.beneficiaries[i].address) = Account(input.owner)

OwnerHasEnough ==
    \A i \in DOMAIN input.beneficiaries :
        Account(input.beneficiaries[i].address) = Account(input.owner)
        => input.beneficiaries[i].amount >= PROTOCOL_MIN_SHARE

SharesAddUp ==
    Total(input.beneficiaries) = IF OwnerIsThere THEN WAD ELSE WAD - PROTOCOL_MIN_SHARE

EntriesFit ==
    Len(input.beneficiaries) + (IF OwnerIsThere THEN 0 ELSE 1) <= MAX_FEE_BENEFICIARIES

\* normalizeFeeBeneficiaries()
NormalizeFeeBeneficiaries ==
    /\ stage = "fees"
    /\ LET none == Given(input.beneficiaries) = <<>>
           entries == IF none THEN DefaultShares
                      ELSE IF OwnerIsThere THEN input.beneficiaries
                      ELSE Append(input.beneficiaries, ProtocolEntry)
       IN IF none \/ (SharesAddUp /\ EntriesFit /\ (OwnerIsThere => OwnerHasEnough))
          THEN /\ plan' = [plan EXCEPT !.fees = entries,
                                       !.source = IF none THEN "default" ELSE "request"]
               /\ stage' = "curve" /\ UNCHANGED <<input, answer>>
          ELSE Done("INVALID_FEE_BENEFICIARIES")

-----------------------------------------------------------------------------
(* The documentation *)

\* What the reference documents of the fields, stated of a body as a whole.
SaleDocumented(i) ==
    LET allocated == Total(Given(i.allocations))
        sold == IF i.forSale # None THEN i.forSale ELSE i.supply - allocated
    IN /\ sold \in 1..i.supply
       /\ sold < i.supply => 100 * sold >= 20 * i.supply
       /\ i.allocations # None => allocated = i.supply - sold
       /\ i.limit # None => i.limit < i.supply

\* What goes to others than the owner leaves the owner a twentieth at least.
FeesDocumented(i) ==
    LET entries == i.beneficiaries
        named == {Account(entries[k].address) : k \in DOMAIN entries}
        others == SumOf([k \in DOMAIN entries |->
                          IF Account(entries[k].address) = Account(i.owner) THEN 0
                          ELSE entries[k].amount])
    IN Given(entries) # <<>> =>
         IF Account(i.owner) \in named
         THEN Total(entries) = WAD /\ 20 * others <= 19 * WAD
         ELSE 20 * others = 19 * WAD /\ Cardinality(named) < MAX_FEE_BENEFICIARIES

=============================================================================
