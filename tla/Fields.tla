-------------------------------- MODULE Fields --------------------------------
(***************************************************************************)
(* What the models of requests share: a field that is absent, its default, *)
(* and the sums that the schemas and mappers take with reduce().           *)
(***************************************************************************)
EXTENDS Integers, Sequences

CONSTANT None   \* an absent value

Or(field, default) == IF field = None THEN default ELSE field

\* A recursive function, for the proofs.
SumOf(numbers) ==
    LET sum[n \in 0..Len(numbers)] == IF n = 0 THEN 0 ELSE sum[n - 1] + numbers[n]
    IN sum[Len(numbers)]

=============================================================================
