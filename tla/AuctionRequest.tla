---------------------------- MODULE AuctionRequest ----------------------------
(***************************************************************************)
(* The state that SaleTerms and CurveTerms share: one EVM create request   *)
(* on its way from the schema to the SDK's builder.                        *)
(***************************************************************************)
EXTENDS Fields, Integers, Sequences, FiniteSets

CONSTANTS
    Bodies,    \* families of request bodies, each with the Airlock owner it will meet
    WAD        \* one, as a fixed-point number

VARIABLES
    input,     \* the request
    stage,     \* the next function of the service
    plan,      \* what has been resolved so far
    answer

termsVars == <<input, stage, plan, answer>>

Given(list) == Or(list, <<>>)

Conclude(a) == stage' = "done" /\ answer' = a /\ UNCHANGED input
Done(a) == Conclude(a) /\ UNCHANGED plan

=============================================================================
