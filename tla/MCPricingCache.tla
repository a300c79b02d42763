---------------------------- MODULE MCPricingCache ----------------------------
(* An instance of PricingCache for TLC. *)
EXTENDS PricingCache

CONSTANTS r1, r2

Two == {r1, r2}

\* weth is the default numeraire of base, and only a token of mainnet.
OneDefault == [c \in {"base", "mainnet"} |-> IF c = "base" THEN "weth" ELSE None]

=============================================================================
