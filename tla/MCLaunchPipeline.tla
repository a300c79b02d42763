--------------------------- MODULE MCLaunchPipeline ---------------------------
(* Instances of LaunchPipeline for TLC. *)
EXTENDS LaunchPipeline

CONSTANTS r1, r2, r3, k1

Three == {r1, r2, r3}
TwoOnOneKey == [r \in Three |-> IF r = r3 THEN None ELSE k1]

Sound(family, migration) ==
    [auction |-> family, migration |-> migration, governance |-> "noOp",
     numeraire |-> "given", price |-> "given", flaws |-> {}]

Families == {Sound("static", "none"), Sound("multicurve", "none"),
             Sound("dynamic", "uniswapV2"), Sound("dynamic", "uniswapV4"),
             Sound("dynamic", "uniswapV4Rehype")}

\* The flaws that the schema lets through, and a body it refuses.
Flaws == {"parse", "limit_end", "chain", "sale", "fees", "curves"}

\* A sound body of each family, and all that differ from it in the flaws
\* and in one of the choices.
Bodies ==
    UNION {{[[i EXCEPT !.flaws = f] EXCEPT !.governance = g, !.numeraire = n, !.price = p] :
              f \in {{}} \union {{x} : x \in Flaws},
              g \in {"noOp", "default", "custom"}, n \in {"given", "default"},
              p \in {"given", "auto"}} : i \in Families}

Open ==
    [auctions |-> {"static", "multicurve", "dynamic"},
     governanceModes |-> {"noOp", "default", "custom"}, governanceEnabled |-> TRUE,
     migrations |-> {"uniswapV2", "uniswapV4"}, hasNumeraire |-> TRUE, pricing |-> TRUE,
     requireKey |-> FALSE, traffic |-> "one of any kind"]

\* A deployment that allows everything and five that do not, for one request
\* at a time, and the first again for launches that compete.
MCDeployments ==
    {Open, [Open EXCEPT !.governanceEnabled = FALSE],
     [Open EXCEPT !.governanceModes = {"noOp"}],
     [Open EXCEPT !.auctions = {"multicurve"}, !.pricing = FALSE],
     [Open EXCEPT !.migrations = {"uniswapV2"}, !.hasNumeraire = FALSE],
     [Open EXCEPT !.requireKey = TRUE],
     [Open EXCEPT !.traffic = "races"]}

MCCallers == [t \in {"one of any kind", "races"} |-> IF t = "races" THEN Three ELSE {r3}]
MCInputs ==
    [t \in {"one of any kind", "races"} |->
        IF t = "races" THEN {Sound("static", "none")} ELSE Bodies]

=============================================================================
