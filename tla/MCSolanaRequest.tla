----------------------------- MODULE MCSolanaRequest -----------------------------
(* An instance of SolanaRequest for TLC. *)
EXTENDS SolanaRequest

Base ==
    [route |-> "dedicated", network |-> "devnet", metadata |-> TRUE, unknown |-> FALSE,
     supply |-> 4, distribution |-> None, liquidity |-> None, numeraire |-> None, price |-> 1,
     beneficiaries |-> None, cpmm |-> FALSE, raise |-> None, root |-> 2, curveFee |-> None,
     swapFee |-> None, dynamic |-> None, gate |-> None]

Shares(a, n) == [address |-> a, shareBps |-> n]
Lists ==
    {None, <<>>, <<Shares("a", 4)>>, <<Shares("a", 0)>>, <<Shares("a", 3)>>,
     <<Shares("a", 2), Shares("b", 2)>>, <<Shares("a", 2), Shares("a", 2)>>,
     <<Shares("admin", 4)>>, <<Shares("a", 1), Shares("payer", 3)>>,
     <<Shares("a", 2), Shares("b", 1), Shares("c", 1)>>}

\* One field, or the fields a rule relates, away from a request that is fine.
Economics ==
    {[Base EXCEPT !.supply = s, !.distribution = d, !.liquidity = l, !.cpmm = c, !.raise = r,
                  !.root = q] :
        s \in {0, 1, 3, 4, 9}, d \in {None, 0, 2, 3}, l \in {None, 0, 1},
        c \in BOOLEAN, r \in {None, 0, 1, 9}, q \in {1, 2, 3}}

Fields ==
    {[Base EXCEPT !.route = r[1], !.network = r[2], !.metadata = m, !.unknown = u, !.price = p,
                  !.numeraire = n] :
        r \in {<<"generic", "solanaDevnet">>, <<"generic", "solanaMainnetBeta">>,
               <<"dedicated", None>>, <<"dedicated", "mainnet-beta">>,
               <<"dedicated", "solanaDevnet">>},
        m \in BOOLEAN, u \in BOOLEAN, p \in {None, 0, 1}, n \in {None, "wsol", "other"}}

FeeFields ==
    {[Base EXCEPT !.beneficiaries = b, !.curveFee = c, !.swapFee = s, !.dynamic = d, !.gate = g] :
        b \in Lists, c \in {None, 1, 3}, s \in {None, 3}, g \in {None, 0, 9},
        d \in {None, [start |-> 2, end |-> 1, duration |-> 0],
               [start |-> 2, end |-> 1, duration |-> 5], [start |-> 1, end |-> 2, duration |-> 5],
               [start |-> 1, end |-> 1, duration |-> 0]}}

MalformedStrings == {[Base EXCEPT !.supply = Malformed], [Base EXCEPT !.raise = Malformed]}

Deployment == [enabled |-> TRUE, defaultNetwork |-> "solanaDevnet", fixed |-> None,
               mode |-> "required", provider |-> TRUE, market |-> 2, payer |-> "payer"]

Some ==
    {[Deployment EXCEPT !.enabled = e, !.defaultNetwork = n, !.fixed = f, !.mode = m,
                        !.provider = p] :
        e \in BOOLEAN, n \in {"solanaDevnet", "solanaMainnetBeta"}, f \in {None, 3},
        m \in {"required", "coingecko"}, p \in BOOLEAN}

\* The rules of the body by one deployment, the rules about the network and
\* the price by all of them.
MCCases ==
    {[bodies |-> b, deployments |-> {Deployment}] : b \in {Economics, FeeFields, MalformedStrings}}
    \union {[bodies |-> Fields, deployments |-> Some]}

Account(admin, fee, lo) == [admin |-> admin, protocolFee |-> fee, minFee |-> lo, maxFee |-> 2]
Accounts == {Account("admin", 1, 1), Account("payer", 1, 2), Account("a", 4, 1)}

=============================================================================
