---------------------------- MODULE MCReadiness ----------------------------
(* An instance of Readiness for TLC. *)
EXTENDS Readiness

Base ==
    [apiKey |-> TRUE, privateKey |-> "key", production |-> FALSE, mode |-> None,
     redisUrl |-> TRUE, enabled |-> None, backend |-> None, requireKey |-> None,
     lockTtl |-> None, lockRefresh |-> None, rpc |-> {1}, defaultChain |-> None,
     numeraire |-> FALSE, provider |-> None, solana |-> None, table |-> FALSE, network |-> None,
     priceMode |-> None, fixed |-> None, keypair |-> None, keypairPath |-> None,
     solanaRpcUrl |-> TRUE, solanaWsUrl |-> TRUE, confirm |-> None]

\* Everything that decides how replicas coordinate
Coordination ==
    {[Base EXCEPT !.production = p, !.mode = m, !.redisUrl = u, !.enabled = e, !.backend = b,
                  !.requireKey = k, !.lockTtl = t, !.lockRefresh = r] :
        p \in BOOLEAN, m \in {None, Bad, "standalone", "shared"}, u \in BOOLEAN,
        e \in {None, Bad, "off"}, b \in {None, Bad, "file", "redis"},
        k \in {None, "on"}, t \in {None, Bad, 3}, r \in {None, 9, 2}}

\* The credentials and the chains
Chained ==
    {[Base EXCEPT !.apiKey = a, !.privateKey = k, !.rpc = r, !.defaultChain = d,
                  !.numeraire = n, !.provider = p] :
        a \in BOOLEAN, k \in {None, Bad, "key"}, r \in SUBSET {1, 143},
        d \in {None, Bad, 1, 143, 7}, n \in BOOLEAN, p \in {None, Bad, "none"}}

Solana ==
    {[Base EXCEPT !.solana = s, !.network = n, !.priceMode = m, !.fixed = f, !.keypair = k,
                  !.keypairPath = p, !.solanaRpcUrl = u, !.solanaWsUrl = w, !.confirm = c] :
        s \in {None, Bad, "on"}, n \in {None, Bad},
        m \in {None, Bad, "fixed", "coingecko"}, f \in {None, Bad, 150},
        k \in {None, Bad, "keys"}, p \in {None, Bad, "keys"},
        u \in BOOLEAN, w \in BOOLEAN, c \in {None, Bad}}

\* Solana off, and on with a lookup table of its own
Probes == {[Base EXCEPT !.solana = s[1], !.table = s[2], !.keypair = "keys"] :
             s \in {<<None, FALSE>>, <<"on", TRUE>>}}

All == {Coordination, Chained, Solana, Probes}

TwoChains == {"base", "monad"}

=============================================================================
