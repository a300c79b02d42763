SPECIFICATION PricingSpec
CONSTANTS
    r1 = r1
    r2 = r2
    None = None
    Requests <- Two
    Chains = {"base", "mainnet"}
    Tokens = {"weth"}
    Assets = {"ethereum", "solana"}
    Default <- OneDefault
    DefaultAsset = "ethereum"
    Ttl = 3
    Timeout = 2
    MaxNow = 6
INVARIANT PricesFitTheRequest
INVARIANT CachedPricesAreYoung
\* The requests are finitely many: all answered, the clock stops at its bound.
CHECK_DEADLOCK FALSE
