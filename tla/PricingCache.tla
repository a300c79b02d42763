----------------------------- MODULE PricingCache -----------------------------
(***************************************************************************)
(* PricingService of src/src/modules/pricing/service.ts over the provider  *)
(* of providers/coingecko.ts: concurrent requests, one cache, and a        *)
(* provider that answers late, wrongly or not at all.                      *)
(*                                                                         *)
(* A price is abstracted to the asset it is of and the moment at which the *)
(* provider looked at the market.  Requests name a numeraire of a chain,   *)
(* or an asset (the path of Solana launches).                              *)
(***************************************************************************)
EXTENDS Integers

CONSTANTS
    Requests,       \* calls of the service
    Chains, Tokens, Assets,
    Default,        \* per chain: its default numeraire, or None
    None,
    DefaultAsset,   \* pricing.coingeckoAssetId
    Ttl,            \* pricing.cacheTtlMs, in ticks
    Timeout,        \* pricing.timeoutMs, in ticks
    MaxNow          \* bound on the clock; the last requests come a timeout before

ASSUME PricingAssumption ==
    /\ Default \in [Chains -> Tokens \union {None}]
    /\ DefaultAsset \in Assets
    /\ None \notin Tokens \union {"cached", "fetched"} /\ "asset" \notin Chains
    /\ Ttl \in Nat \ {0} /\ Timeout \in Nat \ {0}
    /\ MaxNow \in Nat /\ MaxNow >= Timeout

VARIABLES
    enabled,   \* pricing.enabled, with a provider
    cache,     \* per cache key: a price and when it expires
    quote,      \* per request: its progress and its answer
    now

pricingVars == <<enabled, cache, quote, now>>

Asks == (Chains \X Tokens) \union ({"asset"} \X Assets)

\* The asset that a price for this request must be of.
Asset(ask) == IF ask[1] = "asset" THEN ask[2] ELSE DefaultAsset

Supported(ask) == ask[1] = "asset" \/ Default[ask[1]] = ask[2]

\* Mutant: the cache key of a numeraire leaves out its chain.
KeyWithoutChain(ask) == IF ask[1] = "asset" THEN ask ELSE <<"any", ask[2]>>

CacheKey(ask) == ask
CacheKeys == {CacheKey(ask) : ask \in Asks}

NoPrice == [asset |-> None, at |-> 0]
Prices == [asset : Assets, at : 0..MaxNow]

Entries == [price : Prices \union {NoPrice}, expires : Nat]

QuoteRecords ==
    [pc : {"idle", "asked", "looked", "done"}, ask : Asks \union {None},
     start : 0..MaxNow, price : Prices \union {NoPrice}, told : 0..MaxNow,
     answer : {None, "override", "cached", "fetched", "refused", "failed"}]

PricingTypeOK ==
    /\ enabled \in BOOLEAN
    /\ now \in 0..MaxNow
    /\ cache \in [CacheKeys -> Entries]
    /\ quote \in [Requests -> QuoteRecords]

PricingInit ==
    /\ enabled \in BOOLEAN
    /\ cache = [k \in CacheKeys |-> [price |-> NoPrice, expires |-> 0]]
    /\ quote = [r \in Requests |->
                 [pc |-> "idle", ask |-> None, start |-> 0, price |-> NoPrice,
                  told |-> 0, answer |-> None]]
    /\ now = 0

Done(r, ask, kind, price) ==
    quote' = [quote EXCEPT ![r].pc = "done", ![r].ask = ask, ![r].answer = kind,
                         ![r].price = price, ![r].told = now]

Fresh(k) == cache[k].expires > now

\* resolveNumerairePriceUsd() without a usable override, and
\* getUsdPriceByAssetId(), up to the call of the provider.  The clock is
\* read before the fetch.
Resolve(r, ask) ==
    LET k == CacheKey(ask) IN
    CASE ~enabled -> Done(r, ask, "refused", NoPrice)
      [] enabled /\ Fresh(k) -> Done(r, ask, "cached", cache[k].price)
      [] enabled /\ ~Fresh(k) /\ ~Supported(ask) -> Done(r, ask, "refused", NoPrice)
      [] OTHER -> quote' = [quote EXCEPT ![r].pc = "asked", ![r].ask = ask, ![r].start = now]

AskPrice(r) ==
    /\ quote[r].pc = "idle"
    /\ now + Timeout <= MaxNow
    /\ \E ask \in Asks :
         \/ Resolve(r, ask)
         \/ ask[1] # "asset" /\ Done(r, ask, "override", NoPrice)
         \/ ask[1] # "asset" /\ Done(r, ask, "refused", NoPrice)
    /\ UNCHANGED <<enabled, cache, now>>

\* The provider looks at the market; its answer is on the way.
Look(r) ==
    /\ quote[r].pc = "asked"
    /\ quote' = [quote EXCEPT ![r].pc = "looked",
                            ![r].price = [asset |-> Asset(quote[r].ask), at |-> now]]
    /\ UNCHANGED <<enabled, cache, now>>

\* Mutant: the entry lives from when the answer came.
EntryFromAnswer(r) == [price |-> quote[r].price, expires |-> now + Ttl]

Entry(r) == [price |-> quote[r].price, expires |-> quote[r].start + Ttl]

\* A positive price: kept and answered.
Receive(r) ==
    /\ quote[r].pc = "looked"
    /\ cache' = [cache EXCEPT ![CacheKey(quote[r].ask)] = Entry(r)]
    /\ Done(r, quote[r].ask, "fetched", quote[r].price)
    /\ UNCHANGED <<enabled, now>>

\* An HTTP error, no positive price, a broken connection, or the timer of
\* the AbortController.  Nothing is kept.
FetchFails(r) ==
    /\ quote[r].pc = "looked" \/ (quote[r].pc = "asked" /\ now >= quote[r].start + Timeout)
    /\ Done(r, quote[r].ask, "failed", NoPrice)
    /\ UNCHANGED <<enabled, cache, now>>

\* The timer fires: no answer is waited for beyond it.
Tick ==
    /\ now < MaxNow
    /\ \A r \in Requests :
         quote[r].pc \in {"asked", "looked"} => now < quote[r].start + Timeout
    /\ now' = now + 1
    /\ UNCHANGED <<enabled, cache, quote>>

PricingNext == Tick \/ \E r \in Requests : AskPrice(r) \/ Look(r) \/ Receive(r) \/ FetchFails(r)

PricingSpec == PricingInit /\ [][PricingNext]_pricingVars

-----------------------------------------------------------------------------
(* Properties *)

\* However fetches overlap and in whatever order they are stored, a price
\* from the cache was the market's less than one TTL before it was served.
CachedPricesAreYoung ==
    \A r \in Requests :
        quote[r].answer = "cached" => quote[r].told - quote[r].price.at < Ttl

\* A price is of the asset asked for, and none is served for a numeraire
\* that the provider does not support, cached or not.
PricesFitTheRequest ==
    \A r \in Requests :
        quote[r].answer \in {"cached", "fetched"}
        => /\ enabled /\ Supported(quote[r].ask)
           /\ quote[r].price.asset = Asset(quote[r].ask)

=============================================================================
