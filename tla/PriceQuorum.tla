---------------------------- MODULE PriceQuorum ----------------------------
(***************************************************************************)
(* How a dollar price is settled, packages/pricing/src/index.ts: what each  *)
(* market source answers, the largest group of fresh sources that agree,    *)
(* and the prices derived from it, one book around the other: USDCx from a  *)
(* pool, the protocol stablecoins from a pool and an independent reference, *)
(* and the receipt tokens from the conversion rate of their contract.       *)
(* Confidence is in percent.  Caches and time are in PriceBooks.            *)
(***************************************************************************)
EXTENDS Integers, FiniteSets, Sequences, FiniteSetsExt, Functions

CONSTANT PriceScale    \* one dollar in fixed point, 10^8 in the code

ASSUME PriceScaleAssumption == PriceScale \in Nat \ {0}

MinimumSources == 2
MaxDivergence == 150    \* basis points
MaxPegDivergence == 500
MinimumConfidence == 70

Sources == <<"dia", "coingecko", "coinbase", "pyth">>

(* A reading older than "life" seconds counts as stale.                     *)
Dia == [life |-> 900, fresh |-> 90, stale |-> 45, of |-> {"BTC", "STX", "USDH"}]
CoinGecko == [life |-> 300, fresh |-> 88, stale |-> 40, of |-> {"BTC", "STX"}]
Coinbase == [life |-> 120, fresh |-> 88, stale |-> 40, of |-> {"BTC", "STX", "USDC"}]
Pyth == [life |-> 60, fresh |-> 92, stale |-> 40, of |-> {"BTC", "STX", "USDC"}]

Profile == [dia |-> Dia, coingecko |-> CoinGecko, coinbase |-> Coinbase, pyth |-> Pyth]

(* "on" is what a quote rests on, <<source, market>>; the code only words   *)
(* it.                                                                      *)
NoQuote == [price |-> 0, age |-> 0, confidence |-> 0, on |-> {}]

Underlying(asset) == IF asset = "sBTC" THEN "BTC" ELSE IF asset = "USDh" THEN "USDH" ELSE asset

(* One source of one asset, given the price and the age it reports, or      *)
(* nothing: a request that fails, is denied or does not cover the asset.    *)
SourceQuote(s, asset, reading) ==
    IF reading = NoQuote \/ asset \notin Profile[s].of
    THEN NoQuote
    ELSE [price |-> reading.price, age |-> reading.age, on |-> {<<s, asset>>},
          confidence |-> IF reading.age <= Profile[s].life THEN Profile[s].fresh
                         ELSE Profile[s].stale]

-----------------------------------------------------------------------------
(* The quorum: of the usable quotes c, by the places of their sources.      *)
Usable(q) == q # NoQuote /\ q.confidence >= MinimumConfidence /\ q.price > 0

Candidates(quotes) ==
    [i \in {k \in DOMAIN Sources : Usable(quotes[Sources[k]])} |-> quotes[Sources[i]]]

Distance(x, y) == IF x > y THEN x - y ELSE y - x
Divergence(x, y) == (Distance(x, y) * 10000) \div x    \* of y from x, in basis points

Agree(c, S) == \A i, j \in S : i < j => Divergence(c[i].price, c[j].price) <= MaxDivergence

ClustersOfAll(c) ==    \* mutant: all usable quotes agree, or there is no price
    {S \in {DOMAIN c} : Cardinality(S) >= MinimumSources /\ Agree(c, S)}

Clusters(c) ==
    {S \in SUBSET DOMAIN c : Cardinality(S) >= MinimumSources /\ Agree(c, S)}

Trust(c, S) == SumFunctionOnSet([i \in DOMAIN c |-> c[i].confidence], S)

(* Clusters are listed as the binary numbers of their members: ties go to   *)
(* the one listed first.                                                    *)
ListedBefore(S, T) == \E i \in T \ S : \A j \in S \ T : j < i

Preferred(c, S, T) ==
    \/ Cardinality(S) > Cardinality(T)
    \/ /\ Cardinality(S) = Cardinality(T)
       /\ \/ Trust(c, S) > Trust(c, T)
          \/ Trust(c, S) = Trust(c, T) /\ ListedBefore(S, T)

Selected(c) ==
    CHOOSE S \in Clusters(c) : \A T \in Clusters(c) \ {S} : Preferred(c, S, T)

(* Of the prices in ascending order, the one that k others precede.         *)
Cheaper(c, i, j) == c[i].price < c[j].price \/ (c[i].price = c[j].price /\ i < j)
Nth(c, S, k) == c[CHOOSE j \in S : Cardinality({i \in S : Cheaper(c, i, j)}) = k].price

Median(c, S) ==
    LET half == Cardinality(S) \div 2
    IN  IF Cardinality(S) % 2 = 1 THEN Nth(c, S, half)
        ELSE (Nth(c, S, half - 1) + Nth(c, S, half)) \div 2

QuorumQuote(quotes) ==
    LET c == Candidates(quotes)
        S == Selected(c)
    IN  IF Clusters(c) = {} THEN NoQuote
        ELSE [price |-> Median(c, S), age |-> Max({c[i].age : i \in S}),
              confidence |-> Min({c[i].confidence : i \in S}),
              on |-> UNION {c[i].on : i \in S}]

-----------------------------------------------------------------------------
(* What the books around it see of the world: m.reading[asset][source], the *)
(* price of each pool in fixed point (USDCx per sBTC, or dollars of USDCx   *)
(* per stablecoin; 0 when it answers none), the rate of each receipt in     *)
(* fixed point, and the assets whose contracts the registry approves.  Each *)
(* book asks the one below it, the function b from assets to quotes.        *)

Vaults == [zSTX |-> "STX", zsBTC |-> "sBTC", zstSTX |-> "stSTX", zUSDCx |-> "USDCx",
           zUSDH |-> "USDH", zstSTXbtc |-> "stSTXbtc", zstBTC |-> "stBTC"]
Assets == {"BTC", "sBTC", "STX", "USDCx", "USDH", "USDh", "aeUSDC", "stSTX", "stBTC", "stSTXbtc",
           "gUSDC", "sUSDh", "zvstBTC"} \cup DOMAIN Vaults

(* A book that asks the one below for the assets that are not its own.      *)
AskingBelow(own, b) ==
    [a \in DOMAIN own \cup DOMAIN b |-> IF a \in DOMAIN own THEN own[a] ELSE b[a]]

AtMost(q, confidence) == [q EXCEPT !.confidence = Min({@, confidence})]

MarketQuote(m, asset) ==
    LET u == Underlying(asset)
        quotes == [s \in DOMAIN Profile |-> SourceQuote(s, u, m.reading[u][s])]
        q == QuorumQuote(quotes)
    IN  IF u \notin DOMAIN m.reading \/ q = NoQuote THEN NoQuote
        ELSE IF asset = u THEN q ELSE AtMost(q, 75)

(* USDCx, from the pool it has with sBTC: not if it is off its peg.         *)
UsdcxQuote(m, b) ==
    LET btc == b["sBTC"]
        price == (btc.price * PriceScale) \div m.pool["USDCx"]
    IN  IF \/ "USDCx" \notin m.approved \/ m.pool["USDCx"] = 0 \/ btc = NoQuote
           \/ Divergence(PriceScale, price) > MaxPegDivergence
        THEN NoQuote ELSE AtMost([btc EXCEPT !.price = price], 88)

(* A stablecoin's pool with USDCx, ...                                      *)
StablePoolQuote(m, b, asset) ==
    LET usdcx == UsdcxQuote(m, b)
        price == (usdcx.price * m.pool[asset]) \div PriceScale
    IN  IF asset \notin m.approved \/ usdcx = NoQuote \/ price = 0
        THEN NoQuote ELSE AtMost([usdcx EXCEPT !.price = price], 86)

(* ... which an independent reference must agree with.                      *)
StableReference(m, asset) ==
    IF asset = "USDH" THEN SourceQuote("dia", "USDH", m.reading["USDH"]["dia"])
    ELSE SourceQuote("coinbase", "USDC", m.reading["USDC"]["coinbase"])

Consensus(q, reference) ==
    IF \/ q = NoQuote \/ reference = NoQuote \/ reference.price = 0
       \/ Divergence(reference.price, q.price) > MaxDivergence
    THEN NoQuote
    ELSE [price |-> (q.price + reference.price) \div 2, age |-> Max({q.age, reference.age}),
          confidence |-> Min({q.confidence, reference.confidence}),
          on |-> q.on \cup reference.on]

StableBook(m, b) ==
    AskingBelow(
        [a \in {"USDCx", "USDH", "USDh", "aeUSDC"} |->
            LET u == Underlying(a)
            IN  IF a = "USDCx" THEN UsdcxQuote(m, b)
                ELSE Consensus(StablePoolQuote(m, b, u), StableReference(m, u))], b)

(* A receipt, from what it converts to; all books but the vaults' refuse a  *)
(* rate of zero.                                                            *)
Converted(m, asset, base) ==
    IF asset \notin m.approved \/ base = NoQuote THEN NoQuote
    ELSE AtMost([base EXCEPT !.price = (@ * m.rate[asset]) \div PriceScale], 90)

Rated(m, asset, base) ==
    IF m.rate[asset] = 0 THEN NoQuote ELSE Converted(m, asset, base)

StackingDaoBook(m, b) ==
    AskingBelow(
        [stSTX |-> Rated(m, "stSTX", b["STX"]), stBTC |-> Rated(m, "stBTC", b["sBTC"]),
         stSTXbtc |-> AtMost(b["STX"], 90)], b)

GraniteBook(m, b) == AskingBelow([gUSDC |-> Rated(m, "gUSDC", b["aeUSDC"])], b)

HermeticaBook(m, b) == AskingBelow([sUSDh |-> Rated(m, "sUSDh", b["USDH"])], b)

ZestBook(m, b) ==
    AskingBelow(
        [a \in DOMAIN Vaults |-> Converted(m, a, b[Vaults[a]])],
        AskingBelow([zvstBTC |-> Rated(m, "zvstBTC", b["stBTC"])], b))

(* The book the API values positions with.                                  *)
Book(m) == ZestBook(m, HermeticaBook(m, GraniteBook(m, StackingDaoBook(m,
                StableBook(m, [a \in Assets |-> MarketQuote(m, a)])))))

-----------------------------------------------------------------------------
(* Two fresh sources that agree are enough for a price, whatever the others *)
(* say, and one is not; the price lies among those of sources that agree,   *)
(* and nobody who agrees with all of these was left out; it is as old as    *)
(* the oldest of them and as trusted as the least.                          *)
QuorumIsSound(quotes) ==
    LET c == Candidates(quotes)
        q == QuorumQuote(quotes)
        Close(i, j) == Divergence(c[i].price, c[j].price) <= MaxDivergence
        Resting(i) == c[i].on \subseteq q.on
    IN  /\ (q # NoQuote) <=> \E i, j \in DOMAIN c : i < j /\ Close(i, j)
        /\ q # NoQuote =>
            /\ \A i, j \in DOMAIN c : i < j /\ Resting(i) /\ Resting(j) => Close(i, j)
            /\ \E i, j \in DOMAIN c : /\ i # j /\ Resting(i) /\ Resting(j)
                                      /\ c[i].price <= q.price /\ q.price <= c[j].price
            /\ \A k \in DOMAIN c : Resting(k) \/ \E i \in DOMAIN c :
                  Resting(i) /\ ~Close(Min({i, k}), Max({i, k}))
            /\ \A i \in DOMAIN c : Resting(i) => q.age >= c[i].age /\ q.confidence <= c[i].confidence

(* No price of any asset, however derived, rests on a single provider, or   *)
(* is newer or more trusted than an answer it rests on; an asset the        *)
(* registry does not approve has no price.                                  *)
TowerIsSound(m) ==
    LET quotes == Book(m)
        Answer(x) == SourceQuote(x[1], x[2], m.reading[x[2]][x[1]])
    IN  \A asset \in {a \in Assets : quotes[a] # NoQuote} :
          LET q == quotes[asset] IN
            /\ Cardinality({x[1] : x \in q.on}) >= MinimumSources
            /\ \A x \in q.on : q.age >= Answer(x).age /\ q.confidence <= Answer(x).confidence
            /\ asset \in m.approved \cup {"BTC", "sBTC", "STX", "USDh", "stSTXbtc"}
=============================================================================
