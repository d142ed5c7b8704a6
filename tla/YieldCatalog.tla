---------------------------- MODULE YieldCatalog ----------------------------
(***************************************************************************)
(* The yield markets RiskOS knows of, with the evidence for their rates,    *)
(* packages/adapters/src/yield-market-catalog.ts.  What the protocols and   *)
(* the independent feed answer is w, the world: NoAnswer where a read or a  *)
(* request failed, was refused or came back malformed.  Rates are in basis  *)
(* points, values in dollars.                                               *)
(***************************************************************************)
EXTENDS YieldAllocation

NoAnswer == [nothing |-> TRUE]

Protocols == {"zest", "granite", "bitflow", "hermetica", "stackingdao"}

(* A market without evidence; the others are made from it.                  *)
Unavailable(protocol, assets, label, age) ==
    [protocol |-> protocol, assets |-> assets, label |-> label, rate |-> Missing,
     state |-> "unavailable", confidence |-> 0, atBlock |-> FALSE, age |-> age, tvl |-> Missing,
     rateEvidence |-> NoEvidence, capacityEvidence |-> NoEvidence,
     source |-> protocol, eligible |-> FALSE]

(* One read from a contract at a pinned block.                              *)
Pinned(m, rate, confidence) ==
    [m EXCEPT !.rate = rate, !.state = "verified", !.confidence = confidence, !.atBlock = TRUE]

(* One a provider reports of itself.                                        *)
Reported(m, rate, confidence) ==
    [m EXCEPT !.rate = rate, !.state = "provider-reported", !.confidence = confidence]

WithCapacity(m, source, tvl) ==
    [m EXCEPT !.tvl = tvl,
              !.capacityEvidence = [source |-> source, age |-> m.age, says |-> tvl]]

-----------------------------------------------------------------------------
(* Zest: what lenders get of the borrow rate.  A product of three factors   *)
(* is divided by 10^8, here in two steps with the same result.              *)
SupplyRate(v) ==
    LET x == v.borrow * v.utilization
        k == HundredPercent - v.reserve
        high == (x \div HundredPercent) * k
        low == ((x % HundredPercent) * k) \div HundredPercent
    IN  (high + low) \div HundredPercent

ZestMarket(w, asset) ==
    LET m == [Unavailable("zest", {asset}, "Supply APR", w.age) EXCEPT !.source = asset]
        v == w.zest[asset]
    IN  IF v = NoAnswer \/ v.utilization > HundredPercent \/ v.reserve > HundredPercent THEN m
        ELSE [Pinned(m, SupplyRate(v), 92) EXCEPT !.eligible = SupplyRate(v) > 0]

(* The records of the independent feed that are usable, if it is recent.    *)
References(w) ==
    IF w.feed = NoAnswer \/ ~Recent(w.feed.age, MaxReferenceAge) THEN {}
    ELSE {r \in w.feed.records : ~r.outlier /\ r.count >= 2}

Matching(w, m) == {r \in References(w) : {r.underlying} = m.assets}

(* Exactly one record of the same underlying contract must agree.           *)
Reconciled(w, m) ==
    LET r == CHOOSE x \in Matching(w, m) : TRUE
        compared == [m EXCEPT
            !.rateEvidence = [source |-> r.pool, age |-> w.feed.age, says |-> r.rate],
            !.capacityEvidence = [source |-> r.pool, age |-> w.feed.age, says |-> r.tvl]]
    IN  IF m.rate = Missing THEN m
        ELSE IF Cardinality(Matching(w, m)) # 1 THEN [m EXCEPT !.eligible = FALSE]
        ELSE IF Gap(m.rate, r.rate) > MaxRateDifference THEN [compared EXCEPT !.eligible = FALSE]
        ELSE [compared EXCEPT !.tvl = r.tvl, !.confidence = 95, !.eligible = m.rate > 0]

ZestMarkets(w) ==
    IF "zest" \notin w.enabled \/ ~w.tip THEN {}
    ELSE {Reconciled(w, ZestMarket(w, asset)) : asset \in DOMAIN w.zest}

(* Its strategy token: what the share price has grown, a day at least and   *)
(* less than elevenfold, annualised; it can be negative.                    *)
StrategyMarkets(w) ==
    LET m == Unavailable("zest", {"zvstBTC"}, "Reward APY", w.age)
        s == w.strategy
    IN  IF "zest" \notin w.enabled \/ ~w.strategyApproved THEN {}
        ELSE IF ~w.tip \/ s = NoAnswer \/ s.growth <= -HundredPercent \/ s.growth > HighestRate
          THEN {m}
        ELSE {Pinned(m, s.growth, 90)}

(* Granite: the borrow rate less the protocol's share, 25 % if not read.    *)
GraniteReserve == 2500
GraniteMarkets(w) ==
    LET m == [Unavailable("granite", {"gUSDC", "aeUSDC"}, "Supply APR", w.age)
                EXCEPT !.source = "granite-rates"]
        g == w.granite
        reserve == IF g.reserve = Missing THEN GraniteReserve ELSE g.reserve
        rate == (g.borrow * (HundredPercent - reserve)) \div HundredPercent
    IN  IF "granite" \notin w.enabled THEN {}
        ELSE IF ~w.tip \/ g = NoAnswer THEN {m}
        ELSE IF reserve > HundredPercent \/ rate > HighestRate THEN {m}
        ELSE {WithCapacity(Pinned(m, rate, 90), "granite-state", g.tvl)}

BitflowMarket(w, p) ==
    LET m == [Unavailable("bitflow", {p}, "Fee APR", w.age) EXCEPT !.source = p]
        a == w.bitflow[p]
    IN  IF a = NoAnswer \/ ~a.approved THEN m
        ELSE WithCapacity(Reported(m, a.rate, 70), "bitflow-tvl", a.tvl)

BitflowMarkets(w) ==
    IF "bitflow" \notin w.enabled THEN {} ELSE {BitflowMarket(w, p) : p \in DOMAIN w.bitflow}

HermeticaMarkets(w) ==
    LET m == Unavailable("hermetica", {"USDH", "sUSDh"}, "Reward APY", w.age)
        a == w.hermetica
    IN  IF "hermetica" \notin w.enabled THEN {}
        ELSE IF a = NoAnswer THEN {m}
        ELSE {WithCapacity(Reported(m, a.rate, 78), "hermetica-tvl", a.tvl)}

StackingDaoMarkets(w) ==
    LET Of(assets) == Unavailable("stackingdao", assets, "Reward APY", w.age)
    IN  IF "stackingdao" \notin w.enabled THEN {}
        ELSE IF w.stacking = NoAnswer THEN {Of({"stSTX", "stBTC", "stSTXbtc"})}
        ELSE {Reported(Of({a}), w.stacking[a], 76) : a \in DOMAIN w.stacking}

(* A protocol that shows no market at all is listed without evidence.       *)
Catalog(w) ==
    LET found == ZestMarkets(w) \cup StrategyMarkets(w) \cup GraniteMarkets(w)
                 \cup BitflowMarkets(w) \cup HermeticaMarkets(w) \cup StackingDaoMarkets(w)
        missing == w.enabled \ {m.protocol : m \in found}
    IN  found \cup {Unavailable(p, {p},
            IF p = "stackingdao" THEN "Reward APY" ELSE "Supply APR", w.age) : p \in missing}

-----------------------------------------------------------------------------
(* The current rate shown with a position that is supplied to a protocol.   *)
Receipt == [zSTX |-> "STX", zsBTC |-> "sBTC", zstSTX |-> "stSTX", zvstBTC |-> "zvstBTC"]

Trusted(m) ==
    \/ m.state = "verified" /\ m.atBlock /\ m.confidence >= 80
    \/ m.state = "provider-reported" /\ m.confidence >= 75

Concerns(m, protocol, symbol) ==
    /\ m.protocol = protocol
    /\ CASE protocol = "hermetica" -> symbol = "sUSDh"
         [] protocol = "granite" -> symbol = "gUSDC" \/ symbol \in m.assets
         [] protocol = "zest" -> \/ symbol \in m.assets
                                 \/ symbol \in DOMAIN Receipt /\ Receipt[symbol] \in m.assets
         [] OTHER -> symbol \in m.assets

RateSources(markets, protocol, symbol) ==
    {m \in markets : m.rate # Missing /\ Trusted(m) /\ Concerns(m, protocol, symbol)}

(* What the routes offer a market for, and put capital to: to recommend is  *)
(* for those whose API key, or the wallet they are signed in with, has a    *)
(* plan with that feature.                                                  *)
Modes(m) ==
    IF m.rate = Missing THEN {} ELSE {"explore"} \cup (IF m.eligible THEN {"recommend"} ELSE {})

RecommendingPlans == {"pro", "treasury", "developer", "protocol"}
MayAsk(plans, mode) == mode = "recommend" => plans \cap RecommendingPlans # {}

(* The markets that a request for an allocation can put capital to.         *)
OpenTo(markets, plans, mode) ==
    {m \in markets : MayAsk(plans, mode) /\ PassesGate(m, mode)}

-----------------------------------------------------------------------------
Recommended(w) == OpenTo(Catalog(w), {"pro"}, "recommend")

(* Every enabled protocol is listed.  What is recommended rests on a        *)
(* contract and on the one usable record of the feed, which agrees: with    *)
(* either of them gone nothing of it is recommended, and an estimate of a   *)
(* protocol about itself never is.  A position is shown one rate at most,   *)
(* never one of a pool's, and capital goes to no market in a mode that it   *)
(* is not listed for.                                                       *)
CatalogIsSound(w) ==
    LET markets == Catalog(w)
        Silent(x) == [a \in DOMAIN x |-> NoAnswer]
        Usable(asset) == {r \in w.feed.records : r.underlying = asset /\ ~r.outlier /\ r.count >= 2}
    IN  /\ {m.protocol : m \in markets} = w.enabled
        /\ \A mode \in DOMAIN MaxAge, m \in markets : PassesGate(m, mode) => mode \in Modes(m)
        /\ \A m \in Recommended(w) :
              \E asset \in DOMAIN w.zest :
                  /\ m.assets = {asset} /\ w.zest[asset] # NoAnswer
                  /\ \E r \in Usable(asset) : /\ Usable(asset) = {r} /\ r.tvl = m.tvl
                                             /\ Gap(r.rate, m.rate) <= MaxRateDifference
        /\ Recommended([w EXCEPT !.feed = NoAnswer]) = {}
        /\ Recommended([w EXCEPT !.zest = Silent(w.zest)]) = {}
        /\ \A p \in Protocols, symbol \in {"STX", "zSTX", "sUSDh", "gUSDC", "stSTX", "zvstBTC", "pool"} :
              LET ms == RateSources(markets, p, symbol)
              IN  Cardinality(ms) <= 1 /\ (p = "bitflow" => ms = {})
=============================================================================
