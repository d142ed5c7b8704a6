-------------------------- MODULE YieldAllocation --------------------------
(***************************************************************************)
(* How capital is spread over yield markets, allocateYieldCapital of        *)
(* packages/strategy-engine/src/index.ts: the gates a market must pass,     *)
(* then the best paid first, each up to its caps.  Money is in cents, rates *)
(* in basis points, confidence in percent, times in seconds before now; a   *)
(* rate, a value, a block or evidence that is not there is Missing.         *)
(***************************************************************************)
EXTENDS Listing, Sequences, SequencesExt, FiniteSetsExt

CONSTANT Compounded    \* Compounded[rate, days], (1 + rate)^(days / 365) - 1

Missing == -1
NoEvidence == [source |-> Missing, age |-> 0, says |-> Missing]

Skew == 30                  \* seconds a clock may be ahead
MaxAge == [recommend |-> 1800, explore |-> 3600]
MaxReferenceAge == 3600
HundredPercent == 10000     \* basis points
HighestRate == 100000
MaxRateDifference == 50     \* basis points
PoolShare == 200            \* of what a pool holds, in basis points

-----------------------------------------------------------------------------
Recent(age, maximum) == age >= -Skew /\ age <= maximum

InBounds(m) == m.rate # Missing /\ m.rate \in 1 .. HighestRate /\ m.confidence \in 0 .. 100

ExploreGate(m) ==
    /\ m.state # "unavailable"
    /\ m.state = "verified" => m.confidence >= 70
    /\ m.state = "provider-reported" => m.confidence >= 50
    /\ m.tvl = Missing \/ m.tvl > 0

Gap(x, y) == IF x > y THEN x - y ELSE y - x

Corroborated(m) ==
    LET e == m.rateEvidence
    IN  /\ e # NoEvidence /\ e.source # m.source /\ e.says >= 0
        /\ Gap(m.rate, e.says) <= MaxRateDifference

CapacityKnown(m) ==
    /\ m.tvl # Missing /\ m.tvl > 0
    /\ m.capacityEvidence # NoEvidence /\ m.capacityEvidence.source # m.source
    /\ m.capacityEvidence.says = m.tvl

RecommendGate(m) ==
    /\ m.state = "verified" /\ m.confidence >= 80 /\ m.atBlock
    /\ Corroborated(m) /\ m.eligible /\ CapacityKnown(m)
    /\ \A e \in {m.rateEvidence, m.capacityEvidence} : Recent(e.age, MaxReferenceAge)

PassesGate(m, mode) ==
    /\ InBounds(m) /\ Recent(m.age, MaxAge[mode])
    /\ IF mode = "explore" THEN ExploreGate(m) ELSE RecommendGate(m)

-----------------------------------------------------------------------------
(* What a market returns over so many days, in millionths: simple interest, *)
(* or the compounding that an annual yield stands for, in floating point.   *)
DivideRounded(n, d) == (n + d \div 2) \div d

PeriodReturn(m, days) ==
    IF m.label = "Reward APY" THEN Compounded[<<m.rate, days>>]
    ELSE DivideRounded(m.rate * days * 100, 365)

(* The positions in markets of those that pass, the best of them by key     *)
(* first, then the most trusted, then as they were listed.                  *)
Ranked(markets, open, key) ==
    LET Better(i, j) == \/ key[i] > key[j]
                        \/ /\ key[i] = key[j]
                           /\ \/ markets[i].confidence > markets[j].confidence
                              \/ markets[i].confidence = markets[j].confidence /\ i < j
    IN  InOrder(open, {p \in Pairs(open) : Better(p[1], p[2])})

ByAnnualRate(markets, open, days) ==    \* mutant: whatever the days
    Ranked(markets, open, [i \in open |-> markets[i].rate])

BestFirst(markets, open, days) ==
    Ranked(markets, open, [i \in open |-> PeriodReturn(markets[i], days)])

(* The caps, of the eligible markets ms.                                    *)
ProtocolShare(ms) == IF Cardinality({m.protocol : m \in ToSet(ms)}) >= 2 THEN 6000 ELSE HundredPercent
MarketShare(ms) == IF Len(ms) >= 3 THEN 4000 ELSE HundredPercent

Part(capital, share) == (capital * share) \div HundredPercent
PoolLimit(capital, m) == IF m.tvl = Missing THEN capital ELSE Part(m.tvl, PoolShare)

InProtocol(ms, amounts, protocol) ==
    SumFunctionOnSet(amounts, {i \in DOMAIN amounts : ms[i].protocol = protocol})
Total(amounts) == SumFunction(amounts)

(* What is put into each of ms, which are in order, given what the ones     *)
(* before it took.                                                          *)
Amounts(ms, capital) ==
    LET Next(amounts, m) ==
            Append(amounts, Max({0, Min({
                capital - Total(amounts),
                Part(capital, ProtocolShare(ms)) - InProtocol(ms, amounts, m.protocol),
                Part(capital, MarketShare(ms)), PoolLimit(capital, m)})}))
    IN  FoldLeft(Next, <<>>, ms)

Plan(markets, capital, days, mode) ==
    LET open == {i \in DOMAIN markets : PassesGate(markets[i], mode)}
        order == BestFirst(markets, open, days)
        ms == [k \in DOMAIN order |-> markets[order[k]]]
    IN  [markets |-> ms, amounts |-> Amounts(ms, capital)]

-----------------------------------------------------------------------------
Earned(ms, amounts, days) ==
    SumFunction([i \in DOMAIN amounts |-> amounts[i] * PeriodReturn(ms[i], days)])

Within(ms, amounts, capital) ==
    /\ Total(amounts) <= capital
    /\ \A i \in DOMAIN ms : /\ amounts[i] <= Part(capital, MarketShare(ms))
                            /\ amounts[i] <= PoolLimit(capital, ms[i])
                            /\ InProtocol(ms, amounts, ms[i].protocol)
                                  <= Part(capital, ProtocolShare(ms))

(* The plan keeps every cap, and no other spread of the capital over the    *)
(* same markets that keeps them earns more.                                 *)
PlanIsOptimal(markets, capital, days, mode) ==
    LET p == Plan(markets, capital, days, mode)
        ms == p.markets
    IN  /\ Within(ms, p.amounts, capital)
        /\ \A other \in [DOMAIN ms -> 0 .. capital] :
              Within(ms, other, capital) =>
                  Earned(ms, other, days) <= Earned(ms, p.amounts, days)
=============================================================================
