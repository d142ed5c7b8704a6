---------------------------- MODULE Valuation ----------------------------
(***************************************************************************)
(* Positions given dollar values, enrichPositionsWithUsd of                 *)
(* packages/pricing/src/index.ts, and summed up, analyzePortfolio of        *)
(* packages/portfolio-engine/src/index.ts.  A position has legs it owns     *)
(* (the asset, the two tokens of a pool, the collateral) and legs it owes   *)
(* (the debt of a loan).  Confidence and trust are in percent, values in    *)
(* fixed point; a leg without a value has NoValue.                          *)
(***************************************************************************)
EXTENDS Integers, Sequences, FiniteSets, Functions

CONSTANTS
    SupportedAssets,    \* those RiskOS can value, SUPPORTED_VALUATION_ASSETS
    BitcoinAssets       \* those whose name says btc

NoValue == -1
NoPrice == [price |-> 0, confidence |-> 0]

-----------------------------------------------------------------------------
(* A quote is taken when it is no fixture, positive, neither from the       *)
(* future nor stale at the instant the analysis began, and trusted enough.  *)
Accepted(q) ==
    /\ ~q.fixture /\ q.price > 0
    /\ q.observedAge >= -60
    /\ q.observedAge <= 900 /\ q.age <= 900
    /\ q.confidence >= 70

PriceOf(quotes, asset) ==
    IF asset \in DOMAIN quotes /\ Accepted(quotes[asset])
    THEN [price |-> quotes[asset].price, confidence |-> quotes[asset].confidence]
    ELSE NoPrice

Priced(leg, quotes) ==
    LET q == PriceOf(quotes, leg.asset)
    IN  IF q = NoPrice THEN leg
        ELSE [leg EXCEPT !.value = leg.amount * q.price, !.trust = q.confidence]

PricedLegs(legs, quotes) == [i \in DOMAIN legs |-> Priced(legs[i], quotes)]

LegsOf(p) == {p.own[i] : i \in DOMAIN p.own} \cup {p.owed[i] : i \in DOMAIN p.owed}

EvidenceState(p, legs) ==
    LET missing == {l \in legs : l.value = NoValue}
        weak == \E l \in legs \ missing : l.trust < 80
        ofQuotes == IF weak THEN "estimated" ELSE p.state
    IN  IF \E l \in missing : l.asset \notin SupportedAssets THEN "unsupported"
        ELSE IF missing # {} /\ (p.kind = "lending" \/ ofQuotes # "unsupported") THEN "degraded"
        ELSE ofQuotes

Enriched(p, quotes) ==
    LET own == PricedLegs(p.own, quotes)
        owed == PricedLegs(p.owed, quotes)
        q == [p EXCEPT !.own = own, !.owed = owed]
    IN  [q EXCEPT !.state = EvidenceState(p, LegsOf(q))]

-----------------------------------------------------------------------------

(* The sum of the values of legs, if all of them have one.                  *)
SumOf(legs) ==
    IF \E i \in DOMAIN legs : legs[i].value = NoValue THEN NoValue
    ELSE SumFunction([i \in DOMAIN legs |-> legs[i].value])

Value(p) == SumOf(p.own)
Debt(p) == SumOf(p.owed)

PricedBy(p, trust) == \A l \in LegsOf(p) : l.value # NoValue /\ l.trust >= trust
VerifiedValue(p) == p.state = "verified" /\ PricedBy(p, 80)
AcceptedValue(p) == p.state # "unsupported" /\ PricedBy(p, 70)

(* ps is the sequence of positions: exact totals need all but the           *)
(* unsupported ones verified, and one of those at least.                    *)
Supported(ps) == {i \in DOMAIN ps : ps[i].state # "unsupported"}
Incomplete(ps) ==
    {i \in Supported(ps) : \/ Value(ps[i]) = NoValue \/ Debt(ps[i]) = NoValue
                           \/ ~VerifiedValue(ps[i])}
Complete(ps) == Supported(ps) # {} /\ Incomplete(ps) = {}

AcceptedOnes(ps) == {i \in DOMAIN ps : AcceptedValue(ps[i])}

Valued(ps, S) ==
    SumFunctionOnSet([i \in DOMAIN ps |-> Value(ps[i])], {i \in S : Value(ps[i]) # NoValue})
Owed(ps, S) ==
    SumFunctionOnSet([i \in DOMAIN ps |-> Debt(ps[i])], {i \in S : Debt(ps[i]) # NoValue})

Deployed(ps, S) == Valued(ps, {i \in S : ps[i].kind # "wallet"})
IdleValue(ps, S) == Valued(ps, {i \in S : ps[i].kind = "wallet" /\ ps[i].spendable})
Locked(ps, S) == Valued(ps, {i \in S : ps[i].kind = "wallet" /\ ~ps[i].spendable})

Share(part, whole) == IF whole > 0 THEN (part * 10000) \div whole ELSE 0

(* What is left after bitcoin loses so many percent: the debt is held.      *)
LossOf(p, percent) ==
    SumFunctionOnSet([k \in DOMAIN p.own |-> (p.own[k].value * percent) \div 100],
        {k \in DOMAIN p.own : p.own[k].asset \in BitcoinAssets /\ p.own[k].value # NoValue})
BitcoinLoss(ps, S, percent) ==
    SumFunctionOnSet([i \in DOMAIN ps |-> LossOf(ps[i], percent)], S)

(* analyzePortfolio: the totals when they are exact, or else what is summed *)
(* up of the positions whose values are accepted.                           *)
Summary(ps) ==
    LET S == IF Complete(ps) THEN DOMAIN ps ELSE AcceptedOnes(ps)
        assets == Valued(ps, S)
        debt == Owed(ps, S)
    IN  [complete |-> Complete(ps), assets |-> assets, debt |-> debt, net |-> assets - debt,
         shares |-> <<Share(Deployed(ps, S), assets), Share(IdleValue(ps, S), assets),
                      Share(Locked(ps, S), assets)>>,
         losses |-> [x \in {10, 20, 30, 50} |-> BitcoinLoss(ps, S, x)],
         counted |-> S]

-----------------------------------------------------------------------------
(* A position with a leg that has no price says so, however well the others *)
(* are priced; a subtotal rests on positions that are priced in every leg,  *)
(* so no debt is left out of it; and exact totals are given only when       *)
(* everything RiskOS supports is verified to the last leg.                  *)
SummaryIsSound(ps) ==
    LET s == Summary(ps)
        Whole(p) == \A l \in LegsOf(p) : l.value # NoValue
    IN  /\ \A i \in DOMAIN ps : Whole(ps[i]) \/ ps[i].state \in {"degraded", "unsupported"}
        /\ \A i \in s.counted : ps[i].state = "unsupported" \/ Whole(ps[i])
        /\ s.complete => \A i \in s.counted : ps[i].state \in {"verified", "unsupported"}
        /\ s.assets > 0 => LET sum == s.shares[1] + s.shares[2] + s.shares[3]
                           IN  sum \in (10000 - 2) .. 10000
        /\ s.losses[10] <= s.losses[20] /\ s.losses[20] <= s.losses[50]
        /\ ~s.complete => 2 * s.losses[50] <= s.assets

(* "The total is withheld if any leg is unpriced; missing debt is never     *)
(* treated as zero", as the summary says of its net worth.                  *)
MissingDebtWithheld(ps) ==
    Complete(ps) =>
        \A i \in DOMAIN ps : Debt(ps[i]) = NoValue => Value(ps[i]) = NoValue
=============================================================================
