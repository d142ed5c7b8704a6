---------------------------- MODULE RiskEngine ----------------------------
(***************************************************************************)
(* The findings about a position, packages/risk-engine/src/index.ts, and    *)
(* the repayment plans made to answer them, packages/execution/src/index.ts.*)
(* A health factor is in ten-thousandths, as the code scales it; times are  *)
(* in seconds before now.  Dollars are in fixed point; the values of the    *)
(* legs, which both are given, have been cut to whole cents, and what the   *)
(* planners compute from them has not.                                      *)
(***************************************************************************)
EXTENDS Integers, Sequences, FiniteSetsExt

CONSTANT Cent    \* one cent in fixed point, 10^6 in the code

ASSUME CentAssumption == Cent \in Nat \ {0}

Unknown == -1
TargetHealth == 13500

AtLeast0(x) == IF x > 0 THEN x ELSE 0

(* formatUsdFromScaled: the value of an amount loses what is below a cent.  *)
ToCents(value) == (value \div Cent) * Cent

-----------------------------------------------------------------------------
(* A loan: its collateral and debt in dollars (Unknown when a leg has no    *)
(* value), and the threshold in basis points at which it is liquidated.     *)
Health(collateral, debt, threshold) ==
    IF collateral = Unknown \/ debt \in {Unknown, 0} THEN Unknown
    ELSE (collateral * threshold) \div debt

Severity(health) ==
    IF health = Unknown THEN "high"
    ELSE IF health <= 10300 THEN "critical"
    ELSE IF health <= 11000 THEN "high"
    ELSE IF health <= 12000 THEN "medium"
    ELSE "low"

(* The score falls along a slope within each severity.                      *)
Slope(from, health, drop, width) == ((from - health) * drop) \div width
ScoreWith(lastDrop, health) ==
    IF health = Unknown THEN 75
    ELSE IF health <= 10000 THEN 100
    ELSE IF health <= 10300 THEN 90 + Slope(10300, health, 10, 300)
    ELSE IF health <= 11000 THEN 60 + Slope(11000, health, 29, 700)
    ELSE IF health <= 12000 THEN 30 + Slope(12000, health, 29, 1000)
    ELSE IF health < 20000 THEN Slope(20000, health, lastDrop, 8000)
    ELSE 0

LendingScoreSlack(health) == ScoreWith(31, health)    \* mutant: the last slope starts at 30

LendingScore(health) == ScoreWith(29, health)

(* The debt that would be left at the target, and what it takes to get there.*)
Adjusted(collateral, threshold) == (collateral * threshold) \div 10000
RecommendedRepay(collateral, debt, threshold) ==
    AtLeast0(debt - (Adjusted(collateral, threshold) * 10000) \div TargetHealth)

LendingFinding(loan) ==
    LET health == Health(loan.collateral, loan.debt, loan.threshold)
    IN  [category |-> "liquidation", severity |-> Severity(health),
         score |-> LendingScore(health), health |-> health,
         repay |-> RecommendedRepay(AtLeast0(loan.collateral), AtLeast0(loan.debt),
                                    loan.threshold)]

(* A pool position: the range its liquidity is in, the price, and the cost  *)
(* of leaving it in basis points, Unknown without a quote.                  *)
LiquidityFinding(pool) ==
    LET inRange == pool.lower <= pool.current /\ pool.current <= pool.upper
        costly == pool.slippage > 100
    IN  [category |-> "liquidity",
         severity |-> IF ~inRange \/ costly \/ pool.slippage = Unknown THEN "medium" ELSE "low",
         score |-> IF ~inRange THEN 55 ELSE IF costly THEN 45
                   ELSE IF pool.slippage = Unknown THEN 35 ELSE 15]

(* Evidence that is missing, stale or degraded; "newest" is the age of the  *)
(* newest of the position's evidence.                                       *)
OracleFindings(evidence, maximumAge) ==
    LET severity == IF evidence.unpriced \/ evidence.newest > 3 * maximumAge THEN "high"
                    ELSE "medium"
    IN  IF \/ evidence.fixture
           \/ /\ ~evidence.unpriced /\ evidence.newest <= maximumAge
              /\ evidence.state # "degraded"
        THEN {}
        ELSE {[category |-> "oracle", severity |-> severity,
               score |-> IF severity = "high" THEN 75 ELSE 50]}

UnsupportedFindings(evidence) ==
    IF evidence.state # "unsupported" THEN {}
    ELSE {[category |-> "unsupported", severity |-> "info", score |-> 0]}

Findings(p) ==
    UnsupportedFindings(p.evidence) \cup OracleFindings(p.evidence, 300)
    \cup CASE p.kind = "lending" -> {LendingFinding(p.loan)}
           [] p.kind = "liquidity" -> {LiquidityFinding(p.pool)}
           [] OTHER -> {}

(* analyzePortfolio: the worst score of all findings, and its name.         *)
Classification(score) ==
    IF score >= 80 THEN "critical" ELSE IF score >= 60 THEN "high-risk"
    ELSE IF score >= 30 THEN "guarded" ELSE "healthy"

-----------------------------------------------------------------------------

(* A plan to repay "amount" of a debt of "units", worth "debt": what is     *)
(* left, and the health then, never better than that debt would have.       *)
RepaidValue(loan, amount) ==
    IF amount >= loan.units THEN loan.debt ELSE (amount * loan.debt) \div loan.units

HealthWith(loan, left) == (Adjusted(loan.collateral, loan.threshold) * 10000) \div left
NoDebtHealth == 999 * 10000

(* planRepay, of the test network's fixture contract.                       *)
FixtureHealthAfter(loan, amount) ==
    LET left == loan.debt - RepaidValue(loan, amount)
    IN  IF Unknown \in {loan.collateral, loan.debt} \/ loan.units = 0 THEN Unknown
        ELSE IF left = 0 THEN NoDebtHealth ELSE HealthWith(loan, left)

FixturePlanReady(loan, amount) ==
    /\ loan.registered /\ amount \in 1 .. loan.units
    /\ FixtureHealthAfter(loan, amount) >= TargetHealth

(* planZestMainnetRepay: interest accrues until the repayment is included,  *)
(* so up to a thousandth more than the debt is taken.                       *)
Headroom(units) == units + (units + 999) \div 1000
IsCurrent(at) == at >= -1 /\ at <= 30

MainnetHealthAfter(loan, amount) ==
    LET left == loan.debt - RepaidValue(loan, amount)
    IN  IF amount >= loan.units THEN NoDebtHealth
        ELSE IF Unknown \in {loan.collateral, loan.debt} \/ left = 0 THEN Unknown
        ELSE HealthWith(loan, left)

MainnetPlanReady(loan, amount) ==
    /\ loan.debtLegs = 1 /\ loan.registered
    /\ loan.state = "verified" /\ IsCurrent(loan.evidenceAge)
    /\ amount \in 1 .. Headroom(loan.units)
    /\ MainnetHealthAfter(loan, amount) >= TargetHealth
    /\ \/ amount >= loan.units
       \/ loan.trust >= 80 /\ IsCurrent(loan.priceAge)

-----------------------------------------------------------------------------
(* A lower health never lowers the score, and the summary never reads       *)
(* milder than a finding: a critical one makes the portfolio critical, a    *)
(* high one at least high-risk, a medium one at least guarded; and a        *)
(* position with nothing worse than low findings leaves it healthy.         *)
AtLeastAsBad == [critical |-> {"critical"}, high |-> {"critical", "high-risk"},
                 medium |-> {"critical", "high-risk", "guarded"},
                 low |-> {"healthy"}, info |-> {"healthy"}]
FindingsAreConsistent(p) ==
    \A f \in Findings(p) :
      /\ Classification(f.score) \in AtLeastAsBad[f.severity]
      /\ f.category = "liquidation" /\ f.health > 0 => LendingScore(f.health - 1) >= f.score

(* What the risk engine makes of the loan after the repayment, valued again *)
(* at the same price of "price" per 100 units.  The value that is left may  *)
(* have lost less to rounding than the value the plan was made from, so the *)
(* health need not be the target of a plan that was ready.  It misses it by *)
(* less than a cent of debt: what the engine then still recommends to repay *)
(* is printed as 0, and from ten cents on the severity is low.              *)
PlanReachesTarget(loan, amount) ==
    LET left == ToCents(((loan.units - amount) * loan.price) \div 100)
        health == Health(loan.collateral, left, loan.threshold)
        due == RecommendedRepay(loan.collateral, left, loan.threshold)
    IN  (/\ FixturePlanReady(loan, amount) \/ MainnetPlanReady(loan, amount)
         /\ amount < loan.units /\ left > 0)
        => /\ due < Cent
           /\ due = 0 => health >= TargetHealth
           /\ left >= 10 * Cent => Severity(health) = "low"
=============================================================================
