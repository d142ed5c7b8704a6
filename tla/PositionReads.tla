--------------------------- MODULE PositionReads ---------------------------
(***************************************************************************)
(* How the positions of an address are read from the protocols' contracts   *)
(* and from providers, packages/adapters: the wallet (stacks-api-adapter),  *)
(* Zest, Granite and Bitflow.  A question says what the chain and the       *)
(* providers answer, Unreported where one fails; all contract reads of one      *)
(* discovery see the chain at one pinned tip.                               *)
(***************************************************************************)
EXTENDS Integers, FiniteSets, Sequences, SequencesExt

Unreported == -1

Refused == [ok |-> FALSE, positions |-> {}]
Listed(positions) == [ok |-> TRUE, positions |-> positions]

SumSeq(s) == FoldLeft(LAMBDA sum, n : sum + n, 0, s)

Amount(asset, n) == [asset |-> asset, n |-> n]
Held(kind, own, owed, state, spendable) ==
    [kind |-> kind, own |-> own, owed |-> owed, state |-> state, spendable |-> spendable]

-----------------------------------------------------------------------------
(* The wallet: STX, and the tokens of at most ten pages.                    *)
FtPages == 10

Available(w) == IF w.stx.available = Unreported THEN w.stx.total ELSE w.stx.available

BreakdownReconciled(w) ==
    w.stx.available = Unreported \/ Available(w) + w.stx.locked = w.stx.total

StxReconciled(w) ==
    w.tip /\ BreakdownReconciled(w) /\ w.liquid # Unreported /\ w.liquid = Available(w)

StxState(w) == IF StxReconciled(w) THEN "verified" ELSE "estimated"

ReadPages(w) == IF Len(w.pages) > FtPages THEN SubSeq(w.pages, 1, FtPages) ELSE w.pages
Tokens(w) == {t \in UNION {page.tokens : page \in Range(ReadPages(w))} :
                t.balance # 0 /\ ~t.excluded}

TokenState(w, t) ==
    IF ~t.approved THEN "unsupported"
    ELSE IF w.tip /\ t.onChain = t.balance THEN "verified" ELSE "estimated"

TokenPosition(w, t) ==
    Held(IF t.approved /\ t.supply THEN "supply" ELSE "wallet",
         <<Amount(t.name, t.balance)>>, <<>>, TokenState(w, t), t.approved)

WalletPositions(w) ==
    IF w.stx.total = Unreported \/ \E page \in Range(ReadPages(w)) : ~page.answered
    THEN Refused
    ELSE Listed(
        {Held("wallet", <<Amount("STX", Available(w))>>, <<>>, StxState(w), TRUE)}
        \cup (IF w.stx.locked > 0
              THEN {Held("wallet", <<Amount("STX", w.stx.locked)>>, <<>>, StxState(w), FALSE)}
              ELSE {})
        \cup {TokenPosition(w, t) : t \in Tokens(w)})

-----------------------------------------------------------------------------
FloorDiv(n, d) == n \div d    \* mutant: the debt's share is rounded down

CeilDiv(n, d) == (n + d - 1) \div d

(* Zest: supplied legs are shares, debts are scaled by an index.            *)
IndexPrecision == 1000

ZestDebt(scaled, index) == CeilDiv(scaled * index, IndexPrecision)

(* Simple interest, both factors over a day's seconds.                      *)
YearOfBps == 10000 * 365
ProjectedDebt(amount, borrowBps, days) ==
    CeilDiv(amount * (YearOfBps + borrowBps * days), YearOfBps)
DebtProjections(amount, borrowBps) ==
    [days \in {7, 30, 90} |-> ProjectedDebt(amount, borrowBps, days)]

ZestLegs(legs) == [i \in DOMAIN legs |-> Amount(legs[i].asset, legs[i].n)]
ZestDebts(z) ==
    [i \in DOMAIN z.debt |-> Amount(z.debt[i].asset, ZestDebt(z.debt[i].n, z.index))]

(* What each leg needs besides the position itself.                         *)
SupplyNeeds == {"status", "supply vault"}
LendingNeeds == {"egroup", "status", "debt vault", "index", "rates"}

ZestPositions(z) ==
    IF z.failing \cap {"registry", "tip", "bitmap", "position"} # {} THEN Refused
    ELSE IF ~z.tracked \/ (z.collateral = <<>> /\ z.debt = <<>>) THEN Listed({})
    ELSE IF z.collateral = <<>> THEN Refused
    ELSE IF z.debt = <<>>
    THEN IF z.failing \cap SupplyNeeds # {} THEN Refused
         ELSE Listed({Held("supply", <<leg>>, <<>>, "verified", TRUE) :
                        leg \in Range(ZestLegs(z.collateral))})
    ELSE IF z.failing \cap LendingNeeds # {} THEN Refused
    ELSE Listed({Held("lending", ZestLegs(z.collateral), ZestDebts(z), "verified", TRUE)})

-----------------------------------------------------------------------------
(* Granite: a share of the market's open interest is owed, rounded up.      *)
GraniteDebt(shares, interest, total) ==
    IF shares = 0 THEN 0 ELSE CeilDiv(interest * shares, total)

InBps(n) == n >= 1 /\ n <= 10000

GranitePositions(g) ==
    IF ~g.enabled THEN Listed({})
    ELSE IF g.failing \cap {"functions", "tip", "position"} # {} THEN Refused
    ELSE IF g.collateral = <<>> /\ g.shares = 0 THEN Listed({})
    ELSE IF \/ Len(g.collateral) # 1
            \/ g.failing \cap {"approval", "balance", "settings", "debt"} # {}
            \/ g.shares > 0 /\ (g.interest = 0 \/ g.total = 0)
            \/ ~InBps(g.maximum) \/ ~InBps(g.threshold)
    THEN Refused
    ELSE Listed({Held("lending", <<Amount(g.collateral[1].asset, g.collateral[1].n)>>,
                      <<Amount("aeUSDC", GraniteDebt(g.shares, g.interest, g.total))>>,
                      "verified", TRUE)})

-----------------------------------------------------------------------------
(* Bitflow: a share of each bin is owned, rounded down.                     *)
MaxBins == 16

BinShare(balance, shares, total) == IF shares = 0 THEN 0 ELSE (balance * shares) \div total

Canonical(p) == p.readable /\ Len(p.bins) <= MaxBins
BinSum(bins, side) ==
    SumSeq([i \in DOMAIN bins |-> BinShare(bins[i][side], bins[i].shares, bins[i].total)])

PoolAmount(p, side) ==
    IF Canonical(p) THEN BinSum(p.bins, side) ELSE p.reported[side]

(* All three of the provider's amounts say that nothing is there.           *)
ExplicitlyEmpty(p) == p.reported.x = 0 /\ p.reported.y = 0 /\ p.value = 0

(* The price range comes in one of two units, found by the active price.    *)
RangeFits(p) == \E unit \in {1, 1000000} : p.lower <= p.price * unit /\ p.price * unit <= p.upper

PoolReadable(p) ==
    /\ p.approved /\ p.lower # Unreported /\ p.upper # Unreported
    /\ p.active /\ p.sameContract /\ RangeFits(p)
    /\ p.readable => p.reconciled
    /\ Canonical(p) => \A bin \in Range(p.bins) : bin.shares > 0 => bin.total > 0
    /\ Canonical(p) \/ (p.reported.x # Unreported /\ p.reported.y # Unreported)

PoolPosition(p) ==
    Held("liquidity", <<Amount("x", PoolAmount(p, "x")), Amount("y", PoolAmount(p, "y"))>>,
         <<>>, IF Canonical(p) /\ p.nfts > 0 THEN "verified" ELSE "estimated", TRUE)

BitflowPositions(b) ==
    LET pools == {p \in Range(b.pools) : ~ExplicitlyEmpty(p)}
    IN  IF ~b.enabled \/ ~b.answered \/ \E p \in pools : ~PoolReadable(p) THEN Refused
        ELSE Listed({PoolPosition(p) : p \in pools})
-----------------------------------------------------------------------------
(* What an answer may never do, of each kind of position.                   *)

HeldInAll(positions) == FoldSet(LAMBDA p, sum : p.own[1].n + sum, 0, positions)

(* A verified amount is the chain's, whatever the provider said; STX that   *)
(* the provider breaks down is not counted twice.                           *)
WalletIsSound(w) ==
    LET a == WalletPositions(w)
        stx == {p \in a.positions : p.own[1].asset = "STX" /\ p.state = "verified"}
    IN  /\ \A p \in stx : p.spendable => p.own[1].n = w.liquid
        /\ stx # {} /\ w.stx.available # Unreported
             => HeldInAll(stx) = w.stx.total
        /\ \A p \in a.positions \ stx : p.state = "verified" =>
             \E t \in Tokens(w) : t.name = p.own[1].asset /\ t.onChain = p.own[1].n

(* Every leg or an error: no debt is ever dropped from beside the           *)
(* collateral, and none is below what it is worth, now or later.            *)
ZestIsSound(z) ==
    LET a == ZestPositions(z)
        own == UNION {Range(p.own) : p \in a.positions}
    IN  a.ok /\ z.tracked =>
          /\ own = Range(ZestLegs(z.collateral))
          /\ \A p \in a.positions : Len(p.owed) = Len(z.debt)
          /\ \A p \in a.positions : \A i \in DOMAIN p.owed :
               LET n == p.owed[i].n
                   later == DebtProjections(n, z.borrow)
               IN  /\ n * IndexPrecision >= z.debt[i].n * z.index
                   /\ n <= later[7] /\ later[7] <= later[30] /\ later[30] <= later[90]

GraniteIsSound(g) ==
    LET a == GranitePositions(g)
    IN  a.ok /\ g.enabled => \A p \in a.positions :
          /\ Len(p.own) = Len(g.collateral)
          /\ g.shares > 0 => p.owed[1].n > 0 /\ p.owed[1].n * g.total >= g.interest * g.shares

(* All borrowers together owe at least what is lent, all providers of       *)
(* liquidity own at most what is there, and neither is off by more than     *)
(* one unit each.                                                           *)
MarketIsSound(m) ==
    LET total == SumSeq(m.shares)
        owed == SumSeq([i \in DOMAIN m.shares |-> GraniteDebt(m.shares[i], m.pool, total)])
        owned == SumSeq([i \in DOMAIN m.shares |-> BinShare(m.pool, m.shares[i], total)])
    IN  /\ total > 0 => owed \in m.pool .. m.pool + Len(m.shares)
        /\ owned <= m.pool
        /\ total > 0 => owned >= m.pool - Len(m.shares)

(* A pool counts as verified only with amounts from the chain and its NFT.  *)
BitflowIsSound(b) ==
    LET a == BitflowPositions(b)
    IN  a.ok =>
          /\ \A pool \in Range(b.pools) : ExplicitlyEmpty(pool) \/ PoolPosition(pool) \in a.positions
          /\ \A p \in a.positions : p.state = "verified" =>
               \E pool \in Range(b.pools) :
                  /\ pool.nfts > 0
                  /\ \A side \in {"x", "y"} :
                       p.own[IF side = "x" THEN 1 ELSE 2].n
                         <= SumSeq([i \in DOMAIN pool.bins |-> pool.bins[i][side]])
=============================================================================
