---------------------------- MODULE MCDecisions ----------------------------
(***************************************************************************)
(* Questions put to the pure parts of the program, for TLC: a state is a    *)
(* question, <<subject, input>>, and the invariants say what is true of the *)
(* answer.  The inputs are chosen around the places where an answer turns.  *)
(***************************************************************************)
EXTENDS PriceQuorum, Valuation, PortfolioHistory, RiskEngine, YieldCatalog, PositionReads, ProtocolProjection,
        SbtcLifecycle, UsageAnalytics, TLC

VARIABLE question

NotAsked == <<"nothing">>
AskNothing == question = NotAsked

Question(subject, input) == question' = <<subject, input>>

-----------------------------------------------------------------------------
(* Prices 1.5 % apart, just more, and 3 %; ages that are fresh, older but   *)
(* fresh, and stale for every source.                                       *)
At(price, age) == [NoQuote EXCEPT !.price = price, !.age = age]
Answers == {NoQuote} \cup
    {At(10000, 1000)} \cup {At(p, a) : p \in {10000, 10150, 10151, 10300}, a \in {5, 50}}

AskQuorum ==
    \E r \in [DOMAIN Profile -> Answers] :
      Question("quorum", [s \in DOMAIN Profile |-> SourceQuote(s, "BTC", r[s])])

-----------------------------------------------------------------------------
(* The books, of sources that agree, disagree, answer late or alone.        *)
Answering(p) == [agree    |-> [dia |-> At(p, 800), coingecko |-> At(p + p \div 100, 10),
                               coinbase |-> NoQuote, pyth |-> NoQuote],
                 disagree |-> [dia |-> At(p, 20), coingecko |-> NoQuote,
                               coinbase |-> At(p + p \div 20, 10), pyth |-> NoQuote],
                 late     |-> [dia |-> NoQuote, coingecko |-> NoQuote,
                               coinbase |-> At(p, 10), pyth |-> At(p, 70)],
                 alone    |-> [dia |-> At(p, 30), coingecko |-> NoQuote,
                               coinbase |-> At(p, 121), pyth |-> NoQuote]]
Reports(p, ways) == {Answering(p)[w] : w \in ways}
Pools(usdcx, stable) == [USDCx |-> usdcx, USDH |-> stable, aeUSDC |-> stable]

(* In units of a hundredth of a dollar: a bitcoin is at 10,000 of them, and *)
(* at its pool a dollar of USDCx at 100 or off its peg.                     *)
BookReads ==
    [reading : [BTC : Reports(10000, {"agree", "disagree", "late"}),
                STX : Reports(50, {"agree", "alone"}),
                USDC : Reports(100, DOMAIN Answering(100)),
                USDH : Reports(100, DOMAIN Answering(100))],
     pool : {Pools(usdcx, stable) : usdcx \in {0, 10000, 12000}, stable \in {0, 100, 103}},
     rate : {[a \in Assets |-> rate] : rate \in {0, 110}},
     approved : {Assets, {"stSTX", "zsBTC"}}]
AskBook == \E m \in BookReads : Question("book", m)

(* Up to two positions, with an asset RiskOS does not support.              *)
Leg(asset, amount) == [asset |-> asset, amount |-> amount, value |-> NoValue, trust |-> 0]
Owning(kind, own, owed, spendable) ==
    [kind |-> kind, own |-> own, owed |-> owed, spendable |-> spendable]
Shapes == {
    Owning("wallet", <<Leg("sBTC", 3)>>, <<>>, TRUE),
    Owning("wallet", <<Leg("STX", 700)>>, <<>>, FALSE),
    Owning("wallet", <<Leg("odd", 5)>>, <<>>, TRUE),
    Owning("lending", <<Leg("sBTC", 7)>>, <<Leg("STX", 900)>>, TRUE),
    Owning("lending", <<Leg("sBTC", 7), Leg("STX", 100)>>, <<Leg("odd", 9)>>, TRUE),
    Owning("liquidity", <<Leg("sBTC", 1), Leg("STX", 333)>>, <<>>, TRUE)}
WithState(shape, state) ==
    [kind |-> shape.kind, own |-> shape.own, owed |-> shape.owed,
     spendable |-> shape.spendable, state |-> state]
MCSupported == {"sBTC", "STX"}
MCBitcoin == {"sBTC"}

QuoteAt(price, trust, age) ==
    [price |-> price, confidence |-> trust, age |-> age, observedAge |-> age, fixture |-> FALSE]
QuotesOf(price) == {QuoteAt(price, 88, 10), QuoteAt(price, 75, 10), QuoteAt(price, 88, 901)}

AskPortfolio ==
    \E first, second \in Shapes, s, t \in {"verified", "estimated", "degraded"},
       b \in QuotesOf(101), x \in QuotesOf(1) :
      LET quotes == [sBTC |-> b, STX |-> x]
      IN Question("portfolio", <<Enriched(WithState(first, s), quotes),
                            Enriched(WithState(second, t), quotes)>>)

(* A price stands exactly when two fresh sources agree, and lies among      *)
(* sources that agree pairwise (resolveQuorum), and whatever chain of books *)
(* it goes through, it still rests on two providers, as old and as doubtful *)
(* as the worst answer below it.  A subtotal counts only positions priced   *)
(* to their last leg, debts too, an exact total only verified ones:         *)
(* enrichment and analyzePortfolio, which decide about evidence separately, *)
(* agree.                                                                   *)
ValuesSound ==
    /\ question[1] = "quorum" => QuorumIsSound(question[2])
    /\ question[1] = "book" => TowerIsSound(question[2])
    /\ question[1] = "portfolio" => SummaryIsSound(question[2])
(* The promise of the net worth's own description, that a debt without a    *)
(* price is never counted as zero, read of the totals that are given.       *)
DebtWithheld == question[1] = "portfolio" => MissingDebtWithheld(question[2])

-----------------------------------------------------------------------------
(* Up to three reads of a wallet that are kept: of one block, of parts of   *)
(* two, again with the same or another reading, under another manifest,     *)
(* after a reorganisation, with nothing to keep.                            *)
Reading(state, value) ==
    [kind |-> "wallet", owed |-> <<>>, spendable |-> TRUE, state |-> state,
     own |-> <<[asset |-> "sBTC", amount |-> 1, value |-> value, trust |-> 90]>>]
KnownPosition(id, heights, value) ==
    [id |-> id, heights |-> heights,
     reading |-> Reading(IF value = NoValue THEN "degraded" ELSE "verified", value)]
BeforeReorg == <<"a1", "a2">>
AfterReorg == <<"b1", "a2", "a3">>
Save(chain, version, positions) ==
    [chain |-> chain, provider |-> [h \in {3} |-> "a3"], version |-> version, positions |-> positions]
OfOneBlock == {KnownPosition(1, {1}, 5), KnownPosition(2, {1}, 7)}
Saves == {
    Save(BeforeReorg, "v1", OfOneBlock),
    Save(BeforeReorg, "v1", {KnownPosition(1, {1}, 6), KnownPosition(2, {1, 2}, 7)}),
    Save(BeforeReorg, "v1", {KnownPosition(1, {2}, 5), KnownPosition(2, {1}, 7)}),
    Save(AfterReorg, "v2", {KnownPosition(1, {3}, 5), KnownPosition(2, {3}, NoValue)}),
    Save(AfterReorg, "v1", {KnownPosition(1, {1}, 5)})}
OtherSaves == {
    Save(BeforeReorg, "v2", OfOneBlock), Save(BeforeReorg, "v1", {KnownPosition(1, {3}, 5)}),
    Save(BeforeReorg, "v1", {KnownPosition(1, {3}, 5), KnownPosition(2, {4}, 5)}), Save(AfterReorg, NoManifestYet, OfOneBlock),
    Save(AfterReorg, "v1", {KnownPosition(1, {}, 5)})}
Flow(owner, kind, height, index) ==
    [owner |-> owner, protocol |-> "zest", kind |-> kind, height |-> height, index |-> index]
Flows == {Flow("w1", "vault-deposit", 1, 0), Flow("w1", "vault-redeem", 1, 1),
          Flow("w1", "vault-deposit", 2, 0), Flow("w1", "debt-repaid", 3, 0),
          Flow("w2", "vault-redeem", 3, 1)}
AskHistory ==
    \/ \E s \in Saves \cup OtherSaves : Question("save", s)
    \/ \E n \in 0..3 : \E saves \in [1..n -> IF n < 3 THEN Saves \cup OtherSaves ELSE Saves],
         orphaned \in {{"a1"}, {"b1"}, {"a1", "a3"}},
         requested \in {NotANumber, 9}, extended \in BOOLEAN,
         flows \in IF n = 0 THEN SUBSET Flows ELSE {{}} :
        Question("history", [stored |-> SnapshotRows(saves), orphaned |-> orphaned, requested |-> requested,
                             extended |-> extended, flows |-> flows, address |-> "w1"])

(* Up to four responses of the API, a minute apart.                         *)
Asked(method, route, area, key, bearer, status, took) ==
    [method |-> method, route |-> route, area |-> area, key |-> key, bearer |-> bearer,
     status |-> status, took |-> took, at |-> 0, address |-> IF key THEN "w1" ELSE "w2"]
Responses == {
    Asked("GET", "overview", "public", FALSE, FALSE, 200, 9),
    Asked("GET", "overview", "public", TRUE, FALSE, 200, 1),
    Asked("GET", "overview", "public", FALSE, FALSE, 502, 20),
    Asked("POST", "plan", "public", FALSE, TRUE, 200, 4),
    Asked("POST", "session", "admin", FALSE, FALSE, 401, 3),
    Asked("GET", "admin-overview", "admin", FALSE, TRUE, 200, 50)}
AskUsage ==
    \E n \in 0..4 : \E asked \in [1..n -> Responses], salted \in BOOLEAN, since \in {1, 2} :
      Question("usage", [requests |-> [i \in 1..n |-> [asked[i] EXCEPT !.at = i]],
                         salted |-> salted, since |-> since])

(* What the stores tell of the past.  The history shows the latest blocks   *)
(* that stand, each whole and each position once, whatever was saved in     *)
(* between, under whatever manifest; and the use of the API is counted      *)
(* once, in memory as in PostgreSQL.                                        *)
HistorySound ==
    /\ question[1] = "save" => SnapshotIsOfOneBlock(question[2])
    /\ question[1] = "history" => HistoryIsSound(question[2]) /\ RouteIsSound(question[2])
    /\ question[1] = "usage" => UsageIsSound(question[2])

-----------------------------------------------------------------------------
(* Loans with every health up to twice the debt, and evidence of any age.   *)
InCents(n) == IF n = Unknown THEN Unknown ELSE n * Cent
Evidence(unpriced, newest, state) ==
    [fixture |-> FALSE, unpriced |-> unpriced, newest |-> newest, state |-> state]
LoanAsked(c, debt) ==
    [kind |-> "lending", evidence |-> Evidence(FALSE, 10, "verified"),
     loan |-> [collateral |-> InCents(c), debt |-> InCents(debt), threshold |-> 10000]]
PoolAsked(current, slippage, evidence) ==
    [kind |-> "liquidity", evidence |-> evidence,
     pool |-> [lower |-> 1, upper |-> 3, current |-> current, slippage |-> slippage]]
AskLoanRisk ==
    \E c \in {Unknown} \cup 0 .. 2100, debt \in {Unknown, 1000} :
      Question("risk", LoanAsked(c, debt))
AskPoolRisk ==
    \E current \in 0 .. 4, slippage \in {Unknown, 100, 101}, unpriced \in BOOLEAN,
       newest \in {300, 301, 900, 901}, state \in {"verified", "degraded", "unsupported"} :
      Question("risk", PoolAsked(current, slippage, Evidence(unpriced, newest, state)))
AskRisk == AskLoanRisk \/ AskPoolRisk

(* Every amount of small debts, where rounding bites, and the amounts at    *)
(* the ends of a larger one with every other condition of a plan.           *)
Loan(c, units, price, debtLegs, evidenceAge, trust) ==
    [collateral |-> InCents(c), debt |-> ToCents((units * price) \div 100), units |-> units,
     price |-> price, threshold |-> 8000, registered |-> TRUE, debtLegs |-> debtLegs,
     state |-> "verified", evidenceAge |-> evidenceAge, trust |-> trust, priceAge |-> 0]
AskSmallPlan ==
    \E c \in 1 .. 40, units \in {7, 11}, price \in {1000, 1543}, amount \in 0 .. 12 :
      Question("plan", <<Loan(c, units, price, 1, 30, 80), amount>>)
AskPlanAtEnds ==
    \E amount \in {0, 1, 25, 49, 50, 51, 52}, debtLegs \in {1, 2},
       evidenceAge \in {30, 31}, trust \in {79, 80} :
      Question("plan", <<Loan(80, 50, 1543, debtLegs, evidenceAge, trust), amount>>)
AskPlan == AskSmallPlan \/ AskPlanAtEnds

(* The score, the severity and the classification of the summary, computed  *)
(* in three places from breakpoints of their own, never contradict; and a   *)
(* repayment called ready, once made, leaves the loan less than a cent of   *)
(* debt away from the target, in spite of the roundings of two packages.    *)
RiskSound ==
    /\ question[1] = "risk" => FindingsAreConsistent(question[2])
    /\ question[1] = "plan" => PlanReachesTarget(question[2][1], question[2][2])

-----------------------------------------------------------------------------
(* Up to three markets whose order turns with the days, that share          *)
(* protocols and are small, doubtful or not corroborated.                   *)
MCCompounded ==
    [x \in {1000, 1040} \X {30, 365} |->
        CASE x = <<1000, 30>> -> 7864 [] x = <<1040, 30>> -> 8165 [] OTHER -> x[1] * 100]

Offered(protocol, label, rate, confidence, tvl, gap) ==
    [Unavailable(protocol, {}, label, 0) EXCEPT
        !.rate = rate, !.state = "verified", !.confidence = confidence, !.atBlock = TRUE,
        !.tvl = tvl, !.eligible = TRUE,
        !.rateEvidence = [source |-> "feed", age |-> 10, says |-> rate + gap],
        !.capacityEvidence = [source |-> "feed", age |-> 10, says |-> tvl]]
OfferRate == [poor |-> 400, fair |-> 500, good |-> 980, high |-> 1000, top |-> 1040]
OfferTvl == [deep |-> 1000, mid |-> 300, low |-> 250, least |-> 150]
Offers == {
    Offered("zest", "Supply APR", OfferRate.good, 95, OfferTvl.deep, 0),
    Offered("zest", "Reward APY", OfferRate.high, 90, OfferTvl.low, 50),
    Offered("zest", "Supply APR", OfferRate.poor, 80, OfferTvl.deep, -50),
    Offered("granite", "Reward APY", OfferRate.top, 79, OfferTvl.deep, 0),
    Offered("granite", "Supply APR", OfferRate.fair, 90, OfferTvl.least, 0),
    Offered("hermetica", "Supply APR", OfferRate.good, 96, OfferTvl.mid, 51)}

Periods == {30, 365}    \* days
ASSUME CompoundedAssumption ==
    \A m \in Offers, days \in Periods :
       m.label = "Reward APY" => Compounded[<<m.rate, days>>] \in Nat

AskAllocation ==
    \E S \in SUBSET Offers, capital \in {7, 10}, days \in Periods,
       mode \in {"recommend", "explore"} :
      /\ Cardinality(S) <= 3
      /\ Question("allocation", <<SetToSeq(S), capital, days, mode>>)

-----------------------------------------------------------------------------
(* Zest's vaults and the feed agree, differ, repeat themselves or fail.     *)
Vault(borrow, utilization) == [borrow |-> borrow, utilization |-> utilization, reserve |-> 1000]
FeedRecord(pool, underlying, rate, count) ==
    [pool |-> pool, underlying |-> underlying, rate |-> rate, tvl |-> 1000, count |-> count,
     outlier |-> FALSE]
SteadyPool == FeedRecord("p1", "STX", 770, 2)
HigherPool == FeedRecord("p2", "STX", 771, 3)
SparsePool == FeedRecord("p3", "STX", 720, 1)
BtcPool == FeedRecord("p4", "sBTC", 450, 2)
Records == {SteadyPool, HigherPool, SparsePool, BtcPool}

FeedAnswers == {NoAnswer} \cup [age : {3600, 3601}, records : SUBSET Records]
StxVaults == {NoAnswer, Vault(1000, 8000), Vault(1000, 0), Vault(1000, 10001)}
BtcVault == Vault(500, 10000)

Growths == {-500, 800, 100001}
VaultAges == {1800, 1801}
Survey(enabled, tip, answers, stx, growth, age, feed) ==
    [enabled |-> enabled, tip |-> tip, age |-> age, strategyApproved |-> answers, feed |-> feed,
     zest |-> [STX |-> stx, sBTC |-> BtcVault],
     strategy |-> IF answers THEN [growth |-> growth] ELSE NoAnswer,
     granite |-> IF answers THEN [borrow |-> 900, reserve |-> Missing, tvl |-> 700] ELSE NoAnswer,
     bitflow |-> [pool |-> IF answers THEN [approved |-> TRUE, rate |-> 3000, tvl |-> 90]
                           ELSE NoAnswer],
     hermetica |-> IF answers THEN [rate |-> 1500, tvl |-> 80] ELSE NoAnswer,
     stacking |-> IF answers THEN [stSTX |-> 600, stBTC |-> 300] ELSE NoAnswer]

AskCatalog ==
    \E enabled \in {Protocols, {"zest"}, Protocols \ {"zest"}}, tip, answers \in BOOLEAN,
       stx \in StxVaults, growth \in Growths, age \in VaultAges, feed \in FeedAnswers :
      Question("catalog", Survey(enabled, tip, answers, stx, growth, age, feed))

(* No one source, however wrong, is enough to put capital anywhere, and no  *)
(* enabled protocol is left out silently: discover with the gates of the    *)
(* strategy engine, which each look at other fields of a market.  Spreading *)
(* the best paid first over nested caps, of markets, protocols and pools,   *)
(* leaves no better spread, which only the right order ensures.             *)
YieldsSound ==
    /\ question[1] = "allocation" =>
         PlanIsOptimal(question[2][1], question[2][2], question[2][3], question[2][4])
    /\ question[1] = "catalog" => CatalogIsSound(question[2])

-----------------------------------------------------------------------------
(* A wallet whose provider, node and registry agree, differ or fail; pages  *)
(* of tokens beyond the last that is read.                                  *)
Token(name, balance, onChain, approved, supply) ==
    [name |-> name, balance |-> balance, onChain |-> onChain, approved |-> approved,
     supply |-> supply, excluded |-> FALSE]
Page(tokens, answered) == [tokens |-> tokens, answered |-> answered]
Full == Page({Token("sBTC", 3, 3, TRUE, FALSE), Token("zsBTC", 5, 4, TRUE, TRUE),
              Token("odd", 9, 9, FALSE, FALSE)}, TRUE)
FinalPage == Page({Token("USDH", 8, 8, TRUE, FALSE)}, TRUE)
WalletPages ==
    {<<Full>>, <<Full, Page({}, FALSE)>>, [i \in 1..11 |-> IF i = 11 THEN FinalPage ELSE Full]}
WalletReads ==
    [stx : [total : {Unreported, 100}, available : {Unreported, 60, 100}, locked : {0, 40}],
     tip : BOOLEAN, liquid : {Unreported, 60, 100}, pages : WalletPages]
AskWallet == \E w \in WalletReads : Question("wallet", w)

(* Every split of a market into up to three shares.                         *)
AskMarket ==
    \E n \in 1..3 : \E shares \in [1..n -> 0..4], pool \in 0..12 :
      Question("market", [shares |-> shares, pool |-> pool])

ChainLeg(asset, n) == [asset |-> asset, n |-> n]
Collaterals == {<<>>, <<ChainLeg("zSTX", 40)>>, <<ChainLeg("zSTX", 40), ChainLeg("sBTC", 1)>>}
Debts == {<<>>, <<ChainLeg("USDCx", 7)>>, <<ChainLeg("USDCx", 7), ChainLeg("USDH", 299)>>}
ZestFailures == {{}} \cup {{f} : f \in LendingNeeds \cup SupplyNeeds \cup {"tip", "position"}}
ZestReads ==
    [collateral : Collaterals, debt : Debts, index : {1000, 1001, 1333}, borrow : {0, 700},
     tracked : BOOLEAN, failing : ZestFailures]
GraniteReads ==
    [enabled : {TRUE}, collateral : {[i \in 1..legs |-> ChainLeg("sBTC", 3)] : legs \in 0..2},
     shares : {0, 1, 5}, interest : {0, 7}, total : {0, 9}, maximum : {0, 7000},
     threshold : {8000, 10001}, failing : {{}, {"settings"}}]
AskLoan ==
    \/ \E z \in ZestReads : Question("zest", z)
    \/ \E g \in GraniteReads : Question("granite", g)

Bin(shares, total) == [shares |-> shares, total |-> total, x |-> 10, y |-> 7]
BinSets == {<<>>, <<Bin(1, 3)>>, <<Bin(1, 3), Bin(2, 3)>>, <<Bin(1, 0)>>, [i \in 1..17 |-> Bin(0, 1)]}
PoolReads ==
    [bins : BinSets, reported : [x : {Unreported, 0, 6}, y : {0}], value : {0, 1},
     lower : {1}, upper : {Unreported, 2, 3000000}, price : {3},
     approved : BOOLEAN, readable : BOOLEAN, reconciled : BOOLEAN, nfts : {0, 1},
     active : {TRUE}, sameContract : {TRUE}]
AskPools ==
    \E pool \in PoolReads, two \in BOOLEAN :
      Question("pools", [enabled |-> TRUE, answered |-> TRUE,
                         pools |-> IF two THEN <<pool, [pool EXCEPT !.nfts = 1]>> ELSE <<pool>>])

(* What is read of an address is all of it or an error, its debts rounded   *)
(* up and its shares down, and nothing is verified on one provider's word.  *)
ReadsSound ==
    /\ question[1] = "wallet" => WalletIsSound(question[2])
    /\ question[1] = "market" => MarketIsSound(question[2])
    /\ question[1] = "zest" => ZestIsSound(question[2])
    /\ question[1] = "granite" => GraniteIsSound(question[2])
    /\ question[1] = "pools" => BitflowIsSound(question[2])

-----------------------------------------------------------------------------
(* A manifest with a pool that is active later than the others, and two     *)
(* events of one transaction.                                               *)
Entry(protocol, role, from) == [protocol |-> protocol, role |-> role, from |-> from]
MCManifest ==
    [mkt |-> Entry("zest", "market-vault", 0), vlt |-> Entry("zest", "vault", 0),
     pool |-> Entry("bitflow", "pool", 5), reg |-> Entry("sbtc", "registry", 0),
     tok |-> Entry("sbtc", "token", 0), egr |-> Entry("zest", "egroup", 0)]
Log(contract, print) == Parsed("contract_log", contract, NoAsset, print, NoAmount, Nothing)
TokenEvent(kind, asset, print, amount) == Parsed(kind, Nothing, asset, print, amount, "w1")
Completed == [topic |-> "completed-deposit", txid |-> "b1", amount |-> 9]
Prints == {
    Log("mkt", [action |-> "debt-add-scaled", account |-> "w1", amount |-> 4]),
    Log("vlt", [action |-> "redeem", recipient |-> "w1", amount |-> 5, shares |-> 5]),
    Log("vlt", [action |-> "deposit", recipient |-> "w1"]),
    Log("mkt", NoPrint), Log("mkt", [action |-> "accrue"]), Log("egr", [action |-> "deposit"]),
    Log("pool", [action |-> "pool-burn", user |-> "w1", id |-> "7", amount |-> 3]),
    Log("pool", [action |-> "swap"]),
    TokenEvent("nft_transfer", PoolToken("pool"), [owner |-> "w1", id |-> "7"], NoAmount),
    TokenEvent("nft_mint", PoolToken("elsewhere"), [owner |-> "w1", id |-> "7"], NoAmount),
    Log("reg", [topic |-> "withdrawal-create", id |-> "1", sender |-> "w1", amount |-> 9]),
    Log("reg", [topic |-> "withdrawal-accept", id |-> "1"]),
    Log("reg", [topic |-> "rotate-keys"]), Log("reg", Completed),
    Log("reg", [recipient |-> "w1"] @@ Completed),
    TokenEvent("ft_mint", <<"tok", "sbtc-token">>, NoPrint, 9),
    TokenEvent("ft_transfer", <<"tok", "sbtc-token">>, NoPrint, 9)}
AskBlock ==
    \E first, second \in Prints, success \in {"yes", "no", "unknown"}, height \in {4, 5} :
      Question("block", [height |-> height,
                         txs |-> <<[success |-> success, events |-> <<first, second>>],
                                   [success |-> "yes", events |-> <<second>>]>>])

(* The rows of a block are the same in whatever envelope its events are     *)
(* delivered, and compaction takes none of them away, completed deposits    *)
(* that leave their recipient to the mint excepted.                         *)
ProjectionSound ==
    question[1] = "block" =>
        ProjectionIsSound(MCManifest, question[2].height, question[2].txs)
(* Compaction takes no row away, of no event whatever.                      *)
CompactionLosesNothing ==
    question[1] = "block" =>
        CompactionIsLossless(MCManifest, question[2].height, question[2].txs)

-----------------------------------------------------------------------------
(* One deposit and one withdrawal, which Stacks, Emily and Bitcoin know, do *)
(* not know yet, or contradict each other about.                            *)
Withdrawal == <<"withdrawal", "1">>
SbtcEvent(op, kind, txid, sweep, amount) ==
    [op |-> op, kind |-> kind, txid |-> txid, sweep |-> sweep, amount |-> amount,
     owner |-> IF kind \in {"withdrawal-create", "completed-deposit"} THEN "w1" ELSE Nothing]
AcceptEvent == SbtcEvent(Withdrawal, "withdrawal-accept", "b1", "b2", 0)
WithdrawalEvents == {{}, {"withdrawal-create"}, {"withdrawal-create", "withdrawal-reject"}}
DepositRecord(status, amount, fulfilled, sweep) ==
    [txid |-> "b3", status |-> status, amount |-> amount, fee |-> 1, fulfilled |-> fulfilled,
     sweep |-> sweep]
EmilyStatuses == {"pending", "accepted", "confirmed", "failed"}
CompletedEvent == SbtcEvent(<<"deposit", "b3">>, "completed-deposit", "b3", "b2", 9)
KnownEvents(told, accepted, completed) ==
    {SbtcEvent(Withdrawal, k, NoTxid, NoTxid, 0) : k \in told}
    \cup (IF accepted THEN {AcceptEvent} ELSE {})
    \cup (IF completed THEN {CompletedEvent} ELSE {})
World(events, mined, emily, deposit, answers, tip) ==
    [address |-> "w1", events |-> events,
     withdrawals |-> {emily} \ {NoRecord}, deposits |-> {deposit} \ {NoRecord},
     minedAt |-> [t \in mined \cup {"b3"} |-> IF t = "b2" THEN 5 ELSE 2], tip |-> tip,
     emilyAnswers |-> answers, bitcoinAnswers |-> TRUE]
EmilyRecords ==
    [id : {"1"}, sender : {"w1"}, status : EmilyStatuses, txid : {NoTxid, "b4"}]
DepositRecords ==
    {DepositRecord(s, 9 + fee, f, sweep) :
       s \in EmilyStatuses, fee \in {0, 1}, f \in BOOLEAN, sweep \in {"b1", "b2"}}
AskSbtc ==
    \E told \in WithdrawalEvents, accepted \in BOOLEAN, mined \in SUBSET {"b1", "b2", "b4"},
       emily \in {NoRecord} \cup EmilyRecords, deposit \in {NoRecord} \cup DepositRecords,
       completed, answers \in BOOLEAN, tip \in {3, 5} :
      /\ emily = NoRecord \/ deposit = NoRecord \/ emily.status = "pending"
      /\ Question("sbtc", World(KnownEvents(told, accepted, completed), mined, emily, deposit,
                                answers, tip))

(* An sBTC operation called completed is so on Stacks and on Bitcoin, with  *)
(* nobody denying it, and stays so: reconcileSbtcAddress, over three        *)
(* sources that learn of it at different times.                             *)
LifecycleSound == question[1] = "sbtc" => LifecycleIsSound(question[2])

-----------------------------------------------------------------------------
AskAny ==
    /\ question = NotAsked
    /\ \/ AskQuorum \/ AskBook \/ AskPortfolio \/ AskHistory \/ AskUsage \/ AskRisk \/ AskPlan
       \/ AskAllocation \/ AskCatalog
       \/ AskWallet \/ AskMarket \/ AskLoan \/ AskPools \/ AskBlock \/ AskSbtc

Decisions == AskNothing /\ [][AskAny]_question
=============================================================================
