# RiskOS: verification project

TLA+ models of RiskOS, model-checked with TLC on small instances and, for the
components where it matters most, proved with TLAPS for every value of their
constants. Two kinds of module:

- *state machines* of whatever depends on how processes, requests, callbacks and
  database transactions interleave: one action per SQL statement, or per stretch of
  a handler between two `await`s;
- *decision modules* of the pure parts (prices, totals, risks, allocations, catalogues,
  reads of positions, projections, sBTC states): operators that compute what the code computes,
  and statements about their answers that relate parts of the code written apart.

Every definition is a translation of the TypeScript and SQL under `src/`. The
entry of `PROJECT.json` under `map` names, for each definition, the lines it stands for. PostgreSQL, the
Stacks API, the clock and the wallets are external: they are modelled from how the code relies
on them.

- [Inventory](#inventory)
- [How the parts interact](#how-the-parts-interact)
- [The modules and the code](#the-modules-and-the-code)
- [Runs, bounds and what they show](#runs-bounds-and-what-they-show)
- [Fairness](#fairness)
- [Disagreements found](#disagreements-found)
- [Proofs](#proofs)
- [What is not modelled, and why](#what-is-not-modelled-and-why)
- [Plan](#plan)
- [Running it](#running-it)

## Inventory

RiskOS reads the DeFi positions of Stacks wallets, values them, scores their risk
and plans protective actions. Paths are relative to `src/`.

### State that lasts (PostgreSQL, or its in-memory stand-ins)

| Component | State | Operations | What makes it correct |
|---|---|---|---|
| Canonical event store, `packages/data-foundation/src/postgres-store.ts`, `store.ts`, migration 001 | blocks, transactions, events, projections, issues, each with a `canonical` flag; raw deliveries by event key; position snapshots; checkpoints and source health | `ingest`, `savePositionSnapshots`, `canonicalBlock`, `canonicalTip`, snapshot queries | one canonical block per height; nothing derived from an orphaned block is served; a delivery takes effect once, whole; a success answer is true; the memory store does the same |
| Registry store, `registry-store.ts` | `contract_registry_versions`: content and state per version | `activate`, `active` | at most one active version per network, never none once there was one; a version's content never changes |
| Registry event backfill, `scripts/backfill-registry-events.ts`, migrations 004, 005 | `registry_backfill_checkpoints`: status and `next_offset` per contract | pages through a contract's events, ingests them, resumes | complete means read to the end; resuming skips only what had no transaction; the loop ends |
| Reprojection, `scripts/reproject-from-db.ts` | none of its own; rewrites `protocol_projection_events` | lists canonical blocks, decodes and upserts their rows | no rollback is undone |
| Commercial plans, keys and quota, `packages/commercial/src/index.ts`, migration 006 | entitlements, API keys, usage per key and month | create, revoke, authenticate and count | the monthly quota is exact; limits on keys and rules hold as closely as the code can keep them |
| Product workflows, `packages/workflows/src/index.ts`, migration 003 | action intents, alert rules and occurrences, challenges and sessions | routes of the API | a recorded transaction belongs to a validated, unexpired intent; an occurrence is never lost and, in the database, not opened anew by evaluating again |
| Operations and administration, `packages/operations/src/index.ts`, migration 009 | usage events, administrators' sessions, failed attempts | analytics, admin login | nobody is locked out without having failed; a response is counted once |

### State that lives in a process

| Component | State | What makes it correct |
|---|---|---|
| API application, `apps/api/src/app.ts` | caches of positions, verified assets and yield markets with their flights; the anonymous rate window | no answer older than its lifetime promises; one flight per key, which ends for all who share it; no count in force is forgotten without need |
| HTTP retry and concurrency gate, `packages/adapters/src/http-retry.ts` | active requests, waiters, next start time | never more than the limit in flight; first in, first out; every waiter is served |
| Wallet authentication, `packages/auth/src/index.ts` | challenges and sessions (in the product store) | one session per challenge; none after expiry or logout |
| Registry admission, `registry.ts`, `contract-verifier.ts`, `app.ts` | a request's verification so far | what becomes active was found on chain, and in force after that |
| Client SDK, `packages/client/src/index.ts` | a call's attempts | nothing is sent once aborted; a call ends |
| Web application, `apps/web/src/App.tsx` | generation, abort controller, what is shown | the latest inspection is what is shown |

### Pure computation

Chainhook parsing and compaction (`chainhook.ts`, `protocol-projection.ts`), sBTC reconciliation
(`sbtc-reconciliation.ts`), pricing (`packages/pricing`), risk findings
(`packages/risk-engine`), totals (`packages/portfolio-engine`), strategy
allocation (`packages/strategy-engine`), repayment planning (`packages/execution`), the wallet, Zest,
Granite and Bitflow adapters and the yield catalogue (`packages/adapters`), usage analytics. What is hard there:
breakpoints and truncating divisions chosen independently in several places that must agree,
partial failures of one of many reads, sources that contradict each other or come late,
greedy choices under overlapping limits.

`PROJECT.json` lists every component with its status, and every
hazard of the code at its line, with the properties that cover it or the reason why
none does.

## How the parts interact

- **Chainhook to store.** `POST /v1/ingest/chainhooks/stacks` parses a payload into a
  batch of blocks to roll back and blocks to apply, compacts it, and calls `store.ingest`. The node sends
  again what was not answered. Several API instances, a chainhook backfill and the registry
  backfill call `ingest` at the same time; the reprojection script rewrites projections beside them.
- **API to store.** A request for positions reads the adapters, then the canonical tip, then the
  active registry, and calls `savePositionSnapshots`. When the store
  has no recent block the API fetches one and ingests it
  (`ensureCanonicalSnapshotBlock`). A reorganisation may commit between any two of
  these. Requests of one address share one discovery and, for 45 s, its result.
- **Adapters to providers.** All reads of a process go through one gate and its retries; the reads
  of one discovery are pinned to one tip, whose lookup concurrent callers share.
- **Prices to positions to findings.** Quotes settle in a quorum, derived books build on them,
  enrichment gives positions values and an evidence state, totals and findings are computed from these,
  and alert rules turn findings into occurrences.
- **Backfill to store.** `backfill-registry-events.ts` lists a contract's events
  page by page, ingests each page block by block, and moves its checkpoint. It runs while
  the contract emits more events, may be killed at any point, and may run twice.
- **Operations to registry.** `POST /v1/operations/registry/activate` verifies a signed manifest
  against the chain, contract by contract, and calls `registryStore.activate`; adapters and projections read `active`.
- **API key hook to meter.** Every request with a key goes through
  `authenticateAndConsume`. Account and alert routes read the wallet's plan, count what
  it has, and store one more.
- **Intent routes.** `POST /v1/actions/intents` plans and persists; `wallet-request`
  revalidates against the clock and the canonical tip; `submissions` records the transaction.

What is hard: statements of two transactions interleaving at READ COMMITTED;
lock waits, deadlocks and unique-index waits; a delivery lost, repeated, or
committed without its answer arriving; a process dying between two statements; state read before an
`await` and acted on after it; a flight whose result is shared, or lands late; a list that shifts while
it is paged; time passing between a check and the write that relies on it.

## The modules and the code

### CanonicalStore, CanonicalLedger, MemoryStore

`CanonicalStore` is `postgres-store.ts` with one action per SQL statement.

| Code | Model |
|---|---|
| rows of `chain_blocks`, of the tables derived from a block, of `position_snapshots` | `db["blocks"]`, `db["rows"]`, `db["snapshots"]`: per block `absent`, `canonical` or `orphaned` |
| `raw_chain_events` | `raw`: digest per event key |
| a transaction's uncommitted writes, and row locks | `mine[p]`; a row written is locked until the end |
| `FOR SHARE` on the snapshot's block | `shared[p]` |
| the position in `ingest`'s loops | `job`, `item`, `victims`, `target`, `phase` |
| `INSERT INTO raw_chain_events ... ON CONFLICT DO NOTHING` and what follows from it | `ClaimDelivery`, `AcknowledgeDuplicate`, `RejectReusedKey` |
| `rollbackBlock`: UPDATE of the block, of four derived tables, of snapshots | `RollbackHeader`, `RollbackRows`, `RollbackSnapshots` |
| the SELECT of rivals at the same height, `applyBlock` | `NextItem`, `UpsertBlock`, `DeriveRows` |
| COMMIT, with or without an answer | `CommitDelivery` |
| `savePositionSnapshots` | `LockSnapshotBlock`, `InsertSnapshot`, `CommitSnapshots` |
| `one_canonical_block_per_height`, deadlock detection, lost connections | `UniqueViolation`, `DeadlockVictim`, `Fault` |

READ COMMITTED is modelled as PostgreSQL documents it: each statement sees what is committed when it
starts overlaid with its transaction's own writes (`View`); an UPDATE
does not see, and does not wait for, rows another transaction has inserted and not
committed; an INSERT waits for an uncommitted row with the same key; the partial
unique index waits for undecided rivals and then refuses.

The derived rows of a block are one flag: the statements treat them alike and no
property tells them apart. Hashes and keys are model values.

`CanonicalLedger` is the promise: a delivery takes effect at one instant, taking
the blocks it rolls back or displaces off the chain with all that hangs off them;
a snapshot is of a block that is canonical at that instant. `ImplementsLedger` is the
refinement, under the mapping that forgets everything in flight.

`MemoryStore` is `MemoryDataFoundationStore`, the store of fixture deployments and of the tests, which works
through a batch block by block. It is held to the same ledger, delivery by delivery (`MemFollowsLedger`). Saves of snapshots differ
between the two: one that is saved again after its block returned to the chain is revived in memory and stays
invalid in PostgreSQL, so a test on the memory store can describe a behaviour the other does not have.

### RegistryActivation, RegistryMemory, RegistryAdmission

`RegistryActivation` is `PostgresRegistryStore.activate`: the SELECT that compares
the content (`Begin`), the UPDATE that supersedes, split into the moment it picks its rows and the
moment it has their locks and looks at them again (`ScanActive`, `Supersede`), the INSERT
that waits for its version's row, takes it, and holding it waits for the unique index (`TakeVersion`, `Insert`,
`UniqueViolation`), `Commit`, `DeadlockVictim` and `Fault`. The activations can deadlock: of two that
re-activate v2 around a commit of v3, one has the row of v2 and waits for the index entry of v3, which the other
has superseded, and the other waits for the row of v2. PostgreSQL aborts one of them and the route answers 400. That this needs
two activations of one version is `OnlyRepeatsDeadlock`. `stored` and `state` are the committed rows, `Active` is
what `active()` reads. `RegistryMemory` is `MemoryRegistryStore`, whose
activation is one step, and the abstract specification: `ImplementsMemoryStore`.
The version is a primary key that all networks share; one network is modelled,
so two networks that use one version string are outside the model.

`RegistryAdmission` is what comes before: the route verifies signature, form and dates (`SubmitRegistry`),
`ContractRegistryVerifier` goes through the entries (`NextEntry`), two reads each that are answered in any order (`Read`) while
contracts are deployed and blocks orphaned (`Redeploy`), a lookup may fail (`LookupFails`), and `activate` verifies
the dates once more, with a `now()` taken for the call (`BeginActivation`, `Reject`). Its transaction then waits for its locks as long as they
are held, and commits or fails (`Admit`, `ActivationFails`): a manifest that expires meanwhile becomes active all the same, which
`AdmittedIsCurrent` does not exclude. It says that the manifest was in force at that last look, after every read. `heldSince` records what was true of each contract at some moment of the request.
Signatures and trust are oracles. Facts of this code worth knowing: nothing looks at `expiresAt` after the activation; the
two reviews a release needs may be by one reviewer; an empty manifest verifies nothing; the facts of different
contracts are those of different moments; the verifier is optional in `createApp` (the server configures it).

### RegistryBackfill

One contract, several runs. `head` is the number of events the contract has emitted; the API lists
them newest first, so event *e* is at position `head - e` and every arrival
shifts the list under the offsets in use. `status` and `next_offset` are the
checkpoint; `offset`, `pages`, `size`, `got`, `top`, `slot`, `looked`, `absent`, `done` are a run's local
variables. `Start`, `SetRunning`, `OpenWindow`, `FetchPage`, `FetchElsewhere`, `LosePage`,
`JoinTransactions`, `IngestEvent`, `Advance`, `Exhaust`, `Pause`, `Fail` and `Crash` are the steps of
`backfillContract`, in its order; `Requestable` is `mapLimit`'s dispatch of at most `Concurrency` requests.

The checkpoint's UPDATE is unconditional in the code, so two runs overwrite each
other, in the model as well. An event stands for the block it is in; ingesting it again has
no effect (that is what `CanonicalStore` shows).

Two ways in which the script reads less than the whole list are part of the model. `stacksGet` asks the other
provider after a failure, whose list may lack the newest events (`Lags`); such a page is a step `FetchElsewhere`, and
`skewed` remembers it. And a page's events are ingested with their transactions, which come from `txCache`: one map
for all contracts, which `trimCache` of one can empty while another waits for a request, and in which a contract that
needs full receipts can meet the stubs of one that does not. `JoinTransactions` leaves any of the page's
events without a transaction when other contracts share the process (`Neighbours`); `IngestEvent` passes over those
(`absent`, `dropped`), and the checkpoint advances past them as it does in the code. What the cache holds is not
modelled beyond that, so `dropped` is an upper bound of what a run can lose.

### Reprojection

`ListBlocks` is the script's one SELECT of canonical blocks; per block it reads the stored events (`ReadEvents`) and upserts
each projection, or issue, as canonical, one statement each and outside a transaction (`UpsertProjection`), while
deliveries roll blocks back and apply them again (`RollBack`, `ApplyAgain`). A rollback between the read of a block's events and
the upserts is undone for the projections; `RevivedOnlyByRace` says that this is the only case.
The script takes a `success` of NULL for true, and rows that compaction dropped cannot be reprojected under a later manifest.

### CommercialLimits

One wallet (wallets share nothing). `ReadPlan`, `Count` or `Refuse`, `PutKey` or
`PutRule` are the three awaits of `createWalletApiKey` and of `POST /v1/alerts/rules`;
`Authenticate` and `Consume` the two of `authenticateAndConsume`; `Revoke`, `ChangePlan`,
`NextMonth` and `Abandon` happen at any moment between them. `granted` and `dropped` record
what became of each counted request. Keys that operations provisions have no owner and no limit
on their number; they are metered alike.

### ProtectedIntents

`PutIntent`, `Ask`, `ReadTip`, `Validate`, `Record` and `Throw` are
the intent and wallet-request routes, `Submit` and `RecordTxid` the submission
route, with `Tick` and `MoveTip` (new blocks and reorganisations) between any two.
`dataMode` is chosen once: in live mode every plan is a shadow and nothing can be
submitted; in fixture mode a submission is confirmed at once. The state `submitted` is
for intents that are neither, which no planner produces, so it never occurs.
What is planned only decides whether the intent is ready (`RiskEngine` models that). `saw` is the tip the
handler read, which may be stale when it is used.

### WalletSessions, AdminAccess

`WalletSessions`: `IssueChallenge`, the four steps of a verification (`BeginVerify` reads the clock, `ConsumeChallenge` is the conditional
UPDATE that spends the challenge, `PutSession` stores the session, `AbandonVerify` is a handler lost in between), requests with a session
(`BeginCall`, `Authenticate`) and `Logout`. A handler uses the time its request came in at throughout, so it may
compare with a clock that has moved on. Signatures are an oracle.

`AdminAccess`: a login reads the count of failed attempts, awaits scrypt, and then writes the count or a session
(`BeginLogin`, `FailLogin`, `CompleteLogin`); `EndSession`, and `RestartApi`, which forgets both tables. Overlapping
logins overwrite each other's counts, so the count is a lower bound; what holds is that
nobody is refused who did not fail that often (`LockoutJustified`).

### AnonymousRate, PositionCache, AssetCache, YieldCache

The in-process state of `app.ts`. `AnonymousRate` is the `onRequest` hook: a JavaScript Map, in the order its keys were first set,
from which `Evict` removes dead windows, and the oldest live one only when the table is full of live ones.

`PositionCache` is `positionsFor` over `discoverPositions`: a request is answered from the cache, joins a flight or starts one
(`AskPositions`); the flight runs the adapters (`RunAdapter`), each at the tip it pins (`Pinned`), then reads the canonical tip and
the registry, and saves a snapshot (`ReadCanonicalTip` .. `SaveSnapshot`), may throw at any of these (`ThrowInDiscovery`), and lands
for all who wait (`Land`), the `finally` of the promise removing it from the map (`Removed`).
The positions of one answer are not of one block: adapters that pin on either side of a new block, or of the end of a pin's 15 s, read
at different ones, and the tip that the answer names is the store's, read after all of them. `AnswersFresh` says what remains: how
old each of these blocks may be.

`AssetCache` is `verifiedAssets` with the Zest asset scan below it, kept by manifest; requests and scans read the active manifest at
different moments. `YieldCache` is `currentYieldMarkets`, whose entry expires with the oldest evidence an allocation may rest on,
and is not kept when Zest rates are missing because a provider was busy.

### ReadGate, SdkRetry

`ReadGate` is the process-wide gate (`Enter`, `Pump`, `Release`), a read's retries after a rate limit, in which it keeps its slot
(`RateLimited`, `Again`, `Finish`), and the pinned tip whose lookup goes through the same gate and is shared (`PinTip`, `TipAges`,
`GoOn`). `SdkRetry` is one call of `RiskOsClient.send`: `SendAttempt`, what the API makes of it (`Execute`, `Respond`), timeouts and
failures (`FailAttempt`), the pause before a retry, which only a GET has (`AwaitRetry`), and the caller's `AbortCall` at any moment.

### AlertWorkflow, WebApp

`AlertWorkflow`: an overview or risk request evaluates the risks, reads the rules, and writes rule by rule and risk by risk, one upsert each
(`EvaluateRisks`, `ReadRules`, `StartRule`, `PutOccurrence`, `RuleDone`, `AnswerRisks`), as does `POST /v1/alerts/rules` for its new
rule; other requests, and the risks, move in between, and a handler may fail half way (`LeaveJob`). `durable` says which product store
it is: `PostgresProductStore`, or `MemoryProductStore` (the default of `createApp`, and the server's without `DATABASE_URL`), which makes and
replaces all rows of a rule in one step (`ReplaceOccurrences`), `openedAt` included. `OccurrencesKept` says what each keeps.

`WebApp`: `inspect` with its generation counter and abort controller, the start-up effect, and answers that arrive in any order
(`OverviewArrives`, `OverviewFails`, `HistoryArrives`), also after their fetch was aborted. The history is asked for
once the overview is shown, so an earlier inspection's may stand beside it: `LatestIsShown` says for how long.

### The decision modules

| Module | Code | What its statement relates |
|---|---|---|
| `PriceQuorum` | `packages/pricing`: candidates, clusters, the median and its confidence, the USDCx, stablecoin and receipt books | `QuorumIsSound`: the choice among overlapping clusters against all pairs of fresh sources; `TowerIsSound`: provenance, age and confidence through four layers of books |
| `Valuation` | `enrichPositionsWithUsd`, `analyzePortfolio` | `SummaryIsSound`: subtotals, totals and scenarios against what each position's legs are priced by; `MissingDebtWithheld` |
| `PortfolioHistory` | `persistCanonicalSnapshot`, `ensureCanonicalSnapshotBlock`, `savePositionSnapshots` and the history reads of both stores, the history and cash-flow routes | `SnapshotIsOfOneBlock`, `HistoryIsSound`, `RouteIsSound`: what was saved, by which reads, against what is shown later, and memory against SQL |
| `UsageAnalytics` | the `onResponse` hook, `MemoryAdminAnalyticsStore`, the queries of `PostgresAdminAnalyticsStore` | `UsageIsSound`: the counts of the two stores, and of their parts, against the requests |
| `RiskEngine` | `packages/risk-engine`, the two repayment planners of `packages/execution` | `FindingsAreConsistent`: score, severity and classification; `PlanReachesTarget`: a plan called ready, carried out, against what the engine then recommends; values of legs are cut to cents (`ToCents`), the planner's are not |
| `YieldAllocation` | `allocateYieldCapital` | `PlanIsOptimal`: the greedy spread against every other spread within the caps |
| `YieldCatalog` | `yield-market-catalog.ts`, the yield routes | `CatalogIsSound`: the fields `discover` sets against the gates that read them; a single source moves no money; every protocol enabled is listed or its failure is |
| `PositionReads` | the wallet, Zest, Granite and Bitflow adapters | `WalletIsSound`, `ZestIsSound`, `GraniteIsSound`, `MarketIsSound`, `BitflowIsSound`: all of it or an error; shares never exceed the whole; debt is never less than owed |
| `ProtocolProjection` | `parseEvents`, `compactChainhookBatch`, `projectProtocolEvents` | `ProjectionIsSound`: rows before and after compaction, and under each envelope of the same events; `CompactionIsLossless` |
| `SbtcLifecycle` | `reconcileSbtcAddress` | `LifecycleIsSound`: the answer against all three sources, and as they learn more |

Amounts are scaled down (cents, hundredths, basis points) so that they fit TLC's integers; divisions truncate where the code's do.
Powers (the compounding of `periodReturn`) are a table over the values an instance uses, `Compounded`.
Lists in an order of theirs, as `sort()` leaves them, are `Listing`'s `InOrder`.
`MCDecisions` puts questions to them: its state is one question, and each invariant says what is true of the answer.

Facts of the pure code that the models keep and that a reader may not expect: agreement of prices is measured relative to the
earlier source in a fixed order; an aliased sBTC quote has confidence 0.75 and so is never accepted as verified (0.8);
`withValue` may turn a `degraded` position into an `estimated` one; a health factor between 1.03 and 1.05 is a
`high` finding while the portfolio is classified `critical`; only Zest vaults can ever be recommended; a Bitflow range is
accepted only when it contains the current price, so one out-of-range position makes the whole Bitflow discovery fail;
`countPoolNfts` answers 0 on failure, so the message "NFT reconcile was unavailable" is unreachable; a Stacks API that reports no
`available` has its total used as available while locked STX are listed as well; token pages end at ten;
PostgreSQL keeps the first date of a snapshot row that is saved again (A, B, A shows B), the
memory store counts a position twice that was saved under two manifests at one block, and "complete" ignores positions a
partial snapshot skipped; percentiles are discrete in memory and interpolated in SQL.

## Runs, bounds and what they show

| Run | Instance | Checks |
|---|---|---|
| `store` | 3 blocks: a fork at height 1 and a child; 6 deliveries: extend, reorganise, go back with two blocks, undo both, a backfill of the same two blocks, a reused delivery id; 2 ingesting and 2 saving connections; 1 lost connection (98,814 states up to symmetry) | `OneCanonicalPerHeight`, `SnapshotsCanonical`, `RowsCanonical`, `AcknowledgedIsRecorded`, `InvalidationIsFinal`, `ImplementsLedger` |
| `store_liveness` | extend, reorganise, go back, sent without waiting for answers; 2 ingesting connections, 1 saver, 1 lost connection (37,076) | `EveryDeliveryAccepted` |
| `store_retract` | a rollback of a block whose own delivery is in progress | `BlockKeepsItsRows` is violated |
| `activation` | 3 connections, 3 versions, one of them signed twice; 1 lost connection (1,293,660 up to symmetry) | `OnlyRepeatsDeadlock`, `ImplementsMemoryStore` |
| `activation_reuse` | 2 connections, 2 versions | `AnsweredIsStored` is violated |
| `backfill_prefetch` | 1 run, two requests at a time | `CompleteMeansAll` is violated |
| `limits_keys` | a free wallet, 2 creations at a time | `KeysWithinLimit` is violated |
| `intents_retry` | 1 intent, 2 handlers | `TxidKept` is violated |
| `portfolio_debt` | portfolios of two positions of six shapes | `DebtWithheld` is violated |
| `projection_mint` | blocks of two transactions, with a deposit that does not print its recipient | `CompactionLosesNothing` is violated |
| `services` | twelve parts, one per behaviour (below; 456,946) | 17 invariants, 5 action properties |
| `progress` | five parts that must make progress, one per behaviour (below; 187,066) | 3 invariants, 6 action or temporal properties |

The services of `services` and `progress` share no variable, so an interleaving of two of them says no more than each
alone. Each run therefore picks one part in its initial state and leaves the variables of the others at
an initial value: its states are those of the parts added up, never multiplied. A part whose initial state is one of several
rests at one of them (`AtRest`). Where properties assume fairness, the parts that rest have no fair step enabled, so
fairness of theirs cannot constrain the behaviour of another; the backfill, which could step from its initial state, is
fair in its own behaviours only (`BackfillFairness`).

| Part of `services` | Instance | Properties |
|---|---|---|
| intents | 1 intent, 1 transaction, 2 handlers, a lifetime of 1 in a clock of 2, heights 0 and 1, no drift, 1 fault | `RecordedWasValidated`, `LapsedStaysLapsed` |
| auth | 2 wallets, 1 challenge, 2 sessions, 2 verifications and 1 request at a time, lives of 1 in a clock of 2, 1 lost handler | `OneSessionPerChallenge`, `EndedIsRefused` |
| rate | 3 clients, a table of 2, 2 requests in a window of 2, a clock of 4 | `ForgottenOnlyWhenCrowded` |
| admin | 1 address, 2 logins at a time, 2 tokens, 2 attempts per window of 2 | `LockoutJustified` |
| assets | 2 manifests, 2 requests, a life of 1 in a clock of 2 | `MixedOnlyByRace` |
| memory | the blocks of `store`, 7 batches that extend, reorganise, return, fill gaps, repeat a key and carry two blocks of one height | `MemFollowsLedger` |
| alerts | both product stores, 1 rule, 1 risk of 3 severities, 2 evaluations at a time | `AnsweredIsRaised`, `OccurrencesKept` |
| reprojection | 2 blocks, 2 projections | `RevivedOnlyByRace` |
| web | 2 addresses, 3 inspections | `LatestIsShown` |
| admission | 2 contracts with 3 states on chain, 4 submissions (two contracts, a release that comes into force later, an untrusted signer, an empty one), 1 request, a clock of 3 | `AdmittedIsCurrent` |
| limits | 2 plans, 3 keys, 2 rules, 2 creations and 2 requests at a time, 2 months, limits and quotas of 1 and 2, 1 lost handler | `OvershootBounded`, `EveryRequestMetered` |
| decisions | the questions of `MCDecisions` | `ValuesSound`, `HistorySound`, `RiskSound`, `YieldsSound`, `ReadsSound`, `ProjectionSound`, `LifecycleSound` |

| Part of `progress` | Instance | Properties |
|---|---|---|
| backfill | 2 runs beside other contracts, 2 events and 1 arrival, pages of 2, windows of 2, 2 pages per pass, a ceiling of 3, 1 fault, one request at a time, a second provider up to 1 event behind | `CompleteMeansRead`, `ResumeSkipsOnlyDropped`, `BackfillEnds` |
| positions | 1 address, 2 requests, 1 discovery at a time, 2 adapters, 2 blocks of two heights (the provider begins at the first: heights are compared for equality only), 2 moves of the chains, lives of 2 of a cached position and of 1 of a pin in a clock of 2, 1 fault | `CachesFresh`, `EveryRequestEnds` |
| gate | 4 reads, 2 slots, 1 retry, 2 callers that pin the tip | `NoOvertaking`, `ReadsEnd` |
| yields | 2 requests, a catalogue's life of 2, evidence's of 2, a clock of 3 | `CachesFresh` |
| sdk | 1 call, 2 retries | `AbortStopsSending`, `CallEnds` |

`limits` runs under a constraint: key ids are drawn in one order (`DrawnInOrder`), since they are alike, and a behaviour either
overlaps creations, of keys or of rules, or meters what one handler created (`OneConcern`), in at most three
requests in all, enough to pass a quota of one and of two: creations and the meter touch the same rows in no statement
but the INSERT of a key, and the meter's part includes creation, revocation and the change of plan by one handler.

Why the bounds are enough to be interesting:

- *Store.* Two blocks of one height are what the unique index and the rival
  query are about; a child makes batches of two blocks, which lock rows in opposite
  orders and deadlock; a third connection of a kind would only wait for the same
  rows. Every branch of `ingest` is taken, including both index outcomes, the deadlock and the
  reused key. One lost connection suffices, since a rolled back transaction leaves
  the state as it found it. Connections are interchangeable, hence the symmetry; the liveness
  run uses none.
- *Activation.* Three connections can form any wait the locks allow (two
  rows, one index); a version signed twice is the only way content can differ.
- *Backfill.* A window of two pages has a boundary inside it, a pass of two pages is
  cut by the page limit and by the window, two events and an arrival make the
  last page full, short or empty. The ceiling counts ingested events, of which there are at most three. Both runs can be in any state with respect to each other.
- *Limits.* One unit of overshoot per handler shows with two handlers.
- *Intents, sessions, logins.* Rows of different keys share nothing, so one with two handlers covers each
  pair of requests; lifetimes of one tick leave room for what was checked before, and is done after, they end.
- *Caches.* Two requests and one flight are every relation a request can have to a flight: it starts it, joins it, comes after it.
  A shorter life than the clock lets entries age and expire.
- *Gate.* Four reads on two slots leave two in the queue, which order needs; a retry keeps a slot while they wait.
- *Decisions.* Inputs lie around the places where an answer turns: prices at and beyond 150 basis points, ages at and
  beyond each limit, health factors of every breakpoint, small debts where truncation bites, every split of a small
  capital, every envelope of each event, every state Emily, Stacks and Bitcoin can be in with respect to each other.

`CHECK_DEADLOCK FALSE` appears where the system does come to rest: a contract that
is exhausted (backfill), a bounded supply of keys, months and requests (limits), a clock at its bound and a question that is answered
(`services`, `progress`, decisions). The store, the registry and the intents can always take another request, and
their own runs check deadlock.

Each property of a passing run has a mutant in `PROJECT.json`: a plausible bug, as an
operator marked "mutant" next to the one it replaces (a missing `FOR SHARE`, a checkpoint that
moves before its page is ingested, a cache whose expiry is not looked at, a gate that serves its newest waiter, a repeated
delivery answered with an error, ...), under which the run finds the property violated.

## Fairness

- *Store.* A released row is granted to a transaction that waits for it, so each connection's
  next statement is strongly fair; a deadlock is always broken; a sender repeats a delivery until
  it is answered, and so does not always meet the same obstacle: strong fairness per
  delivery. Nobody is obliged to take snapshots; one that was begun is finished.
  `EveryDeliveryAccepted` is checked for a follower alone. Add a backfill whose
  batches lock the same blocks in the opposite order, and TLC finds two transactions that are
  deadlock victims in turn for ever: the code retries without delay or
  limit, and only chance ends that. It is not stated as a property.
- *Backfill.* `BACKFILL_UNTIL_EXHAUSTED`, or an operator, repeats passes until the
  checkpoint is complete, and a process that runs goes on: weak fairness of each run's
  steps. Faults are bounded and carry no fairness. A run that read the checkpoint
  before it was completed sets it back to running, so completion is not stable
  and the property is `[]<>`, unless the storage ceiling stops every pass.
- *Position discovery, yield catalogue.* Every provider request has a timeout and every statement is answered
  or fails, so a flight that was begun takes its next step (`PosFairness`, `YieldFairness`). Nobody is obliged to ask, and the clock and
  the chain carry no fairness.
- *Gate.* A read that is let in is answered, refused or times out, and a pause between retries ends (`GateFairness`, weak, per
  read). Being let in is no action of its own: it is done by the read that leaves.
- *SDK.* Its timer fires: an attempt is answered or fails, a pause ends (`SdkFairness`). The API is not obliged to answer, and the caller not to
  abort.

The other modules have no liveness property: their handlers are short, and end or die.

## Disagreements found

1. `BlockKeepsItsRows` (`postgres-store.ts:92`). A rollback is six UPDATEs, each of
   which sees what is committed when it starts. A block that another delivery is still
   inserting is missed by the first and, once that delivery has committed, found by the
   rest: the block stays canonical and its rows are orphaned. It takes a
   sender that does not wait for the answer to the first delivery.
2. `AnsweredIsStored` (`registry-store.ts:87`). Two activations of one version with
   different content both pass the content check; the second takes the `ON CONFLICT`
   branch, which keeps the first one's content, and answers success.
3. `CompleteMeansAll` with concurrent requests (`backfill-registry-events.ts:400`). An event
   that arrives between the answers of two pages of a window moves another across their
   boundary; it is in neither page, and the checkpoint still ends complete. It needs no other contract, no
    fault and no second provider (`Neighbours = FALSE`, `Lags = {}`).
4. `KeysWithinLimit` (`commercial/src/index.ts:354`). Two overlapping creations both
   count before either stores its key. `OvershootBounded` says how far this can go.
5. `TxidKept` (`app.ts:2349`). A wallet request repeated after the submission was
   recorded resets the intent and erases its transaction.
6. `DebtWithheld` (`portfolio-engine/src/index.ts:173`). A loan whose collateral has a price and whose debt has none is
   left out of the check for completeness and not out of the sums, so its collateral counts in an exact total and its debt does not.
7. `CompactionLosesNothing` (`protocol-projection.ts:57`). Compaction drops the `ft_mint` in which the decoder
   would find the recipient of a deposit that does not print one.

Noticed while modelling, and not stated as a run:

- A repayment plan that is ready at 1.35 need not leave the loan at 1.35. The risk engine values legs cut to cents
  (`pricing/src/index.ts:72`), the planners compute the repaid part of such a value at 10^-8 of a dollar (`execution/src/index.ts:24`, `:107`), so what is
  left can be valued up to a cent higher than planned: a debt of 1000.009 dollars with an adjusted collateral of 1349.992 passes with a repayment of
  0.006 at 1.3500 and is found at 1.3499. The engine then recommends to repay an amount that is printed as 0. `PlanReachesTarget` states the bound.
- The two product stores differ: PostgreSQL keeps `openedAt` and `state` of an alert occurrence that is found again, `MemoryProductStore`
  (`workflows/src/index.ts:77`) replaces the whole row, so without a database an alert is as old as its last evaluation. Nothing in the code sets
  another state than `open` so far; what would, would be undone there.
- The backfill can complete without an event of the list for two more reasons than the third disagreement, and
  `docs/production.md:36` and `:59` read as if it could not. Events without a transaction are passed over
  (`synthesizeTransactions` at line 310, `filter(Boolean)` at 455), which happens when `trimCache` of a contract that finishes its
  fiftieth page empties the cache while another waits, and when a contract with full receipts meets a stub without events. And a
  page of a provider that is behind, after one of a provider that is not, begins below the end of the one before.
  `CompleteMeansRead` and `ResumeSkipsOnlyDropped` say what is left of the claim, `AloneCompleteMeansAll` proves all of it for a
  contract alone in its process with one provider and one request at a time.
- After the overview of an address has arrived (`App.tsx:213`), the history of the address inspected before is shown beside it until its own
  arrives or fails (216-224). `LatestIsShown` allows this as long as the fetch is under way and no longer.
- `docs/data-foundation.md:54` says that the snapshot operation persists only reads with provenance at the current canonical tip.
  `persistCanonicalSnapshot` (`app.ts:601`) keeps those at the height with most evidence, an older block's if strictly more positions were read at it
  than at any later one; the rest, the newest perhaps, is reported as skipped. `SnapshotIsOfOneBlock` states what the code keeps, not what the document says.
- A late block of the snapshot refresh (`app.ts:513`) is applied like a delivery and makes the stale block canonical until the newer one is delivered again; the
  store's properties hold through it, and none says which block the chain holds.
- A snapshot is stored under the canonical block of its height at the time it is saved, while its evidence names a height
  only: a reorganisation between the read (kept for up to 45 s) and the save files evidence of the orphaned block under the one that replaced
  it, which the history's `reorgInvalidatedSnapshotsExcluded: true` does not see. The registry version stored with it is the
  one active after the discovery.
- A delivery without an id of its own gets a key made from its content (`chainhook.ts:214`): when a reorganisation is repeated exactly (A to B, back to A,
  to B again), the second delivery is taken for a repetition of the first and answered as ingested.
- `docs/data-foundation.md:58` lets a disagreement be `evidence-conflict`; `reconcileSbtcOperation` answers `failed` when Emily
  says so although Stacks and Bitcoin have completed, and when an operation was rejected and accepted. Deposits are listed only once
  Stacks has their completed event, so their earlier states and the conflict of output indices cannot appear in
  the route; the recipient is never compared, although line 62 names it.
- A `non_fungible_token_asset` or `ft_asset` envelope without an `asset` keeps its raw type and is not recognised. Two mints of one amount beside
  a completed deposit make it fail even when it prints its recipient.
- A fixed quorum is kept for 120 s while enrichment wants quotes of at most 900 s: close to that age DIA's observation is accepted by the
  one and refused by the other for up to two minutes. Derived books have no flight that is shared.
- The catalogue's coverage loop names both `stackingdao` and `stacking-dao`. Bitflow bins beyond the sixteenth fall back to the amounts of the
  provider.

## Proofs

Eight modules hold theorems; `tlapm` checks all of them to the last leaf. The only
assumptions are the named ones on constants, and `InOrder` and `ChainFollowers` where stated.

### CanonicalStoreProofs

`Spec => []IInv` (`Inductive`), and from it `TypeOK`, `OneCanonicalPerHeight`, `SnapshotsCanonical`,
`RowsCanonical`, `AcknowledgedIsRecorded`, `InvalidationIsFinal`, for any chain, deliveries and
number of connections. The committed tables alone are not inductive: what a COMMIT leaves
depends on what it merges. `IInv` adds, per transaction, what its
uncommitted writes may be (`TransactionOK`): a block rolled back takes its rows and
snapshots along except between the statements of `rollbackBlock`; a
canonical row is written only under its block's lock; a block made canonical has no rival its
transaction can see; a shared block stays as it is. And, per pair, that they do not
meet (`Apart`): no common row, no two canonical blocks of one height, no write under the
other's `FOR SHARE`, no common event key. A commit then merges two consistent states.

`StoreImplementsLedger` is the refinement: every commit is one step of `CanonicalLedger`, which
takes a whole batch at once, and every other step is a stutter. It needs to know that a transaction, when
it commits, has written exactly its batch, which is the second invariant, `LedgerInv`
(`BatchesAreWhole`): what a connection has written is its batch up to the item in hand, neither less
(`BatchSoFar`: every block it has passed was rolled back or applied, with its rows and snapshots) nor more (`WritesBatch`), and
a delivery on record has its blocks in the table. Both assume `ChainFollowers`:

- `RollbacksFollow`: deliveries are answered before the next is sent, and one rolls back only what an answered one applied. Without it the
  refinement is false: the UPDATE of a block that is not there yet changes nothing, the block arrives later, and stays. That is
  the first disagreement (`store_retract`).
- `DigestsTell`: under one event key, one digest stands for one content.
- `OneBranch`: the blocks one delivery applies are of different heights. Segments of a chain are so, and the proof reads "what was displaced" off the
  batch; it is a convenience of the proof.

The deliveries of `store` satisfy all three, and TLC checked `LedgerInv` over its 98,814 states before it was proved.

### RegistryProofs and RegistryBackfillProofs

- `ActivationIsInductive`: at most one active version; superseded rows are locked
  by whoever superseded them; two undecided activations share no row and are not both past
  the INSERT. From it `OnlyRepeatsCanDeadlock` (who waits for the row of its version, among
  activations of other versions that all wait, waits for the one that superseded it, so that row is the active one and it holds nothing
  itself; what is left is a circle of waiters at the index, each holding the one active row, which one transaction holds) and `Implements`: a commit is one atomic activation of `RegistryMemory`, any other
  step a stutter.
- `AdmitIsInductive` and `ActivatesOnlyTheCurrent`, for any manifests, contracts and number of requests. What was
  found stays found (`heldSince` only grows, and holds all that is deployed), and as long as no error was noted, each read
  that is done found its part of the declaration true (`FoundSoFar`); a request that has called `activate` takes along that all of it was, and
  a time at which the dates held (`FoundAll`).
- The backfill: `CompleteIsExhaustive` and `ResumingIsSafe`, under
  `InOrder` (one request at a time, or windows of one page) and as long as no page was of a list that was behind (`skewed`), for any page size, depth, number of
  runs, events and faults; `TypeCorrect` without condition. Pages meet, because the list only
  grows at its head and the later page was answered later (`PagesMeet`); everything above the page
  in hand is ingested or passed over (`IngestedAbove`), and so is everything a run has behind it
  (`OffsetCovered`). Without `InOrder` it is false, as `backfill_prefetch` shows.
  `AloneCompleteMeansAll`: with one provider and no other contract in the process nothing is passed over, and complete means every event.

### AccessProofs

- `LimitsAreInductive`, from it `OvershootIsBounded` and `MeterIsExact`, for any
  numbers. A creation that has passed the count is counted with what is stored, which makes the
  bound inductive; a key without a row has no usage, which makes the meter so.
- `AuthIsInductive`, from it `ChallengeSpentOnce`, `EndedSessionRefused`, `SessionIsWithinChallenge`. A handler that has consumed a challenge and not yet
  stored its session is counted in with the sessions that came of it (`PutterOK`, `Given`): at most one of all these per challenge.
- `LockoutIsEarned`: who is refused has earned it. The window's counter is compared with a history the code does not keep: `AdminIInv` says
  that a count, stored or held by a login that is still hashing, is at most the number of failures that began from there
  within its window (`CountOK`), an inequality of cardinalities that lost updates preserve.

### WorkflowProofs

- `IntentsAreInductive`, from it `RecordingIsValidated` and `LapsingIsFinal`, for any number of
  intents and handlers: whom the wallet was asked about was validated (`IntentOK`), and a handler past
  its check concerns a validated intent (`HandlerOK`).
- `AnsweredRiskIsRaised` and `OccurrencesAreKept`, for either product store, any rules, findings and overlapping evaluations. The loop's invariant (`JobOK`) ranges
  over the rules the evaluation *read*, whatever has been added or paused since: those it is done with are covered for every finding of theirs, and the
  one it is at for those it has no row in hand for. Coverage is stable, because nobody removes an occurrence; that is the second theorem.
- The adapter's gate: `GateIsInductive` (active requests are the reads that hold a slot, never above the limit; nobody waits
  while a slot is free; the queue names each waiting read once; one lookup of the tip at a time) and `GateIsFair`. As no read waits
  beside a free slot, a release lets in exactly one.
- The client's call: `RetriesAreBounded` and `AbortedSendsNothing`; sends are bounded by attempts (`SdkIInv`), and only a GET has more than one.

### FreshnessProofs

- The three server caches, under requests that overlap: `AssetsAreOfTheirTime` (`AssetIInv`: manifests have a since and a last, and an entry names an interval its
  version was active in; assets of an older manifest are served only if the manifest changed during the scan), `PositionsAreFresh` (`PosIInv`: the pinned block
  was the provider's within a pin's life and a lookup's time, whence every block an envelope was read at, since before its discovery began; its tip was the store's since then) and `YieldsAreFresh`; `CachesStayFresh` is their conjunction.
- The page: `PageShowsTheLatest`, whatever order answers come in (`WebIInv`: the history under way is of the latest inspection only once that one's positions are shown). The reprojection script: `RewritingRevivesOnlyByRace` (`RepIInv`: rows it is about to write for a
  block off the chain were read before the block left).

### DataProofs

What the decision modules compute, for every input. Their definitions fold over sequences, and the library's induction theorems take an operator
as a parameter, which the installed provers cannot instantiate. Folds are reached another way: every non-empty set of naturals
has a least element (`LeastNatural`, from the library's fact that `<` is well-founded), which gives an induction over a *set* of naturals
(`NatSetInduction`); so the recursive function behind a fold exists (`FoldExists`) and the value of a `FoldLeft` is the last of a *run* of results, each one step after the one before
(`RunOfFold`). Of a run, an invariant or a bound is proved by the induction over positions.

- `MemoryFollowsLedger`: the in-memory store, over batches of any length, takes the ledger's steps.
- `RateIsInductive` and `ForgetsOnlyWhenCrowded`: a sweep keeps what is live, and an eviction takes place only in a table with more
  windows than its capacity, of which each belongs to another client.
- `FindingsAgree`, `PlansReachTarget` (facts about quotients: `Quotient`, `QuotientGrows`; what two cuts to cents can cost: `RoundingCostsACent`), for every `Cent`, and `RiskHolds` for the questions of the run.
- `LifecycleHolds`: of every world in which each event happens once and each record has a status (`WorldFits`), and `LifecycleHoldsAsked`.
- The reads of positions, each for everything a contract may answer: `MarketsAddUp` (sums of quotients, rounded up and down, compared with the quotient of the sum,
  one unit per holder: `SharesAddUp`), `ZestReadIsWhole`, `GraniteReadIsWhole`, `BitflowReadIsBacked` (if no owner's shares exceed the bin's), `WalletReadIsVerified` (if no token calls itself STX); `ReadsHold` for the questions
  of the run.
- `RowsSurviveDelivery`: of every block whose events are prints or tokens' events, under every manifest in which a role goes with its protocol. `JoinedHolds` and `KeepingKeeps` say what
  a fold of concatenations contains; then a row's event is relevant (`RowsAreRelevant`) and decodes to the same row without the mints compaction drops (`MintsOnlyConfirm`). `ProjectionHolds` for the questions of the run.

- `QuorumHolds`, `TowerHolds`, `SummariesAddUp`: prices and values. A finite set has induction too (`SubsetInduction`), which gives sums over it (`SumStep`) and its first element in any
  order (`FirstOfFinite`), so the cluster the code sorts to the front exists (`SelectedIsPreferred`). The median lies between two members because ranks are a bijection
  (`RankExists`); whoever agrees with all the selected would make a larger cluster (`LeftOutDisagrees`). Of the books, `BookFits` is kept by one after the other. Assumed of the inputs: an answer
  is of its source and has natural price and age, the four markets are asked for, a leg's amount is natural. `ValuesHold` for the questions of the run.

### DecisionProofs

Decisions that rest on an order, and on sums over it. `Listing` builds a list in order from places: an element stands where the number of those
before it puts it. `PlacesAreTaken` shows that every place has exactly one (a bijection, by counting), `InOrderLists` that the list is the set, each
element once, in the order.

- `PlansAreOptimal`: the strategy engine, for any markets, capital, days and mode. Sums over a list are cut at a place, and by protocol (`SumsStep`).
  A plan takes all the caps leave (`TakesAll`); another spread within the caps is never ahead of it at any place, counted in all and by protocol
  (`GreedyIsAhead`, by induction over places), and whoever is ahead at every place of a list that falls in what it pays earns at least as much (`AheadEarnsMore`). Assumed:
  the value a market reports, and what an annual yield compounds to, are natural numbers.
- `CatalogHolds`: for anything the protocols and the feed answer (`SurveyFits`). A family of markets is described by what its members have in common (`MadeOf`,
  `SelfReported`); only Zest's own carry the word of somebody else, and only when one record of the feed agrees (`RecommendedRests`).
- `YieldsHold`, for the questions of the run.
- `SnapshotsAreOfOneBlock`: of every finite set of positions with ids of their own, each read at finitely many heights. The heights have a member
  most positions were read at (`MostEvidenceIsFound`), and the rows saved are those read at it (`RowsAreOfOneHeight`).
- `HistoriesAreSound`, `RoutesAreSound`: of rows, orphaned blocks, depth and cash flows. The heights of the rows that stand have ranks, counted from the newest (`DepthsAreTaken`: every rank has one
  height), so the newest blocks are those of a rank below the depth (`NewestBlocksAre`), as many as are asked for or all there are (`BlocksCount`). Of the
  rows of a position at a height exactly one was inserted last (`LatestIsOne`), and the in-memory store, which keeps a row until another replaces
  it, ends up with the same ones (`MemoryKeepsLatest`). Assumed of the rows (`RowsFit`, `OneBlockEach`): a block has one height, a height one block that stands, and two rows of a position are not
  inserted at once. Saves, whatever their positions, leave such rows (`SnapshotRowsFit`); that one block stands per height is what `OneCanonicalPerHeight` says of the store.
- `UsageCountsOnce`: of any log of requests in the order of their times. What is counted is a sum over the log (`CountedIs`), parts that share nothing
  add up to the whole (`PartsAddUp`), and routes and hours are such parts (`EndpointsAddUp`, `TimelineAddsUp`). Workflows share no request and have no failed one
  (`WorkflowsSucceed`); the two percentiles read places of the ascending durations that are equal or next to each other (`PlacesAreClose`, facts about quotients).
- `HistoryHolds`: the four, for the questions of the run.

### Only model-checked

Every invariant a passing run checks is stated by a theorem. What is left to TLC:

- `EveryDeliveryAccepted`, `BackfillEnds`, `EveryRequestEnds`, `ReadsEnd`, `CallEnds`: liveness under fairness, outside what the prover does.

Proving also corrected the models: alternatives of a CASE that overlapped became chains of conditions (the value of an overlapping CASE is
a free choice), and filters whose result a proof must take apart became folds.

## What is not modelled, and why

- *The checkpoint and source-health rows* that `ingest` also writes, and queries that only list: they decide nothing in the
  statements modelled. That a delivery which commits late overwrites the checkpoint of a newer one is visible in the code without a model.
- *Cryptography and validation*: digests, signatures, zod schemas. They decide whether an
  operation is attempted.
- *Decoding*: Clarity values, hex and decimal strings, dates, JSON of providers; `packages/domain`'s conversions, which the models use as
  integers already converted.
- *Keys derived from content*: the store modules take event keys as given; see the notes above.
- *Removal of listed events by a reorganisation* during a backfill: the model's list only grows.
- *Block reconciliation* (`reconciliation.ts`): a read-only comparison of stored and remote blocks that changes nothing.
- *The caches of the price books*, one map with a time per book, without shared flights.
- *User interfaces* beyond the sequence of inspections: pages, charts, wallet glue, the widget.
- *One-shot reports and audits* under `scripts/`, the address comparison, the fixture adapters, the DNS fallback of the HTTP client.
- *Networks*: one network everywhere; rows of different networks meet only in the primary key of registry versions.

## Plan

What a continuation would take up, in order:

1. `StoreImplementsLedger` without `OneBranch`.
2. Checkpoints and source health in `CanonicalStore`; block reconciliation against a store that reorganises.
3. Two networks in `RegistryActivation`.
4. A check of `ChainFollowers` against recorded Chainhook traffic.

## Running it

    tlc -workers 2 -config CanonicalStore.cfg MCCanonicalStore
    tlc -workers 2 -config Services.cfg MCServices
    tlc -workers 2 -config Progress.cfg MCProgress
    tlapm CanonicalStoreProofs.tla

`PROJECT.json` lists, for each run, its module, configuration and expected outcome. To follow one part of `services` alone, choose it in
`ServicesInit`.
