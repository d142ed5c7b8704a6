------------------------- MODULE PortfolioHistory -------------------------
(***************************************************************************)
(* Snapshots of the positions of an address and the history shown of them: *)
(* persistCanonicalSnapshot and the history route of apps/api/src/app.ts,  *)
(* savePositionSnapshots and the reads of both stores in                   *)
(* packages/data-foundation/src.  A save is what one read of the portfolio *)
(* keeps: the positions it discovered (an id, the heights their evidence   *)
(* was read at, a reading that Valuation can sum up), the canonical block  *)
(* of each height, of those the store has and of those that only the       *)
(* provider gives with its transactions, the active manifest.  The rows of *)
(* a block that was orphaned later are invalidated.                        *)
(***************************************************************************)
EXTENDS Valuation, Listing, SequencesExt

CONSTANTS
    FreeObservations,    \* observations shown without a plan, 30
    MostObservations,    \* shown at most, 1000
    MostFlows            \* cash flows shown, 500

ASSUME HistoryAssumption ==
    /\ FreeObservations \in Nat \ {0} /\ MostObservations \in Nat
    /\ FreeObservations <= MostObservations /\ MostFlows \in Nat \ {0}

NotANumber == -1    \* no safe integer; a number below 1 counts as 1
NoManifestYet == "no manifest"
UpgradeRequired == [ok |-> FALSE]

-----------------------------------------------------------------------------
(* The block with the most evidence, of those the highest, and what was     *)
(* read at it: the other positions are skipped.                             *)
HeightsOf(positions) == UNION {p.heights : p \in positions}
ReadAt(positions, h) == {p \in positions : h \in p.heights}

MoreEvidence(positions, h, k) ==
    LET ofH == Cardinality(ReadAt(positions, h))
        ofK == Cardinality(ReadAt(positions, k))
    IN  ofH > ofK \/ (ofH = ofK /\ h >= k)

SnapshotHeight(positions) ==
    CHOOSE h \in HeightsOf(positions) :
       \A k \in HeightsOf(positions) : MoreEvidence(positions, h, k)

(* A block that the store lacks is fetched and ingested first; what cannot  *)
(* be fetched, or is not called canonical, fails the save.                  *)
HasBlock(s, h) == h \in DOMAIN s.chain \cup DOMAIN s.provider
SnapshotBlock(s, h) == IF h \in DOMAIN s.chain THEN s.chain[h] ELSE s.provider[h]

RowsAt(s, h) ==
    IF ~HasBlock(s, h) THEN {}
    ELSE {[block |-> SnapshotBlock(s, h), height |-> h, version |-> s.version, id |-> p.id,
           reading |-> p.reading] : p \in ReadAt(s.positions, h)}

RowsOf(s) ==
    IF s.version = NoManifestYet \/ HeightsOf(s.positions) = {} THEN {}
    ELSE RowsAt(s, SnapshotHeight(s.positions))

-----------------------------------------------------------------------------
(* PostgreSQL keeps a row under a digest of all it holds: what is saved     *)
(* again keeps its date.  Memory keeps one row per position, block and      *)
(* manifest, the last.                                                      *)
SnapshotRows(saves) ==
    LET rows == [i \in DOMAIN saves |-> RowsOf(saves[i])]
        SavedAt(r) == {i \in DOMAIN saves : r \in rows[i]}
    IN  {[block |-> r.block, height |-> r.height, version |-> r.version, id |-> r.id,
          reading |-> r.reading, first |-> Min(SavedAt(r)), last |-> Max(SavedAt(r))] :
           r \in UNION Range(rows)}

SamePosition(r, s) == r.block = s.block /\ r.id = s.id

MemoryRows(stored) ==
    {r \in stored :
       \A s \in stored \ {r} : SamePosition(r, s) /\ r.version = s.version => s.last < r.last}

Standing(rows, orphaned) == {r \in rows : r.block \notin orphaned}

(* positionSnapshotHistory: the newest blocks, not the newest rows, and of  *)
(* each position at a block the row that was inserted last.                 *)
NewestRows(rows, depth) ==    \* mutant: rows are counted, not blocks
    {r \in rows :
       Cardinality({s \in rows : s.height > r.height \/ (s.height = r.height /\ s.id < r.id)}) < depth}

NewestBlocks(rows, depth) ==
    {r \in rows : Cardinality({s.height : s \in {o \in rows : o.height > r.height}}) < depth}

PostgresHistory(stored, orphaned, depth) ==
    LET newest == NewestBlocks(Standing(stored, orphaned), depth)
    IN  {r \in newest : \A s \in newest : SamePosition(r, s) => s.first <= r.first}

MemoryHistory(stored, orphaned, depth) ==
    NewestBlocks(Standing(MemoryRows(stored), orphaned), depth)

(* currentPositionSnapshots: each position where it was seen last.          *)
CurrentPositions(stored, orphaned) ==
    LET standing == Standing(stored, orphaned)
        After(s, r) == s.height > r.height \/ (s.height = r.height /\ s.first > r.first)
    IN  {r \in standing : \A s \in standing : r.id = s.id => ~After(s, r)}

-----------------------------------------------------------------------------
(* The history route: one observation per block, oldest first, labelled     *)
(* with the manifest of its first row.                                      *)
Depth(requested) ==
    IF requested = NotANumber THEN FreeObservations
    ELSE Max({1, Min({MostObservations, requested})})

Observation(rows) ==
    LET first == CHOOSE r \in rows : \A s \in rows : r.id <= s.id
        sorted == InOrder(rows, {p \in Pairs(rows) : p[1].id < p[2].id})
        summary == Summary([i \in DOMAIN sorted |-> sorted[i].reading])
    IN  [block |-> first.block, height |-> first.height, version |-> first.version,
         net |-> summary.net, counted |-> Cardinality(summary.counted),
         complete |-> summary.complete]

Observations(rows) ==
    LET each == {Observation({r \in rows : r.block = b}) : b \in {r.block : r \in rows}}
    IN  InOrder(each, {p \in Pairs(each) : p[1].height < p[2].height})

Baseline(observations) ==
    CASE Len(observations) >= 2 -> "observations-available"
      [] Len(observations) = 1 -> "baseline-only"
      [] OTHER -> "no-baseline"

(* cashFlowEventsForAddress: the newest of the address's own events, oldest *)
(* first, with debt left out.                                               *)
CashFlowKinds == {"vault-deposit", "vault-redeem", "pool-mint", "pool-burn"}
Earlier(e, f) == e.height < f.height \/ (e.height = f.height /\ e.index < f.index)
OwnFlows(events, address) ==
    {e \in events : e.owner = address /\ e.kind \in CashFlowKinds
                    /\ e.protocol \in {"zest", "bitflow"}}
CashFlows(events, address) ==
    LET of == OwnFlows(events, address)
        own == InOrder(of, {p \in Pairs(of) : Earlier(p[1], p[2])})
    IN  SubSeq(own, Max({1, Len(own) - MostFlows + 1}), Len(own))

EarnedYield(flows) ==
    IF flows = <<>> THEN "cash-flow-history-required" ELSE "attribution-required"

(* The answer to a request q of what is stored: nothing is called earned.   *)
HistoryRoute(q) ==
    LET observations == Observations(PostgresHistory(q.stored, q.orphaned, Depth(q.requested)))
        flows == CashFlows(q.flows, q.address)
    IN  IF Depth(q.requested) > FreeObservations /\ ~q.extended THEN UpgradeRequired
        ELSE [ok |-> TRUE, observations |-> observations, cashFlows |-> flows,
              state |-> Baseline(observations), earned |-> EarnedYield(flows)]

-----------------------------------------------------------------------------
(* What was read before and is saved again is not newer for PostgreSQL, and *)
(* memory does not see that two manifests speak of one position.            *)
NothingRepeats(stored) ==
    \A r, s \in stored :
       SamePosition(r, s) => r.version = s.version /\ (r.first < s.first => r.last < s.first)

(* A snapshot is of one block: all that was read at a block no other block  *)
(* has more of, nor a later one as much.  docs/data-foundation.md:54 says   *)
(* that only reads at the current canonical tip are kept; the code keeps    *)
(* those at an older block where strictly more was read at it.  Evidence    *)
(* names a height, so that the block may be another than the one it was     *)
(* read at: that this cannot see.                                           *)
SnapshotIsOfOneBlock(s) ==
    LET At(h) == {p.id : p \in ReadAt(s.positions, h)}
    IN  RowsOf(s) # {} =>
          \E h \in HeightsOf(s.positions) :
             /\ {r.id : r \in RowsOf(s)} = At(h)
             /\ \A r \in RowsOf(s) : r.height = h
             /\ \A k \in HeightsOf(s.positions) :
                  /\ Cardinality(At(k)) <= Cardinality(At(h))
                  /\ k > h => Cardinality(At(k)) < Cardinality(At(h))

(* A history shows the latest blocks whose snapshots stand, each whole:     *)
(* every position that was saved of the block, once.                        *)
ShowsLatest(rows, standing, depth) ==
    \A blocks \in {{r.block : r \in rows}} :
       /\ rows \subseteq standing /\ Cardinality(blocks) <= depth
       /\ \A r \in standing :
            IF r.block \in blocks THEN Cardinality({o \in rows : SamePosition(o, r)}) = 1
            ELSE Cardinality(blocks) = depth /\ \A o \in rows : r.height < o.height

(* What was saved of a block orphaned later is shown neither there nor      *)
(* among the current positions, each of which is shown once; and the two    *)
(* stores tell the same history when nothing repeats itself.                *)
HistoryIsSound(q) ==
    LET standing == Standing(q.stored, q.orphaned)
        depth == Depth(q.requested)
        rows == PostgresHistory(q.stored, q.orphaned, depth)
        current == CurrentPositions(q.stored, q.orphaned)
    IN  /\ ShowsLatest(rows, standing, depth)
        /\ NothingRepeats(q.stored) => MemoryHistory(q.stored, q.orphaned, depth) = rows
        /\ current \subseteq standing
        /\ \A r \in standing : Cardinality({s \in current : s.id = r.id}) = 1

(* The route shows what a plan pays for, and leaves a cash flow out only    *)
(* for later ones.                                                          *)
RouteIsSound(q) ==
    \A route \in {HistoryRoute(q)} : route.ok =>
       /\ Len(route.observations) <= (IF q.extended THEN MostObservations ELSE FreeObservations)
       /\ \A e \in OwnFlows(q.flows, q.address) \ Range(route.cashFlows) :
            Len(route.cashFlows) = MostFlows /\ ~Earlier(route.cashFlows[1], e)
=============================================================================
