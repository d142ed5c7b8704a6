-------------------------- MODULE CanonicalStore --------------------------
(***************************************************************************)
(* The canonical event store of packages/data-foundation/src/              *)
(* postgres-store.ts: ingestion transactions (ingest, rollbackBlock,       *)
(* applyBlock) and snapshot transactions (savePositionSnapshots), one      *)
(* action per SQL statement, interleaved as PostgreSQL interleaves them at *)
(* its default READ COMMITTED level.                                       *)
(*                                                                         *)
(* A statement reads the committed rows overlaid with its transaction's    *)
(* own writes, a written row stays locked until the transaction ends, and  *)
(* the partial unique index one_canonical_block_per_height (migration 001) *)
(* makes a second canonical block of a height wait for the first one's     *)
(* transaction, then fail.  That much of PostgreSQL is external and is     *)
(* modelled from how the store relies on it.                               *)
(*                                                                         *)
(* Data that the properties do not tell apart is abstracted: the rows of   *)
(* chain_transactions, contract_events, protocol_projection_events and     *)
(* projection_issues that hang off a block are one flag, as are the        *)
(* position snapshots pinned to it; index_block_hash, event_key and        *)
(* payload_sha256 are model values.                                        *)
(***************************************************************************)
EXTENDS Naturals, Sequences

CONSTANTS
    Blocks,      \* index block hashes
    Height,      \* the height of each block
    Deliveries,  \* the payloads that are ever sent to ingest()
    Key,         \* eventKey of a delivery
    Sha,         \* payloadSha256 of a delivery
    Rollback,    \* batch.rollback of a delivery, a sequence of blocks
    Apply,       \* batch.apply of a delivery, a sequence of blocks
    Before,      \* the deliveries its sender sends before it
    Pipelined,   \* whether a sender goes on before an answer has come back
    Ingesters,   \* connections running ingest()
    Savers,      \* connections running savePositionSnapshots()
    MaxFaults,   \* bound: connections lost in the middle of a transaction
    NoBlock, NoDelivery, NoSha, Untouched

Procs == Ingesters \cup Savers
Keys == {Key[d] : d \in Deliveries}
Shas == {Sha[d] : d \in Deliveries}
Tables == {"blocks", "rows", "snapshots"}
(* A row does not exist, counts (canonical, a snapshot not invalidated), or *)
(* was rolled back (not canonical, a snapshot with an invalidated_at).      *)
Flags == {"absent", "canonical", "orphaned"}
Phases == {"idle", "next", "header", "rows", "snapshots", "upsert", "derive",
           "commit", "insert"}

ASSUME ConstantsAssumption ==
    /\ Height \in [Blocks -> Nat]
    /\ Rollback \in [Deliveries -> Seq(Blocks)]
    /\ Apply \in [Deliveries -> Seq(Blocks)]
    /\ Before \in [Deliveries -> SUBSET Deliveries]
    /\ Pipelined \in BOOLEAN
    /\ MaxFaults \in Nat
    /\ Ingesters \cap Savers = {}
    /\ NoBlock \notin Blocks
    /\ NoDelivery \notin Deliveries
    /\ NoSha \notin Shas
    /\ Untouched \notin Flags

VARIABLES
    db,       \* db[t][b]: the committed flag of block b's row(s) in table t
    raw,      \* raw[k]: the committed payload digest under event key k
    mine,     \* mine[p][t][b]: p's uncommitted write to that row, which it locks
    shared,   \* shared[p]: the block row p holds FOR SHARE
    phase,    \* phase[p]: the statement p's transaction executes next
    job,      \* job[p]: the delivery p ingests; its raw row is p's until commit
    item,     \* item[p]: position of p in the delivery's rollbacks then applies
    victims,  \* victims[p]: blocks the current item has still to roll back
    target,   \* target[p]: the block being rolled back, or snapshotted
    sent,     \* deliveries sent at least once
    acked,    \* deliveries answered with success
    faults    \* transactions lost to a broken connection so far

tables == <<db, raw>>
txs == <<mine, shared, phase, job, item, victims, target>>
env == <<sent, acked, faults>>
vars == <<db, raw, mine, shared, phase, job, item, victims, target,
          sent, acked, faults>>

Clean == [t \in Tables |-> [b \in Blocks |-> Untouched]]

Init ==
    /\ db = [t \in Tables |-> [b \in Blocks |-> "absent"]]
    /\ raw = [k \in Keys |-> NoSha]
    /\ mine = [p \in Procs |-> Clean]
    /\ shared = [p \in Procs |-> NoBlock]
    /\ phase = [p \in Procs |-> "idle"]
    /\ job = [p \in Procs |-> NoDelivery]
    /\ item = [p \in Procs |-> 0]
    /\ victims = [p \in Procs |-> {}]
    /\ target = [p \in Procs |-> NoBlock]
    /\ sent = {} /\ acked = {} /\ faults = 0

-----------------------------------------------------------------------------
(* Rows, locks and waiting.                                                 *)

View(p, t, b) == IF mine[p][t][b] = Untouched THEN db[t][b] ELSE mine[p][t][b]

SameHeight(b) == {c \in Blocks \ {b} : Height[c] = Height[b]}

Writers(p, t, b) == {q \in Procs \ {p} : mine[q][t][b] # Untouched}

UnsharedRead(p, b) == {}    \* mutant: SELECT without FOR SHARE

Sharers(p, b) == {q \in Procs \ {p} : shared[q] = b}

(* The transactions p waits for before it may write the row of b in t.      *)
RowHolders(p, t, b) ==
    Writers(p, t, b) \cup (IF t = "blocks" THEN Sharers(p, b) ELSE {})

(* The transactions whose undecided rows the unique index must wait for     *)
(* before b may become the canonical block of its height.                   *)
IndexHolders(p, b) ==
    UNION {{q \in Writers(p, "blocks", c) :
              "canonical" \in {mine[q]["blocks"][c], db["blocks"][c]}}
           : c \in SameHeight(b)}

(* UPDATE ... WHERE index_block_hash = b: a row p cannot see is not updated *)
(* and not waited for; a snapshot only qualifies while it is still valid.   *)
Qualifies(p, t, b) ==
    View(p, t, b) \in IF t = "snapshots" THEN {"canonical"}
                                         ELSE {"canonical", "orphaned"}

Write(p, t, b, flag) == mine' = [mine EXCEPT ![p][t][b] = flag]

(* One UPDATE ... SET canonical = false (or invalidated_at = now()).        *)
UpdateToOrphaned(p, t, b) ==
    \/ /\ Qualifies(p, t, b)
       /\ RowHolders(p, t, b) = {}
       /\ Write(p, t, b, "orphaned")
    \/ /\ ~Qualifies(p, t, b)
       /\ UNCHANGED mine

-----------------------------------------------------------------------------
(* ingest(): the delivery record, then each rollback, then each apply.      *)

Go(p, from, to) == phase[p] = from /\ phase' = [phase EXCEPT ![p] = to]

Rollbacks(p) == Rollback[job[p]]
Applies(p) == Apply[job[p]]
IsRollback(p) == item[p] <= Len(Rollbacks(p))
Applied(p) == Applies(p)[item[p] - Len(Rollbacks(p))]
Finished(p) == item[p] > Len(Rollbacks(p)) + Len(Applies(p))

(* The sender posts a delivery: for the first time once its predecessors    *)
(* were sent (or, unless Pipelined, answered), and again at any time, since *)
(* it cannot know whether an attempt without an answer has arrived.         *)
Send(d) ==
    /\ Before[d] \subseteq IF Pipelined THEN sent ELSE acked
    /\ sent' = sent \cup {d}

(* Mutant: a SELECT looks for the event key, the INSERT comes with COMMIT.  *)
SelectThenClaim(p, d) ==
    /\ Send(d) /\ raw[Key[d]] = NoSha
    /\ Go(p, "idle", "next")
    /\ job' = [job EXCEPT ![p] = d] /\ item' = [item EXCEPT ![p] = 1]
    /\ UNCHANGED <<tables, mine, shared, victims, target, acked, faults>>

(* INSERT INTO raw_chain_events ... ON CONFLICT DO NOTHING inserts the row. *)
ClaimDelivery(p, d) ==
    /\ Send(d)
    /\ raw[Key[d]] = NoSha
    /\ \A q \in Ingesters : job[q] # NoDelivery => Key[job[q]] # Key[d]
    /\ Go(p, "idle", "next")
    /\ job' = [job EXCEPT ![p] = d]
    /\ item' = [item EXCEPT ![p] = 1]
    /\ UNCHANGED <<tables, mine, shared, victims, target, acked, faults>>

(* Mutant: the content digest is not compared.                              *)
AcknowledgeAnyContent(p, d) ==
    /\ Send(d) /\ phase[p] = "idle" /\ raw[Key[d]] # NoSha
    /\ acked' = acked \cup {d}
    /\ UNCHANGED <<tables, txs, faults>>

(* Mutant: a repeated delivery is an error, whatever its content.           *)
RejectDuplicate(p, d) ==
    /\ Send(d) /\ phase[p] = "idle" /\ raw[Key[d]] = Sha[d]
    /\ UNCHANGED <<tables, txs, acked, faults>>

(* The row exists with this content: answered as a duplicate, no effect.    *)
AcknowledgeDuplicate(p, d) ==
    /\ Send(d)
    /\ phase[p] = "idle"
    /\ raw[Key[d]] = Sha[d]
    /\ acked' = acked \cup {d}
    /\ UNCHANGED <<tables, txs, faults>>

(* The row exists with other content: the delivery id was reused.           *)
RejectReusedKey(p, d) ==
    /\ Send(d)
    /\ phase[p] = "idle"
    /\ raw[Key[d]] \notin {NoSha, Sha[d]}
    /\ UNCHANGED <<tables, txs, acked, faults>>

(* The next block of the batch.  For an apply block this is the SELECT of   *)
(* the competing canonical blocks of its height.                            *)
NextItem(p) ==
    /\ phase[p] = "next" /\ ~Finished(p)
    /\ IF IsRollback(p)
       THEN /\ Go(p, "next", "header")
            /\ victims' = [victims EXCEPT ![p] = {Rollbacks(p)[item[p]]}]
       ELSE LET rivals == {c \in SameHeight(Applied(p)) :
                             View(p, "blocks", c) = "canonical"}
            IN /\ Go(p, "next", IF rivals = {} THEN "upsert" ELSE "header")
               /\ victims' = [victims EXCEPT ![p] = rivals]
    /\ UNCHANGED <<tables, mine, shared, job, item, target, env>>

(* rollbackBlock, first statement: UPDATE chain_blocks.                     *)
RollbackHeader(p) ==
    /\ Go(p, "header", "rows")
    /\ \E b \in victims[p] :
         /\ UpdateToOrphaned(p, "blocks", b)
         /\ target' = [target EXCEPT ![p] = b]
         /\ victims' = [victims EXCEPT ![p] = @ \ {b}]
    /\ UNCHANGED <<tables, shared, job, item, env>>

(* Mutant: rollbackBlock forgets the derived rows.                          *)
RollbackNoRows(p) ==
    /\ Go(p, "rows", "snapshots")
    /\ UNCHANGED <<tables, mine, shared, job, item, victims, target, env>>

(* rollbackBlock, the four UPDATEs of the rows derived from the block.      *)
RollbackRows(p) ==
    /\ Go(p, "rows", "snapshots")
    /\ UpdateToOrphaned(p, "rows", target[p])
    /\ UNCHANGED <<tables, shared, job, item, victims, target, env>>

(* rollbackBlock, last statement: invalidates the block's snapshots.        *)
RollbackSnapshots(p) ==
    /\ Go(p, "snapshots", IF victims[p] # {} THEN "header"
                          ELSE IF IsRollback(p) THEN "next" ELSE "upsert")
    /\ UpdateToOrphaned(p, "snapshots", target[p])
    /\ item' = [item EXCEPT ![p] =
                  IF victims[p] = {} /\ IsRollback(p) THEN @ + 1 ELSE @]
    /\ target' = [target EXCEPT ![p] = NoBlock]
    /\ UNCHANGED <<tables, shared, job, victims, env>>

UpsertHolders(p) ==
    RowHolders(p, "blocks", Applied(p)) \cup IndexHolders(p, Applied(p))

NeverRivalled(p) == FALSE    \* mutant: no unique index

Rivalled(p) ==
    \E c \in SameHeight(Applied(p)) : View(p, "blocks", c) = "canonical"

(* applyBlock: INSERT INTO chain_blocks ... ON CONFLICT ... canonical = true *)
UpsertBlock(p) ==
    /\ Go(p, "upsert", "derive")
    /\ UpsertHolders(p) = {}
    /\ ~Rivalled(p)
    /\ Write(p, "blocks", Applied(p), "canonical")
    /\ UNCHANGED <<tables, shared, job, item, victims, target, env>>

(* applyBlock: upserts of the transactions, events, projections and issues. *)
DeriveRows(p) ==
    /\ Go(p, "derive", "next")
    /\ RowHolders(p, "rows", Applied(p)) = {}
    /\ Write(p, "rows", Applied(p), "canonical")
    /\ item' = [item EXCEPT ![p] = @ + 1]
    /\ UNCHANGED <<tables, shared, job, victims, target, env>>

(* The end of a transaction, by COMMIT or by ROLLBACK.                      *)
Release(p) ==
    /\ phase' = [phase EXCEPT ![p] = "idle"]
    /\ mine' = [mine EXCEPT ![p] = Clean]
    /\ shared' = [shared EXCEPT ![p] = NoBlock]
    /\ job' = [job EXCEPT ![p] = NoDelivery]
    /\ item' = [item EXCEPT ![p] = 0]
    /\ victims' = [victims EXCEPT ![p] = {}]
    /\ target' = [target EXCEPT ![p] = NoBlock]

Merge(p) == db' = [t \in Tables |-> [b \in Blocks |-> View(p, t, b)]]

(* All items done: the checkpoint, the processed status and source health   *)
(* are written, the transaction commits.  The answer may still be lost.     *)
CommitDelivery(p) ==
    /\ phase[p] = "next" /\ Finished(p)
    /\ Merge(p)
    /\ raw' = [raw EXCEPT ![Key[job[p]]] = Sha[job[p]]]
    /\ acked' \in {acked, acked \cup {job[p]}}
    /\ Release(p)
    /\ UNCHANGED <<sent, faults>>

-----------------------------------------------------------------------------
(* savePositionSnapshots().                                                 *)

(* SELECT ... AND canonical FOR SHARE, for a block the caller read earlier. *)
(* When it is no longer canonical the call throws and nothing changes.      *)
LockSnapshotBlock(s, b) ==
    /\ Go(s, "idle", "insert")
    /\ db["blocks"][b] = "canonical"
    /\ Writers(s, "blocks", b) = {}
    /\ shared' = [shared EXCEPT ![s] = b]
    /\ target' = [target EXCEPT ![s] = b]
    /\ UNCHANGED <<tables, mine, job, item, victims, env>>

(* Mutant: ON CONFLICT DO UPDATE SET invalidated_at = NULL.                 *)
InsertRevalidating(s) ==
    /\ Go(s, "insert", "commit")
    /\ Writers(s, "snapshots", target[s]) = {}
    /\ Write(s, "snapshots", target[s], "canonical")
    /\ UNCHANGED <<tables, shared, job, item, victims, target, env>>

(* INSERT INTO position_snapshots ... ON CONFLICT (snapshot_id) DO NOTHING. *)
InsertSnapshot(s) ==
    /\ Go(s, "insert", "commit")
    /\ Writers(s, "snapshots", target[s]) = {}
    /\ IF db["snapshots"][target[s]] = "absent"
       THEN Write(s, "snapshots", target[s], "canonical")
       ELSE UNCHANGED mine
    /\ UNCHANGED <<tables, shared, job, item, victims, target, env>>

CommitSnapshots(s) ==
    /\ phase[s] = "commit"
    /\ Merge(s)
    /\ Release(s)
    /\ UNCHANGED <<raw, env>>

-----------------------------------------------------------------------------
(* Transactions that end without a commit.                                  *)

(* The unique index refuses the block: ingest() throws, the API answers 400. *)
UniqueViolation(p) ==
    /\ phase[p] = "upsert"
    /\ UpsertHolders(p) = {}
    /\ Rivalled(p)
    /\ Release(p)
    /\ UNCHANGED <<tables, env>>

(* The transactions p's next statement has to wait for.                     *)
Holders(p) ==
    CASE phase[p] = "header" ->
           UNION {IF Qualifies(p, "blocks", b) THEN RowHolders(p, "blocks", b)
                                               ELSE {} : b \in victims[p]}
      [] phase[p] \in {"rows", "snapshots"} ->
           IF Qualifies(p, phase[p], target[p])
           THEN RowHolders(p, phase[p], target[p]) ELSE {}
      [] phase[p] = "upsert" -> UpsertHolders(p)
      [] phase[p] = "derive" -> RowHolders(p, "rows", Applied(p))
      [] phase[p] = "insert" -> Writers(p, "snapshots", target[p])
      [] OTHER -> {}

(* PostgreSQL's deadlock detector aborts a member of a cycle of waiting.    *)
DeadlockVictim(p) ==
    /\ \E S \in SUBSET Procs :
         /\ p \in S
         /\ \A q \in S : /\ Holders(q) \cap S # {}
                         /\ \E r \in S : q \in Holders(r)
    /\ Release(p)
    /\ UNCHANGED <<tables, env>>

(* The process or its connection dies; PostgreSQL rolls the work back.      *)
Fault(p) ==
    /\ phase[p] # "idle"
    /\ faults < MaxFaults
    /\ faults' = faults + 1
    /\ Release(p)
    /\ UNCHANGED <<tables, sent, acked>>

-----------------------------------------------------------------------------
Statement(p) ==
    \/ NextItem(p) \/ RollbackHeader(p) \/ RollbackRows(p)
    \/ RollbackSnapshots(p) \/ UpsertBlock(p) \/ DeriveRows(p)
    \/ CommitDelivery(p) \/ UniqueViolation(p)

SaverStatement(s) == InsertSnapshot(s) \/ CommitSnapshots(s)

Next ==
    \/ \E p \in Ingesters, d \in Deliveries :
         ClaimDelivery(p, d) \/ AcknowledgeDuplicate(p, d) \/ RejectReusedKey(p, d)
    \/ \E p \in Ingesters : Statement(p)
    \/ \E s \in Savers, b \in Blocks : LockSnapshotBlock(s, b)
    \/ \E s \in Savers : SaverStatement(s)
    \/ \E p \in Procs : DeadlockVictim(p) \/ Fault(p)

Spec == Init /\ [][Next]_vars

(* PostgreSQL grants a released row to a transaction that waits for it, and *)
(* breaks every deadlock; a sender repeats a delivery until it is answered. *)
(* Nothing obliges anyone to take snapshots, or to fail.                    *)
Fairness ==
    /\ \A d \in Deliveries :
         /\ SF_vars(\E p \in Ingesters : ClaimDelivery(p, d))
         /\ SF_vars(\E p \in Ingesters : AcknowledgeDuplicate(p, d))
    /\ \A p \in Ingesters : SF_vars(Statement(p))
    /\ \A s \in Savers : WF_vars(SaverStatement(s))
    /\ \A p \in Procs : WF_vars(DeadlockVictim(p))

FairSpec == Spec /\ Fairness

-----------------------------------------------------------------------------
(* Properties of the committed tables.                                      *)

Committed(t) == {b \in Blocks : db[t][b] = "canonical"}

(* The variables hold what the code and PostgreSQL can hold.                *)
TypeOK ==
    /\ db \in [Tables -> [Blocks -> Flags]]
    /\ raw \in [Keys -> Shas \cup {NoSha}]
    /\ mine \in [Procs -> [Tables -> [Blocks -> Flags \cup {Untouched}]]]
    /\ shared \in [Procs -> Blocks \cup {NoBlock}]
    /\ phase \in [Procs -> Phases]
    /\ job \in [Procs -> Deliveries \cup {NoDelivery}]
    /\ item \in [Procs -> Nat]
    /\ victims \in [Procs -> SUBSET Blocks]
    /\ target \in [Procs -> Blocks \cup {NoBlock}]
    /\ sent \subseteq Deliveries
    /\ acked \subseteq Deliveries
    /\ faults \in 0..MaxFaults

(* However ingestions of competing forks interleave, readers never find two *)
(* canonical blocks at one height (canonicalBlock, canonicalTip).           *)
OneCanonicalPerHeight ==
    \A b, c \in Committed("blocks") : Height[b] = Height[c] => b = c

(* A position snapshot that readers still serve is pinned to a canonical    *)
(* block: neither a reorg that commits while the snapshot is being saved,   *)
(* nor one that commits later, leaves a valid snapshot of an orphaned fork. *)
SnapshotsCanonical == Committed("snapshots") \subseteq Committed("blocks")

(* No transaction, event or projection row of an orphaned block is served   *)
(* as canonical, whatever fails or overlaps in the middle of a batch.       *)
RowsCanonical == Committed("rows") \subseteq Committed("blocks")

(* A success answer means that this very content is on record under its     *)
(* event key: a retry, a crash after commit or a reused delivery id never   *)
(* makes the sender believe that a payload was ingested when it was not.    *)
AcknowledgedIsRecorded == \A d \in acked : raw[Key[d]] = Sha[d]

(* A snapshot invalidated by a reorg never becomes valid again, even when   *)
(* its block does and the same snapshot is saved again.                     *)
InvalidationIsFinal ==
    [][\A b \in Blocks : db["snapshots"][b] = "orphaned"
                           => db'["snapshots"][b] = "orphaned"]_db

(* A sender that keeps repeating its deliveries gets all of them accepted:  *)
(* lock waits, deadlocks, index violations and a bounded number of lost     *)
(* connections delay an ingestion, they never starve it.                    *)
EveryDeliveryAccepted == \A d \in Deliveries : <>(d \in acked)

-----------------------------------------------------------------------------
(* The inductive invariant: what holds of the uncommitted writes so that    *)
(* every commit leaves the committed tables as they should be.              *)

(* Rows are written inside a transaction only, and never deleted.           *)
WritesInside(p) ==
    \A t \in Tables, b \in Blocks :
      /\ mine[p][t][b] # "absent"
      /\ phase[p] = "idle" => mine[p][t][b] = Untouched

(* A block that p has locked FOR SHARE is canonical and stays so.           *)
SharedStays(p) ==
    /\ phase[p] = "insert" => shared[p] = target[p] /\ shared[p] # NoBlock
    /\ shared[p] # NoBlock =>
         /\ phase[p] \in {"insert", "commit"}
         /\ db["blocks"][shared[p]] = "canonical"
         /\ mine[p]["blocks"][shared[p]] = Untouched

(* Canonical rows and valid snapshots are only written under the lock of    *)
(* their block, a snapshot only where there was none.                       *)
WrittenUnderLock(p) ==
    /\ \A b \in Blocks :
         /\ mine[p]["snapshots"][b] = "canonical" =>
              shared[p] = b /\ db["snapshots"][b] = "absent"
         /\ mine[p]["rows"][b] = "canonical" => mine[p]["blocks"][b] # Untouched
    /\ phase[p] = "derive" => mine[p]["blocks"][Applied(p)] = "canonical"

(* A block being rolled back takes its rows and snapshots along, except     *)
(* between the statements of rollbackBlock itself.                          *)
OrphanSettled(p) ==
    \A b \in Blocks : mine[p]["blocks"][b] = "orphaned" =>
      /\ \/ View(p, "rows", b) # "canonical"
         \/ target[p] = b /\ phase[p] = "rows"
      /\ \/ View(p, "snapshots", b) # "canonical"
         \/ target[p] = b /\ phase[p] \in {"rows", "snapshots"}

(* A block that p makes canonical has no rival that p sees.                 *)
NoRival(p) ==
    \A b \in Blocks : mine[p]["blocks"][b] = "canonical" =>
      \A c \in SameHeight(b) : View(p, "blocks", c) # "canonical"

(* The event key of the delivery p ingests is not on record yet.            *)
Claimed(p) ==
    job[p] # NoDelivery => p \in Ingesters /\ raw[Key[job[p]]] = NoSha

(* A statement of ingest() works on an item of the batch it belongs to.     *)
WorkInRange(p) ==
    /\ phase[p] \in Phases \ {"idle", "insert", "commit"} =>
         job[p] \in Deliveries /\ item[p] >= 1
    /\ phase[p] \in {"header", "rows", "snapshots"} => ~Finished(p)
    /\ phase[p] \in {"upsert", "derive"} => ~Finished(p) /\ ~IsRollback(p)

(* Two transactions write different rows, make canonical no two blocks of   *)
(* one height, leave each other's FOR SHARE locks alone and ingest under    *)
(* different event keys.                                                    *)
Apart(p, q) ==
    /\ \A t \in Tables, b \in Blocks :
         mine[p][t][b] = Untouched \/ mine[q][t][b] = Untouched
    /\ \A b \in Blocks : \A c \in SameHeight(b) :
         mine[p]["blocks"][b] # "canonical" \/ mine[q]["blocks"][c] # "canonical"
    /\ shared[p] # NoBlock => mine[q]["blocks"][shared[p]] = Untouched
    /\ shared[q] # NoBlock => mine[p]["blocks"][shared[q]] = Untouched
    /\ job[p] # NoDelivery /\ job[q] # NoDelivery => Key[job[p]] # Key[job[q]]

TransactionOK(p) ==
    /\ WritesInside(p) /\ SharedStays(p) /\ WrittenUnderLock(p)
    /\ OrphanSettled(p) /\ NoRival(p) /\ Claimed(p) /\ WorkInRange(p)

TablesOK ==
    /\ OneCanonicalPerHeight /\ SnapshotsCanonical /\ RowsCanonical
    /\ AcknowledgedIsRecorded

(* What every interleaving of transactions preserves.                       *)
IInv ==
    /\ TypeOK /\ TablesOK
    /\ \A p \in Procs : TransactionOK(p)
    /\ \A p, q \in Procs : p # q => Apart(p, q)

-----------------------------------------------------------------------------
(* The committed tables, whatever statements are in flight, behave as the   *)
(* ledger of CanonicalLedger.                                               *)
Ledger == INSTANCE CanonicalLedger WITH
    canonical <- Committed("blocks"),
    rows <- Committed("rows"),
    valid <- Committed("snapshots"),
    snapped <- {b \in Blocks : db["snapshots"][b] # "absent"},
    seen <- {k \in Keys : raw[k] # NoSha}

(* Each delivery takes effect once, as a whole and at one instant, although *)
(* it runs as many statements and is retried, raced by its own repetitions  *)
(* and interleaved with snapshots.  (Where a delivery rolls back a block of *)
(* another that is still in progress, see BlockKeepsItsRows.)               *)
ImplementsLedger == Ledger!Spec

(* docs/data-foundation.md:12: a rollback marks a block and the rows that   *)
(* hang off it non-canonical together; so a canonical block still has its   *)
(* rows.                                                                    *)
BlockKeepsItsRows == Committed("blocks") \subseteq Committed("rows")
====
