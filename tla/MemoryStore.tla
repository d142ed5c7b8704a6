---------------------------- MODULE MemoryStore ----------------------------
(***************************************************************************)
(* The canonical event store of fixture deployments and tests:              *)
(* MemoryDataFoundationStore (packages/data-foundation/src/store.ts).  No   *)
(* method awaits, so each is one step; within ingest the blocks of a batch  *)
(* are worked off one after the other.  Rows that hang off a block are one  *)
(* flag, as in CanonicalStore, and network and address are left out.        *)
(***************************************************************************)
EXTENDS Naturals, Sequences, SequencesExt

CONSTANTS
    MemBlocks,      \* index block hashes
    MemHeight,      \* the height of each block
    MemDeliveries,  \* batches that are sent to ingest
    MemKey,         \* eventKey of a batch
    MemSha,         \* payloadSha256 of a batch
    MemRollback,    \* batch.rollback, a sequence of blocks
    MemApply        \* batch.apply, a sequence of blocks

ASSUME MemoryAssumption ==
    /\ IsFiniteSet(MemBlocks)
    /\ MemHeight \in [MemBlocks -> Nat]
    /\ MemRollback \in [MemDeliveries -> Seq(MemBlocks)]
    /\ MemApply \in [MemDeliveries -> Seq(MemBlocks)]

VARIABLES
    rawEvents,     \* rawEvents: the pairs of event key and digest
    stored,        \* stored.blocks[b], .rows[b], .snapshots[b]: the flags of b
    checkpoint     \* checkpointHeight, 0 for null

memVars == <<rawEvents, stored, checkpoint>>

MemAll(flag) == [b \in MemBlocks |-> flag]

MemInit ==
    /\ rawEvents = {}
    /\ stored = [blocks |-> MemAll("absent"), rows |-> MemAll("absent"),
                 snapshots |-> MemAll("absent")]
    /\ checkpoint = 0

-----------------------------------------------------------------------------
Orphan(flags, b) ==
    IF flags[b] = "canonical" THEN [flags EXCEPT ![b] = "orphaned"] ELSE flags

(* A block is taken off the chain with its rows and snapshots.              *)
OrphanBlock(s, b) ==
    [blocks |-> Orphan(s.blocks, b), rows |-> Orphan(s.rows, b),
     snapshots |-> Orphan(s.snapshots, b)]

(* The stored blocks at the height of b are, then b and its rows are set.   *)
Rivals(s, b) ==
    {c \in MemBlocks \ {b} : s.blocks[c] # "absent" /\ MemHeight[c] = MemHeight[b]}
ApplyBlock(s, b) ==
    LET bare == FoldLeft(OrphanBlock, s, SetToSeq(Rivals(s, b)))
    IN [bare EXCEPT !.blocks[b] = "canonical", !.rows[b] = "canonical"]

RollbackLast(d) ==    \* mutant: rollbacks come after the applied blocks
    FoldLeft(OrphanBlock, FoldLeft(ApplyBlock, stored, MemApply[d]), MemRollback[d])

AfterBatch(d) ==
    FoldLeft(ApplyBlock, FoldLeft(OrphanBlock, stored, MemRollback[d]), MemApply[d])

Highest(n, s) == FoldLeft(LAMBDA h, b : IF MemHeight[b] > h THEN MemHeight[b] ELSE h, n, s)

Known(d) == \E e \in rawEvents : e[1] = MemKey[d]

MemIngest(d) ==
    /\ ~Known(d)
    /\ rawEvents' = rawEvents \cup {<<MemKey[d], MemSha[d]>>}
    /\ stored' = AfterBatch(d)
    /\ checkpoint' = Highest(checkpoint, MemApply[d])

(* The key is known: a duplicate is answered as such, other content is an   *)
(* error; neither changes anything.                                         *)
MemDuplicate(d) == Known(d) /\ UNCHANGED memVars

(* savePositionSnapshots: the block must be canonical; a snapshot that is   *)
(* there already is replaced by a valid one.                                *)
MemSave(b) ==
    /\ stored.blocks[b] = "canonical"
    /\ stored' = [stored EXCEPT !.snapshots[b] = "canonical"]
    /\ UNCHANGED <<rawEvents, checkpoint>>

MemNext ==
    \/ \E d \in MemDeliveries : MemIngest(d) \/ MemDuplicate(d)
    \/ \E b \in MemBlocks : MemSave(b)

MemSpec == MemInit /\ [][MemNext]_memVars

-----------------------------------------------------------------------------
Marked(table) == {b \in MemBlocks : stored[table][b] = "canonical"}

MemLedger == INSTANCE CanonicalLedger WITH
    Blocks <- MemBlocks, Height <- MemHeight, Deliveries <- MemDeliveries,
    Key <- MemKey, Rollback <- MemRollback, Apply <- MemApply,
    canonical <- Marked("blocks"), rows <- Marked("rows"),
    valid <- Marked("snapshots"), snapped <- {},
    seen <- {e[1] : e \in rawEvents}

(* docs/data-foundation.md, "Write path": the memory store, which works     *)
(* through a batch block by block, does to its tables what the ledger of    *)
(* the PostgreSQL store does at once.  Only a snapshot saved again differs: *)
(* it is revived here when its block has returned to the chain, and stays   *)
(* invalid there.                                                           *)
MemFollowsLedger ==
    [][\/ UNCHANGED memVars
       \/ \E d \in MemDeliveries : MemLedger!Accept(d)
       \/ \E b \in Marked("blocks") :
            /\ Marked("snapshots")' = Marked("snapshots") \cup {b}
            /\ UNCHANGED <<rawEvents, stored.blocks, stored.rows>>]_memVars
===========================================================================
