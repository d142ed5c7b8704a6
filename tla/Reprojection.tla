--------------------------- MODULE Reprojection ---------------------------
(***************************************************************************)
(* scripts/reproject-from-db.ts against the store it runs beside: the       *)
(* script lists the canonical blocks once and then, block by block, reads   *)
(* the events and upserts their projections as canonical, one statement     *)
(* each and outside a transaction, while PostgresCanonicalStore ingests     *)
(* (packages/data-foundation/src/postgres-store.ts), each delivery being    *)
(* one transaction.  Issues are written the way projections are.            *)
(***************************************************************************)
EXTENDS Naturals

CONSTANTS
    RepBlocks,      \* blocks with events of the protocols reprojected
    Projections     \* what the events of a block project to

VARIABLES
    onChain,        \* onChain[b]: canonical, of the block and of its events
    served,         \* served[b]: projections of b that are canonical
    script,         \* what the script is at
    raced           \* blocks rolled back since the script last read their events

repVars == <<onChain, served, script, raced>>

NotStarted == [step |-> "off"]

(* Blocks ingested under a manifest, or before one was active.              *)
RepInit ==
    /\ onChain \in [RepBlocks -> BOOLEAN]
    /\ served \in [RepBlocks -> {{}, Projections}]
    /\ \A b \in RepBlocks : served[b] # {} => onChain[b]
    /\ script = NotStarted /\ raced = {}

-----------------------------------------------------------------------------
(* A delivery rolls the block back, ...                                     *)
RollBack(b) ==
    /\ onChain[b]
    /\ onChain' = [onChain EXCEPT ![b] = FALSE]
    /\ served' = [served EXCEPT ![b] = {}]
    /\ raced' = raced \cup {b}
    /\ UNCHANGED script

(* ... or applies it, and projects it if a manifest is active.              *)
ApplyAgain(b) ==
    /\ ~onChain[b]
    /\ onChain' = [onChain EXCEPT ![b] = TRUE]
    /\ \E made \in {{}, Projections} :
         served' = [served EXCEPT ![b] = @ \cup made]
    /\ UNCHANGED <<script, raced>>

ListBlocks ==
    /\ script = NotStarted
    /\ script' = [step |-> "next", todo |-> {b \in RepBlocks : onChain[b]}]
    /\ UNCHANGED <<onChain, served, raced>>

EventsOfAny(b) == Projections    \* mutant: rolled-back events are read too

(* SELECT ... FROM contract_events WHERE ... AND canonical                  *)
EventsOf(b) == IF onChain[b] THEN Projections ELSE {}

(* The events of the next block are read and projected in memory, ...       *)
ReadEvents(b) ==
    /\ script.step = "next" /\ b \in script.todo
    /\ script' = [step |-> "write", todo |-> script.todo \ {b},
                  block |-> b, rows |-> EventsOf(b)]
    /\ raced' = raced \ {b}
    /\ UNCHANGED <<onChain, served>>

NextBlock == [step |-> "next", todo |-> script.todo]

(* ... and each projection becomes canonical.                               *)
UpsertProjection(p) ==
    /\ script.step = "write" /\ p \in script.rows
    /\ served' = [served EXCEPT ![script.block] = @ \cup {p}]
    /\ script' = [script EXCEPT !.rows = @ \ {p}]
    /\ UNCHANGED <<onChain, raced>>

BlockDone ==
    /\ script.step = "write" /\ script.rows = {}
    /\ script' = NextBlock
    /\ UNCHANGED <<onChain, served, raced>>

(* The script ends, also because a statement failed; it can be run again.   *)
ScriptEnds ==
    /\ script.step \in {"next", "write"} /\ script' = NotStarted
    /\ UNCHANGED <<onChain, served, raced>>

RepNext ==
    \/ \E b \in RepBlocks : RollBack(b) \/ ApplyAgain(b) \/ ReadEvents(b)
    \/ ListBlocks \/ BlockDone \/ ScriptEnds
    \/ \E p \in Projections : UpsertProjection(p)

RepSpec == RepInit /\ [][RepNext]_repVars

-----------------------------------------------------------------------------
(* readers of protocol_projection_events: a block that is not on the chain  *)
(* has canonical projections only if it was rolled back after the script    *)
(* had read its events: a rollback that comes first, even after the blocks  *)
(* were listed, is never undone, however often the script runs.             *)
RevivedOnlyByRace ==
    \A b \in RepBlocks : ~onChain[b] /\ served[b] # {} => b \in raced
=============================================================================
