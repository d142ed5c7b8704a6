------------------------- MODULE RegistryBackfill -------------------------
(***************************************************************************)
(* The resumable backfill of one registry contract's events,               *)
(* scripts/backfill-registry-events.ts: runs that page through the event    *)
(* list of the Stacks API, ingest each page block by block and record how   *)
(* far they came in registry_backfill_checkpoints, with prefetched pages,   *)
(* page limits, the storage ceiling, failures, crashes and re-runs, while   *)
(* the contract goes on emitting events.                                    *)
(*                                                                         *)
(* The API (external) lists the newest event first: of `head` events,       *)
(* numbered in the order they were emitted, event e is at position head - e.*)
(* A second provider, asked when the first fails, may be some events behind.*)
(* An event is one that the projections need, and stands for the block that *)
(* holds it; ingesting one again changes nothing (CanonicalStore).          *)
(*                                                                         *)
(* The transactions of a page come from a cache that all contracts of the   *)
(* process share.  Which it holds is abstracted to what matters: the ones   *)
(* of this page that are gone, or stubs from the database, when the page is *)
(* put together; their events are passed over.                              *)
(***************************************************************************)
EXTENDS Integers, FiniteSets

CONSTANTS
    Runs,          \* backfill processes; the ones after the first are re-runs
    PageSize,      \* BACKFILL_EVENT_PAGE_SIZE
    Prefetch,      \* BACKFILL_PAGE_PREFETCH: pages fetched ahead of their use
    Concurrency,   \* BACKFILL_HTTP_CONCURRENCY: requests outstanding at a time
    MaxPages,      \* BACKFILL_MAX_PAGES_PER_CONTRACT, per pass
    Ceiling,       \* BACKFILL_MAX_DATABASE_BYTES, in ingested events
    Neighbours,    \* whether the processes backfill other contracts as well
    Lags,          \* how many events the second provider's list may lack
    InitialEvents, \* events emitted before the first run
    MaxArrivals,   \* bound: events emitted later
    MaxFaults      \* bound: requests, ingestions and processes that fail

ASSUME ConstantsAssumption ==
    /\ PageSize \in Nat \ {0} /\ Prefetch \in Nat \ {0}
    /\ Concurrency \in Nat \ {0} /\ MaxPages \in Nat \ {0}
    /\ Ceiling \in Nat /\ Neighbours \in BOOLEAN /\ Lags \subseteq Nat
    /\ InitialEvents \in Nat
    /\ MaxArrivals \in Nat /\ MaxFaults \in Nat

Slots == 1..Prefetch
Old == 1..InitialEvents

VARIABLES
    head,         \* events emitted so far
    ingested,     \* events that store.ingest() has committed
    status,       \* the checkpoint's status
    next_offset,  \* the checkpoint's next_offset
    pc,           \* pc[p]: what run p does next
    offset,       \* offset[p]: its position in the event list
    pages,        \* pages[p]: pages done in this pass
    size,         \* size[p]: pages in the current window
    got,          \* got[p][i]: whether slot i of the window has been fetched
    top,          \* top[p][i]: the newest event of that page, 0 if it is empty
    slot,         \* slot[p]: the slot being ingested
    looked,       \* looked[p]: whether that page has its transactions
    absent,       \* absent[p]: the events of it that have none
    done,         \* done[p]: events of that page ingested, or passed over
    dropped,      \* events that were passed over
    skewed,       \* whether a page came from a list that was behind
    faults        \* failures so far

checkpoint == <<status, next_offset>>
work == <<offset, pages, size, got, top, slot, looked, absent, done>>
record == <<ingested, dropped>>
vars == <<head, record, checkpoint, pc, work, skewed, faults>>

Init ==
    /\ head = InitialEvents
    /\ ingested = {} /\ dropped = {}
    /\ status = "pending" /\ next_offset = 0
    /\ pc = [p \in Runs |-> "off"]
    /\ offset = [p \in Runs |-> 0]
    /\ pages = [p \in Runs |-> 0]
    /\ size = [p \in Runs |-> 0]
    /\ got = [p \in Runs |-> [i \in Slots |-> "none"]]
    /\ top = [p \in Runs |-> [i \in Slots |-> 0]]
    /\ slot = [p \in Runs |-> 1]
    /\ looked = [p \in Runs |-> FALSE]
    /\ absent = [p \in Runs |-> {}]
    /\ done = [p \in Runs |-> 0]
    /\ skewed = FALSE /\ faults = 0

-----------------------------------------------------------------------------
Below(n, k) == IF n > k THEN n - k ELSE 0

Go(p, from, to) == pc[p] = from /\ pc' = [pc EXCEPT ![p] = to]

(* The variables of a page, of a window and of a pass end with it.          *)
TurnTo(p, i) ==
    /\ slot' = [slot EXCEPT ![p] = i]
    /\ looked' = [looked EXCEPT ![p] = FALSE]
    /\ absent' = [absent EXCEPT ![p] = {}]
    /\ done' = [done EXCEPT ![p] = 0]

Window(p, n) ==
    /\ size' = [size EXCEPT ![p] = n]
    /\ got' = [got EXCEPT ![p] = [i \in Slots |-> "none"]]
    /\ top' = [top EXCEPT ![p] = [i \in Slots |-> 0]]
    /\ TurnTo(p, 1)

Stop(p) ==
    /\ pc' = [pc EXCEPT ![p] = "off"]
    /\ offset' = [offset EXCEPT ![p] = 0] /\ pages' = [pages EXCEPT ![p] = 0]
    /\ Window(p, 0)

(* The contract emits an event.                                             *)
Arrive ==
    /\ head < InitialEvents + MaxArrivals
    /\ head' = head + 1
    /\ UNCHANGED <<record, checkpoint, pc, work, skewed, faults>>

(* A pass over the contract, of this process or of a new one, reads the     *)
(* checkpoint; a completed one is not run again.                            *)
Start(p) ==
    /\ status # "complete"
    /\ Go(p, "off", "begin")
    /\ offset' = [offset EXCEPT ![p] = next_offset]
    /\ pages' = [pages EXCEPT ![p] = 0]
    /\ UNCHANGED <<head, record, checkpoint, size, got, top, slot, looked, absent, done,
                   skewed, faults>>

(* UPDATE ... SET status = 'running', completed_at = NULL, unconditionally. *)
SetRunning(p) ==
    /\ Go(p, "begin", "window")
    /\ status' = "running"
    /\ UNCHANGED <<head, record, next_offset, work, skewed, faults>>

StorageFull == Cardinality(ingested) >= Ceiling

(* The page limit of the pass, or the storage ceiling, is reached.          *)
Pause(p) ==
    /\ pc[p] = "window"
    /\ pages[p] >= MaxPages \/ StorageFull
    /\ Stop(p)
    /\ status' = "paused"
    /\ UNCHANGED <<head, record, next_offset, skewed, faults>>

(* The requests for the next pages are planned.                             *)
OpenWindow(p) ==
    /\ pages[p] < MaxPages
    /\ ~StorageFull
    /\ Go(p, "window", "work")
    /\ Window(p, IF Prefetch <= MaxPages - pages[p] THEN Prefetch ELSE MaxPages - pages[p])
    /\ UNCHANGED <<head, record, checkpoint, offset, pages, skewed, faults>>

(* mapLimit: slots are taken in order by at most Concurrency workers, so a  *)
(* slot is asked for while fewer than that many earlier ones are pending.   *)
Requestable(p, i) ==
    /\ pc[p] = "work" /\ i \in 1..size[p] /\ got[p][i] = "none"
    /\ Cardinality({j \in 1..i - 1 : got[p][j] = "none"}) < Concurrency

(* The page for slot i, of a list that lacks the newest `lag` events.       *)
Answered(p, i, lag) ==
    /\ got' = [got EXCEPT ![p][i] = "page"]
    /\ top' = [top EXCEPT ![p][i] = Below(head, offset[p] + (i - 1) * PageSize + lag)]
    /\ UNCHANGED <<head, record, checkpoint, pc, offset, pages, size, slot, looked,
                   absent, done>>

(* The API answers for slot i from the list as it is now.                   *)
FetchPage(p, i) ==
    /\ Requestable(p, i)
    /\ Answered(p, i, 0)
    /\ UNCHANGED <<skewed, faults>>

(* The first provider fails, and the retry goes to the second.              *)
FetchElsewhere(p, i) ==
    /\ Requestable(p, i)
    /\ faults < MaxFaults
    /\ faults' = faults + 1
    /\ \E lag \in Lags : Answered(p, i, lag) /\ skewed' = (skewed \/ lag # 0)

(* All retries of a speculative page fail: the window ends before it.       *)
LosePage(p, i) ==
    /\ Requestable(p, i) /\ i > 1
    /\ faults < MaxFaults
    /\ faults' = faults + 1
    /\ got' = [got EXCEPT ![p][i] = "failed"]
    /\ UNCHANGED <<head, record, checkpoint, pc, offset, pages, size, top, slot, looked,
                   absent, done, skewed>>

Newest(p) == top[p][slot[p]]
Bottom(p) == Below(Newest(p), PageSize)
PageLength(p) == Newest(p) - Bottom(p)

Processing(p) ==
    /\ pc[p] = "work"
    /\ \A i \in 1..size[p] : got[p][i] # "none"

(* fetchTransactions asks for the ones that the cache lacked; when all have *)
(* come, synthesizeTransactions takes those that are there.  Meanwhile      *)
(* trimCache of another contract may have evicted any, and a contract that  *)
(* needs full receipts may find another's stubs in their place.             *)
JoinTransactions(p) ==
    /\ Processing(p) /\ PageLength(p) > 0 /\ ~looked[p]
    /\ looked' = [looked EXCEPT ![p] = TRUE]
    /\ \E gone \in SUBSET (Bottom(p) + 1..Newest(p)) :
         /\ gone # {} => Neighbours
         /\ absent' = [absent EXCEPT ![p] = gone]
    /\ UNCHANGED <<head, record, checkpoint, pc, offset, pages, size, got, top, slot, done,
                   skewed, faults>>

IngestOneBlock(p) ==    \* mutant: the map of blocks keeps one of the page
    /\ looked[p] /\ Processing(p) /\ done[p] < PageLength(p)
    /\ ingested' = ingested \cup {Newest(p)}
    /\ done' = [done EXCEPT ![p] = PageLength(p)]
    /\ UNCHANGED <<head, dropped, checkpoint, pc, offset, pages, size, got, top, slot, looked,
                   absent, skewed, faults>>

(* The blocks of the page are ingested one by one, the oldest first.  An    *)
(* event without a transaction is in none of them.                          *)
IngestEvent(p) ==
    /\ looked[p] /\ Processing(p)
    /\ done[p] < PageLength(p)
    /\ LET e == Bottom(p) + done[p] + 1
       IN \/ /\ e \notin absent[p]
             /\ ingested' = ingested \cup {e} /\ UNCHANGED dropped
          \/ /\ e \in absent[p]
             /\ dropped' = dropped \cup {e} /\ UNCHANGED ingested
    /\ done' = [done EXCEPT ![p] = @ + 1]
    /\ UNCHANGED <<head, checkpoint, pc, offset, pages, size, got, top, slot, looked, absent,
                   skewed, faults>>

(* Mutant: the checkpoint counts a page before it is ingested.              *)
AdvanceEarly(p) ==
    /\ Processing(p) /\ PageLength(p) > 0
    /\ next_offset' = offset[p] + PageLength(p)
    /\ offset' = [offset EXCEPT ![p] = next_offset'] /\ pages' = [pages EXCEPT ![p] = @ + 1]
    /\ pc' = [pc EXCEPT ![p] = "window"] /\ Window(p, 0)
    /\ UNCHANGED <<head, record, status, skewed, faults>>

(* The checkpoint moves past the page, with what was passed over; a short   *)
(* page is the last one, and a failed one ends the window before it.        *)
Advance(p) ==
    /\ Processing(p)
    /\ done[p] = PageLength(p) /\ PageLength(p) > 0
    /\ next_offset' = offset[p] + PageLength(p)
    /\ \/ /\ PageLength(p) < PageSize
          /\ status' = "complete"
          /\ Stop(p)
       \/ /\ PageLength(p) = PageSize
          /\ status' = "running"
          /\ offset' = [offset EXCEPT ![p] = @ + PageSize]
          /\ pages' = [pages EXCEPT ![p] = @ + 1]
          /\ \/ /\ slot[p] < size[p] => got[p][slot[p] + 1] = "failed"
                /\ pc' = [pc EXCEPT ![p] = "window"]
                /\ Window(p, 0)
             \/ /\ slot[p] < size[p] /\ got[p][slot[p] + 1] = "page"
                /\ TurnTo(p, slot[p] + 1)
                /\ UNCHANGED <<pc, size, got, top>>
    /\ UNCHANGED <<head, record, skewed, faults>>

ReadPastEnd(p) ==    \* mutant: an empty page ends the window only
    /\ Processing(p) /\ Newest(p) = 0 /\ Go(p, "work", "window") /\ Window(p, 0)
    /\ UNCHANGED <<head, record, checkpoint, offset, pages, skewed, faults>>

(* An empty page: everything has been read.                                 *)
Exhaust(p) ==
    /\ Processing(p)
    /\ Newest(p) = 0
    /\ status' = "complete"
    /\ Stop(p)
    /\ UNCHANGED <<head, record, next_offset, skewed, faults>>

(* A required request, an ingestion or a statement throws.                  *)
Fail(p) ==
    /\ pc[p] \in {"window", "work"}
    /\ faults < MaxFaults
    /\ faults' = faults + 1
    /\ status' = "failed"
    /\ Stop(p)
    /\ UNCHANGED <<head, record, next_offset, skewed>>

(* The process dies; the checkpoint keeps what was last written.            *)
Crash(p) ==
    /\ pc[p] # "off"
    /\ faults < MaxFaults
    /\ faults' = faults + 1
    /\ Stop(p)
    /\ UNCHANGED <<head, record, checkpoint, skewed>>

Step(p) ==
    \/ Start(p) \/ SetRunning(p) \/ Pause(p) \/ OpenWindow(p)
    \/ \E i \in Slots : FetchPage(p, i)
    \/ JoinTransactions(p) \/ IngestEvent(p) \/ Advance(p) \/ Exhaust(p)

Next ==
    \/ Arrive
    \/ \E p \in Runs : Step(p) \/ Fail(p) \/ Crash(p)
    \/ \E p \in Runs, i \in Slots : FetchElsewhere(p, i) \/ LosePage(p, i)

Spec == Init /\ [][Next]_vars

(* BACKFILL_UNTIL_EXHAUSTED, or an operator who re-runs what is not yet     *)
(* complete: passes follow each other, and a process that runs goes on.     *)
FairSpec == Spec /\ \A p \in Runs : WF_vars(Step(p))

-----------------------------------------------------------------------------
Statuses == {"pending", "running", "paused", "complete", "failed"}

(* The variables hold what the script and its checkpoint row can hold.      *)
TypeOK ==
    /\ head \in Nat /\ ingested \subseteq Nat \ {0} /\ dropped \subseteq Nat \ {0}
    /\ status \in Statuses /\ next_offset \in Nat
    /\ pc \in [Runs -> {"off", "begin", "window", "work"}]
    /\ offset \in [Runs -> Nat] /\ pages \in [Runs -> Nat]
    /\ size \in [Runs -> 0..Prefetch]
    /\ got \in [Runs -> [Slots -> {"none", "page", "failed"}]]
    /\ top \in [Runs -> [Slots -> Nat]]
    /\ slot \in [Runs -> Slots]
    /\ looked \in [Runs -> BOOLEAN] /\ absent \in [Runs -> SUBSET Nat]
    /\ done \in [Runs -> 0..PageSize]
    /\ skewed \in BOOLEAN /\ faults \in 0..MaxFaults

(* docs/production.md:36, :59: a checkpoint that is complete has exhausted  *)
(* the contract: every event that existed when the backfill began has been  *)
(* ingested, through every pause, failure, crash and re-run.  The code does *)
(* less, in three ways: see the next two, and InOrder below.                *)
CompleteMeansAll == status = "complete" => Old \subseteq ingested

Handled == ingested \cup dropped

(* backfillContract: what a complete checkpoint does mean.  As long as no   *)
(* page came from a list that was behind, every event that existed when the *)
(* backfill began has been ingested, or was read and passed over without a  *)
(* transaction, through every pause, failure, crash and re-run.             *)
CompleteMeansRead == status = "complete" /\ ~skewed => Old \subseteq Handled

(* docs/production.md:37: whoever resumes at next_offset leaves no other    *)
(* event behind, although the list has shifted under the offset meanwhile.  *)
ResumeSkipsOnlyDropped ==
    ~skewed => \A e \in Old : e > head - next_offset => e \in Handled

(* docs/production.md:50: the loop of resumed passes ends: pauses, failures *)
(* and the other runs (which set a completed checkpoint back to running     *)
(* when they read it before) never keep the contract from being exhausted,  *)
(* unless the storage ceiling is reached.                                   *)
ExhaustedAgain == []<>(status = "complete" \/ StorageFull)

-----------------------------------------------------------------------------
(* The inductive invariant, for requests that are answered in order.        *)

InOrder == Concurrency = 1 \/ Prefetch = 1

(* Every event newer than the page being ingested, and of that page the     *)
(* part already done, has been handled.                                     *)
IngestedAbove(p) ==
    pc[p] = "work" /\ got[p][slot[p]] = "page" =>
      /\ \A e \in Old : e > Newest(p) => e \in Handled
      /\ \A e \in Old : Bottom(p) < e /\ e <= Bottom(p) + done[p] => e \in Handled
      /\ done[p] <= PageLength(p)
      /\ Newest(p) <= Below(head, offset[p])

(* Pages are fetched in order, so none begins below the end of the one      *)
(* before: the list only grows at its head.                                 *)
PagesMeet(p) ==
    pc[p] = "work" =>
      /\ slot[p] <= size[p]
      /\ slot[p] # 1 \/ done[p] # 0 => \A i \in 1..size[p] : got[p][i] # "none"
      /\ got[p][slot[p]] # "failed"
      /\ \A i \in 1..size[p] : \A j \in 1..i : got[p][i] = "page" => got[p][j] # "none"
      /\ \A i \in slot[p]..size[p] :
           got[p][i] = "page" => top[p][i] <= Below(head, offset[p] + (i - slot[p]) * PageSize)
      /\ \A i \in slot[p] + 1..size[p] :
           got[p][i] = "page" /\ got[p][i - 1] = "page"
             => top[p][i] >= Below(top[p][i - 1], PageSize)

(* What a run has behind it has been handled.                               *)
OffsetCovered(p) ==
    pc[p] # "off" => \A e \in Old : e > head - offset[p] => e \in Handled

(* As long as every page was of one list.                                   *)
IInv ==
    /\ TypeOK /\ CompleteMeansRead /\ ResumeSkipsOnlyDropped
    /\ head >= InitialEvents
    /\ \A p \in Runs : IngestedAbove(p) /\ PagesMeet(p) /\ OffsetCovered(p)

BackfillInv == TypeOK /\ (~skewed => IInv)
===========================================================================
