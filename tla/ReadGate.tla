----------------------------- MODULE ReadGate -----------------------------
(***************************************************************************)
(* Reads of the Stacks provider: the process-wide gate and the retries of   *)
(* packages/adapters/src/http-retry.ts, and the pinned tip that             *)
(* packages/adapters/src/stacks-read-only-client.ts looks up through them.  *)
(* A read keeps its slot while it waits out a rate limit.                   *)
(***************************************************************************)
EXTENDS Naturals, Sequences, FiniteSets, SequencesExt

CONSTANTS
    Reads,        \* reads that may be under way at a time
    Pinners,      \* callers of pinTip at a time
    GateLimit,    \* stacksReadGate: 2
    RetryLimit    \* DEFAULT_RETRY_DELAYS_MS: 4

ASSUME GateAssumption ==
    /\ IsFiniteSet(Reads) /\ GateLimit \in Nat \ {0}
    /\ RetryLimit \in Nat

VARIABLES
    active,      \* slots taken, as the gate counts them
    waiting,     \* queue: reads waiting for a slot
    reading,     \* reading[r]: what the read r is at
    tries,       \* tries[r]: attempts that were rate-limited
    tipRead,     \* the lookup behind tipLoad, {} for null
    tipCached,   \* whether tipCache holds a tip of the last 15 s
    pinner       \* pinner[p]: what the caller p is at

gateVars == <<active, waiting, reading, tries, tipRead, tipCached, pinner>>
pinVars == <<tipRead, tipCached, pinner>>

GateInit ==
    /\ active = 0 /\ waiting = <<>>
    /\ reading = [r \in Reads |-> "idle"]
    /\ tries = [r \in Reads |-> 0]
    /\ tipRead = {} /\ tipCached = FALSE
    /\ pinner = [p \in Pinners |-> "idle"]

-----------------------------------------------------------------------------
(* pump: the first in the queue go in, as many as there are free slots.     *)
Admitted(free, queue) == IF free < Len(queue) THEN free ELSE Len(queue)
Pump(taken, queue, at) ==
    LET n == Admitted(GateLimit - taken, queue)
    IN /\ active' = taken + n
       /\ waiting' = SubSeq(queue, n + 1, Len(queue))
       /\ reading' = [r \in Reads |->
            IF \E i \in 1..n : queue[i] = r THEN "out" ELSE at[r]]

(* runExclusive: the read joins the queue, and goes in if a slot is free.   *)
Enter(r) ==
    /\ reading[r] = "idle"
    /\ Pump(active, Append(waiting, r), [reading EXCEPT ![r] = "queued"])
    /\ tries' = [tries EXCEPT ![r] = 0]

EnterRead(r) == Enter(r) /\ UNCHANGED pinVars

(* 429, and there are retries left: the read sleeps in its slot.            *)
RateLimited(r) ==
    /\ reading[r] = "out" /\ tries[r] < RetryLimit
    /\ reading' = [reading EXCEPT ![r] = "delayed"]
    /\ tries' = [tries EXCEPT ![r] = @ + 1]
    /\ UNCHANGED <<active, waiting, pinVars>>

Again(r) ==
    /\ reading[r] = "delayed"
    /\ reading' = [reading EXCEPT ![r] = "out"]
    /\ UNCHANGED <<active, waiting, tries, pinVars>>

ReleaseNoPump(r) ==    \* mutant: nobody is let in when a read leaves
    /\ active' = active - 1 /\ waiting' = waiting
    /\ reading' = [reading EXCEPT ![r] = "idle"]

ReleaseLast(r) ==    \* mutant: the last in the queue goes first
    Pump(active - 1, Reverse(waiting), [reading EXCEPT ![r] = "idle"])

(* finally: the slot is free again and goes to the next in the queue.       *)
Release(r) == Pump(active - 1, waiting, [reading EXCEPT ![r] = "idle"])

(* The callers of pinTip that wait for the lookup under way.                *)
Settle(to) == [p \in Pinners |-> IF pinner[p] = "waits" THEN to ELSE pinner[p]]

(* An answer of any status but a retried 429, or the request times out or   *)
(* throws.  A lookup of the tip ends with it: its callers get the tip,      *)
(* which is kept, or the error, and tipLoad is null again.                  *)
Finish(r) ==
    /\ reading[r] = "out"
    /\ Release(r)
    /\ UNCHANGED tries
    /\ \/ r \notin tipRead /\ UNCHANGED pinVars
       \/ /\ r \in tipRead /\ tipRead' = {}
          /\ \/ tipCached' = TRUE /\ pinner' = Settle("pinned")
             \/ UNCHANGED tipCached /\ pinner' = Settle("failed")

(* pinTip: the tip that is kept, the lookup under way, or a new one.        *)
PinTip(p) ==
    /\ pinner[p] = "idle"
    /\ \/ /\ tipCached
          /\ pinner' = [pinner EXCEPT ![p] = "pinned"]
          /\ UNCHANGED <<active, waiting, reading, tries, tipRead>>
       \/ /\ ~tipCached /\ tipRead # {}
          /\ pinner' = [pinner EXCEPT ![p] = "waits"]
          /\ UNCHANGED <<active, waiting, reading, tries, tipRead>>
       \/ /\ ~tipCached /\ tipRead = {}
          /\ \E r \in Reads : Enter(r) /\ tipRead' = {r}
          /\ pinner' = [pinner EXCEPT ![p] = "waits"]
    /\ UNCHANGED tipCached

(* 15 s have passed; the caller goes on with what it got.                   *)
TipAges ==
    /\ tipCached /\ tipCached' = FALSE
    /\ UNCHANGED <<active, waiting, reading, tries, tipRead, pinner>>
GoOn(p) ==
    /\ pinner[p] \in {"pinned", "failed"}
    /\ pinner' = [pinner EXCEPT ![p] = "idle"]
    /\ UNCHANGED <<active, waiting, reading, tries, tipRead, tipCached>>

GateNext ==
    \/ \E r \in Reads : EnterRead(r) \/ RateLimited(r) \/ Again(r) \/ Finish(r)
    \/ \E p \in Pinners : PinTip(p) \/ GoOn(p)
    \/ TipAges

(* Every request has a timeout and every delay ends.                        *)
GateFairness == \A r \in Reads : WF_gateVars(RateLimited(r) \/ Again(r) \/ Finish(r))

GateSpec == GateInit /\ [][GateNext]_gateVars /\ GateFairness

-----------------------------------------------------------------------------
Holders == {r \in Reads : reading[r] \in {"out", "delayed"}}
Queued == {r \in Reads : reading[r] = "queued"}

GateTypeOK ==
    /\ active \in Nat /\ waiting \in Seq(Reads)
    /\ reading \in [Reads -> {"idle", "queued", "out", "delayed"}]
    /\ tries \in [Reads -> 0..RetryLimit]
    /\ tipRead \in SUBSET Reads /\ tipCached \in BOOLEAN
    /\ pinner \in [Pinners -> {"idle", "waits", "pinned", "failed"}]

(* createConcurrencyGate: whatever reads end, throw or sleep, the gate      *)
(* counts exactly the reads that are in it, never more than its limit, and  *)
(* none waits while a slot is free.                                         *)
SlotsCounted ==
    /\ active = Cardinality(Holders) /\ active <= GateLimit
    /\ waiting # <<>> => active = GateLimit

(* Each read that waits is in the queue, once.                              *)
QueueOK ==
    /\ Range(waiting) = Queued
    /\ \A i, j \in DOMAIN waiting : waiting[i] = waiting[j] => i = j

(* The comment at http-retry.ts:185, "FIFO gate": a read that waits is not  *)
(* overtaken by one that joined the queue after it.                         *)
NoOvertaking ==
    [][\A i, j \in DOMAIN waiting :
         i < j /\ reading'[waiting[j]] # "queued"
           => reading'[waiting[i]] # "queued"]_gateVars

(* pinTip: callers share one lookup at a time, and those that wait, wait    *)
(* for one that is in the gate or its queue.                                *)
TipLookupShared ==
    /\ \A q, r \in tipRead : q = r
    /\ \A r \in tipRead : reading[r] # "idle"
    /\ (\E p \in Pinners : pinner[p] = "waits") => tipRead # {}

(* Every read that waits for a slot gets one and ends, and every caller of  *)
(* pinTip goes on, although reads keep their slots through their retries.   *)
ReadsEnd ==
    /\ \A r \in Reads : []<>(reading[r] = "idle")
    /\ \A p \in Pinners : []<>(pinner[p] # "waits")

(* The inductive invariant.                                                 *)
GateIInv == GateTypeOK /\ SlotsCounted /\ QueueOK /\ TipLookupShared
===========================================================================
