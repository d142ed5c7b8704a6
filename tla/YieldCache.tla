---------------------------- MODULE YieldCache ----------------------------
(***************************************************************************)
(* currentYieldMarkets of apps/api/src/app.ts, in one API process: the      *)
(* catalog of yield markets, kept for 240 s and never beyond the age of the *)
(* evidence that allocations may rest on.  A catalog is abstracted to when  *)
(* its oldest allocatable market was observed, and to whether Zest rates    *)
(* are missing from it because a provider was busy.                         *)
(***************************************************************************)
EXTENDS Naturals, FiniteSets

CONSTANTS
    YieldRequests,   \* requests being handled at a time
    CatalogLife,     \* 240,000 ms, in ticks
    EvidenceAge,     \* MAX_YIELD_EVIDENCE_AGE_SECONDS, in ticks
    MaxYieldTime     \* bound: the clock

ASSUME YieldAssumption ==
    /\ CatalogLife \in Nat \ {0} /\ EvidenceAge \in Nat \ {0} /\ MaxYieldTime \in Nat

VARIABLES
    yieldClock,
    yieldLoad,      \* whether yieldMarketLoad is a promise
    yieldCache,     \* yieldMarketCache, NoCatalog for null
    yieldRequest    \* yieldRequest[r]: what the request r is at

yieldVars == <<yieldClock, yieldLoad, yieldCache, yieldRequest>>

NoCatalog == [expires |-> 0]
NotServed == [step |-> "off"]

(* oldest: when the oldest allocatable market was observed, {} without one. *)
Catalogs(at) == [oldest : {{}} \cup {{t} : t \in 0..at}, missing : BOOLEAN, loaded : {at}]

YieldInit ==
    /\ yieldClock = 0 /\ yieldLoad = FALSE /\ yieldCache = NoCatalog
    /\ yieldRequest = [r \in YieldRequests |-> NotServed]

-----------------------------------------------------------------------------
YieldTick ==
    /\ yieldClock < MaxYieldTime
    /\ yieldClock' = yieldClock + 1
    /\ UNCHANGED <<yieldLoad, yieldCache, yieldRequest>>

Least2(a, b) == IF a < b THEN a ELSE b

ExpiryOf(c) ==
    IF c.oldest = {} THEN c.loaded + CatalogLife
    ELSE Least2(c.loaded + CatalogLife, (CHOOSE t \in c.oldest : TRUE) + EvidenceAge)

(* A catalog that lacks Zest rates for a passing reason is not kept; the    *)
(* one that is kept stays.                                                  *)
Keep(c) == IF c.missing THEN yieldCache ELSE [expires |-> ExpiryOf(c), catalog |-> c]

(* The kept catalog, the load that is under way, or a new one.              *)
AskYields(r) ==
    /\ yieldRequest[r].step = "off"
    /\ \/ /\ yieldCache.expires > yieldClock
          /\ yieldRequest' = [yieldRequest EXCEPT ![r] =
               [step |-> "kept", catalog |-> yieldCache.catalog, at |-> yieldClock]]
          /\ UNCHANGED yieldLoad
       \/ /\ yieldCache.expires <= yieldClock
          /\ yieldLoad' = TRUE
          /\ yieldRequest' = [yieldRequest EXCEPT ![r] = [step |-> "waits"]]
    /\ UNCHANGED <<yieldClock, yieldCache>>

(* Every request that shares the load goes on with its outcome.             *)
AfterLoad(outcome) ==
    /\ yieldLoad /\ yieldLoad' = FALSE
    /\ yieldRequest' = [r \in YieldRequests |->
         IF yieldRequest[r].step = "waits" THEN outcome ELSE yieldRequest[r]]
    /\ UNCHANGED yieldClock

(* The markets are there: the requests go on, the first keeping them.       *)
YieldsLand ==
    \E c \in Catalogs(yieldClock) :
      AfterLoad([step |-> "loaded", catalog |-> c, at |-> yieldClock])
      /\ yieldCache' = Keep(c)

YieldsFail == AfterLoad([step |-> "failed"]) /\ UNCHANGED yieldCache

ServeYields(r) ==
    /\ yieldRequest[r].step \notin {"off", "waits"}
    /\ yieldRequest' = [yieldRequest EXCEPT ![r] = NotServed]
    /\ UNCHANGED <<yieldClock, yieldLoad, yieldCache>>

YieldNext ==
    \/ YieldTick \/ YieldsLand \/ YieldsFail
    \/ \E r \in YieldRequests : AskYields(r) \/ ServeYields(r)

(* The provider's reads have timeouts, so a load ends.                      *)
YieldFairness == WF_yieldVars(YieldsLand \/ YieldsFail)

YieldSpec == YieldInit /\ [][YieldNext]_yieldVars /\ YieldFairness

-----------------------------------------------------------------------------
(* currentYieldMarkets, and the comment at app.ts:494: a catalog served     *)
(* from memory is younger than its lifetime, lacks no rates that a retry    *)
(* could bring, and holds no allocatable market whose evidence is past its  *)
(* age, however old the provider's observations were when they were loaded. *)
KeptYieldsFresh ==
    \A r \in YieldRequests : yieldRequest[r].step = "kept" =>
      LET q == yieldRequest[r]
      IN /\ q.at - q.catalog.loaded < CatalogLife /\ ~q.catalog.missing
         /\ \A t \in q.catalog.oldest : q.at - t < EvidenceAge
===========================================================================
