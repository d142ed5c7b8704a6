-------------------------- MODULE AnonymousRate ---------------------------
(***************************************************************************)
(* The rate window of anonymous requests: the onRequest hook of             *)
(* apps/api/src/app.ts, in one API process.  The hook does not await, so a  *)
(* request is one step.  The table is a JavaScript Map, which keeps the     *)
(* order its keys were first set in.                                        *)
(***************************************************************************)
EXTENDS Naturals, Sequences, SequencesExt

CONSTANTS
    Clients,      \* request.ip
    RateLimit,    \* publicRateLimitPerMinute
    RateWindow,   \* windowMs, in ticks
    Capacity,     \* windows kept, 10,000
    MaxRateTime   \* bound: the clock

ASSUME RateAssumption ==
    /\ RateLimit \in Nat \ {0} /\ RateWindow \in Nat \ {0}
    /\ Capacity \in Nat \ {0} /\ MaxRateTime \in Nat

VARIABLES
    rateClock,
    windows     \* anonymousRateWindows, as the sequence of its entries

rateVars == <<rateClock, windows>>

RateInit == rateClock = 0 /\ windows = <<>>

-----------------------------------------------------------------------------
RateTick ==
    /\ rateClock < MaxRateTime
    /\ rateClock' = rateClock + 1
    /\ UNCHANGED windows

Over(startedAt) == rateClock - startedAt >= RateWindow
Kept(c) == {i \in DOMAIN windows : windows[i].ip = c}

(* The window the request falls into: the one in force, or a new one.       *)
Current(c) ==
    IF \E i \in Kept(c) : ~Over(windows[i].startedAt)
    THEN windows[CHOOSE i \in Kept(c) : TRUE]
    ELSE [ip |-> c, startedAt |-> rateClock, count |-> 0]

(* Map.set: an entry keeps its place, a new one comes last.                 *)
Put(w) ==
    IF Kept(w.ip) = {} THEN Append(windows, w)
    ELSE [i \in DOMAIN windows |-> IF i \in Kept(w.ip) THEN w ELSE windows[i]]

EvictFirst(table) ==    \* mutant: windows that are over are not dropped first
    IF Len(table) <= Capacity THEN table ELSE Tail(table)

(* Above the capacity, windows that are over go; if all are in force, the   *)
(* one first set.                                                           *)
KeepLive(kept, w) == IF Over(w.startedAt) THEN kept ELSE Append(kept, w)
Evict(table) ==
    IF Len(table) <= Capacity THEN table
    ELSE LET live == FoldLeft(KeepLive, <<>>, table)
         IN IF Len(live) > Capacity THEN Tail(live) ELSE live

AdmitRequest(c) ==
    /\ Current(c).count < RateLimit
    /\ windows' = Evict(Put([Current(c) EXCEPT !.count = @ + 1]))
    /\ UNCHANGED rateClock

(* 429: nothing is counted.                                                 *)
RefuseRequest(c) == Current(c).count >= RateLimit /\ UNCHANGED rateVars

RateNext == RateTick \/ \E c \in Clients : AdmitRequest(c) \/ RefuseRequest(c)

RateSpec == RateInit /\ [][RateNext]_rateVars

-----------------------------------------------------------------------------

Live(table) == {table[i].ip : i \in {j \in DOMAIN table : ~Over(table[j].startedAt)}}

(* docs/commercial-launch.md:23: the count of a client whose window is in   *)
(* force is forgotten only when as many other windows in force as the table *)
(* holds remain, and then of one client: idle clients go first.             *)
ForgottenOnlyWhenCrowded ==
    [][windows' # windows => \A c \in Live(windows) :
         \/ c \in Live(windows')
         \/ /\ Cardinality(Live(windows')) = Capacity
            /\ Live(windows) \ Live(windows') = {c}]_rateVars
===========================================================================
