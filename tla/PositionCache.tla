-------------------------- MODULE PositionCache ---------------------------
(***************************************************************************)
(* Position requests of one API process: positionsFor, which keeps what was *)
(* discovered for 45 s and lets requests share a discovery, and             *)
(* discoverPositions, which runs the adapters, two at a time, then reads the *)
(* canonical tip and the registry, and saves a snapshot (apps/api/src/app.ts,*)
(* packages/adapters/src/stacks-read-only-client.ts).  The store's chain, the*)
(* provider's change between any two steps.                                 *)
(*                                                                         *)
(* Each adapter reads at a tip of its own, pinTip's, which the client keeps *)
(* for 15 s after an answer that took up to 8 s; the adapters share the      *)
(* client of the reference provider (with none configured two of them pin    *)
(* nothing).  All it reads being of that block, its run is the moment it     *)
(* pins: any moments, whether two adapters overlap or not.  What it finds is *)
(* abstracted to the block; pricing is left out, its failures are warnings.  *)
(***************************************************************************)
EXTENDS Naturals, FiniteSets

CONSTANTS
    TipBlocks,    \* blocks
    HeightOf,     \* HeightOf[b]: of each block
    Adapters,
    Addresses,
    Requests,     \* position requests being handled at a time
    Loads,        \* discoveries there are to draw from at a time
    PositionLife, \* 45,000 ms, in ticks
    PinLife,      \* 15,000 ms, in ticks
    LookupTime,   \* 8,000 ms, in ticks: an answer that takes longer is a failure
    MaxPosTime,   \* bound: the clock
    MaxMoves,     \* bound: changes of the chains
    MaxPosFaults  \* bound: statements that throw

ASSUME PositionAssumption ==
    /\ HeightOf \in [TipBlocks -> Nat]
    /\ PositionLife \in Nat \ {0} /\ PinLife \in Nat \ {0} /\ LookupTime \in Nat
    /\ MaxPosTime \in Nat /\ MaxMoves \in Nat /\ MaxPosFaults \in Nat

VARIABLES
    posClock,
    canonicalTip,    \* the block at the store's tip, NoTipBlock before the first
    providerTip,     \* the block at the provider's tip
    tipCache,        \* the client's pin: a block and its expiry
    load,            \* load[l]: the discovery l, NoLoad when there is none
    positionLoads,   \* positionLoads[a]: the discovery in the map, None without
    positionCache,   \* positionCache[a]: the envelope and its expiry, or None
    request,         \* request[r]: what the handler r waits for or answered
    lastTip,         \* lastTip[b]: when b was last at the store's tip
    lastProvided,    \* lastProvided[b]: when b was last at the provider's
    moves, posFaults

world == <<posClock, canonicalTip, providerTip, lastTip, lastProvided, moves>>
posVars == <<world, tipCache, load, positionLoads, positionCache, request, posFaults>>

NoLoad == [step |-> "off"]
NoRequest == [state |-> "off"]
NothingCached == [expires |-> 0]
None == "none"
NoTipBlock == "no block"
NotPinned == [expires |-> 0]

PosInit ==
    /\ posClock = 0
    /\ canonicalTip = NoTipBlock /\ providerTip \in TipBlocks
    /\ tipCache = NotPinned
    /\ load = [l \in Loads |-> NoLoad]
    /\ positionLoads = [a \in Addresses |-> None]
    /\ positionCache = [a \in Addresses |-> NothingCached]
    /\ request = [r \in Requests |-> NoRequest]
    /\ lastTip = [b \in TipBlocks |-> 0] /\ lastProvided = [b \in TipBlocks |-> 0]
    /\ moves = 0 /\ posFaults = 0

-----------------------------------------------------------------------------
PosTick ==
    /\ posClock < MaxPosTime
    /\ posClock' = posClock + 1
    /\ lastTip' = [b \in TipBlocks |-> IF b = canonicalTip THEN posClock' ELSE lastTip[b]]
    /\ lastProvided' = [lastProvided EXCEPT ![providerTip] = posClock']
    /\ UNCHANGED <<canonicalTip, providerTip, tipCache, load, positionLoads, positionCache,
                   request, moves, posFaults>>

(* A block or a reorganisation is ingested, or is the provider's.           *)
ChainMoves ==
    /\ moves < MaxMoves /\ moves' = moves + 1
    /\ \/ /\ \E b \in TipBlocks \ {canonicalTip} :
               canonicalTip' = b /\ lastTip' = [lastTip EXCEPT ![b] = posClock]
          /\ UNCHANGED <<providerTip, lastProvided>>
       \/ /\ \E b \in TipBlocks \ {providerTip} :
               providerTip' = b /\ lastProvided' = [lastProvided EXCEPT ![b] = posClock]
          /\ UNCHANGED <<canonicalTip, lastTip>>
    /\ UNCHANGED <<posClock, tipCache, load, positionLoads, positionCache, request, posFaults>>

CachedForever(a) == positionCache[a] # NothingCached    \* mutant: the expiry is not looked at

Cached(a) == positionCache[a].expires > posClock

Shared(a, l) == [positionLoads EXCEPT ![a] = l]

(* positionsFor, until it awaits: the cache, a discovery that is under way, *)
(* or a new one, in the map before anything else runs.                      *)
AskPositions(r, a) ==
    /\ request[r] = NoRequest
    /\ \/ /\ Cached(a)
          /\ request' = [request EXCEPT ![r] =
                           [state |-> "answered", got |-> positionCache[a].envelope,
                            at |-> posClock]]
          /\ UNCHANGED <<load, positionLoads>>
       \/ /\ ~Cached(a) /\ positionLoads[a] # None
          /\ request' = [request EXCEPT ![r] = [state |-> "waits", on |-> positionLoads[a]]]
          /\ UNCHANGED <<load, positionLoads>>
       \/ /\ ~Cached(a) /\ positionLoads[a] = None
          /\ \E l \in Loads :
               /\ load[l] = NoLoad
               /\ load' = [load EXCEPT ![l] =
                             [address |-> a, step |-> "adapters", from |-> posClock,
                              todo |-> Adapters, readAt |-> {}]]
               /\ positionLoads' = Shared(a, l)
               /\ request' = [request EXCEPT ![r] = [state |-> "waits", on |-> l]]
    /\ UNCHANGED <<world, tipCache, positionCache, posFaults>>

(* pinTip: the tip the client has kept, or one that it looks up and keeps:  *)
(* the provider's when it answered.                                         *)
Pinned(b) ==
    \/ tipCache.expires > posClock /\ b = tipCache.block /\ UNCHANGED tipCache
    \/ /\ tipCache.expires <= posClock /\ lastProvided[b] + LookupTime >= posClock
       /\ tipCache' = [block |-> b, expires |-> posClock + PinLife]

(* An adapter finds positions at that tip, or nothing, or fails, with the   *)
(* lookup or after it.                                                      *)
RunAdapter(l, d) ==
    /\ load[l].step = "adapters" /\ d \in load[l].todo
    /\ \E found \in {{}} \cup {{b} : b \in TipBlocks} :
         /\ \/ \E b \in TipBlocks : found \subseteq {b} /\ Pinned(b)
            \/ found = {} /\ UNCHANGED tipCache
         /\ load' = [load EXCEPT ![l].todo = @ \ {d}, ![l].readAt = @ \cup found]
    /\ UNCHANGED <<world, positionLoads, positionCache, request, posFaults>>

(* canonicalTip, then, with a tip, registryStore.active.                    *)
ReadCanonicalTip(l) ==
    /\ load[l].step = "adapters" /\ load[l].todo = {}
    /\ load' = [load EXCEPT ![l] =
         [address |-> @.address, from |-> @.from, readAt |-> @.readAt, tip |-> canonicalTip,
          step |-> IF canonicalTip = NoTipBlock THEN "done" ELSE "registry"]]
    /\ UNCHANGED <<world, tipCache, positionLoads, positionCache, request, posFaults>>

(* A snapshot is due when a registry is active, there is a position, and    *)
(* each names the height of the tip: the one it was read at, or a second    *)
(* one that its provider states (Bitflow's), which may be any.              *)
Saves(l, quoted) ==
    /\ load[l].readAt # {}
    /\ \A b \in load[l].readAt \ quoted : HeightOf[b] = HeightOf[load[l].tip]

(* registryStore.active: a manifest is active, or none is.                  *)
ReadRegistry(l) ==
    /\ load[l].step = "registry"
    /\ \E active \in BOOLEAN, quoted \in SUBSET load[l].readAt :
         load' = [load EXCEPT ![l].step = IF active /\ Saves(l, quoted) THEN "save" ELSE "done"]
    /\ UNCHANGED <<world, tipCache, positionLoads, positionCache, request, posFaults>>

LoadFails(l) ==
    /\ load' = [load EXCEPT ![l] = NoLoad]
    /\ request' = [r \in Requests |->
         IF request[r].state = "waits" /\ request[r].on = l
         THEN [state |-> "failed"] ELSE request[r]]

DeleteNothing(l) == positionLoads    \* mutant: a failed discovery stays in the map

(* finally: the discovery leaves the map, unless another took its place.    *)
Removed(l) ==
    LET a == load[l].address
    IN IF positionLoads[a] = l THEN [positionLoads EXCEPT ![a] = None] ELSE positionLoads

(* savePositionSnapshots: the block it names must still be canonical (here: *)
(* the tip), otherwise it throws, and with it the discovery and every       *)
(* request that shares it.                                                  *)
SaveSnapshot(l) ==
    /\ load[l].step = "save"
    /\ \/ /\ load[l].tip = canonicalTip
          /\ load' = [load EXCEPT ![l].step = "done"]
          /\ UNCHANGED <<positionLoads, request>>
       \/ /\ load[l].tip # canonicalTip
          /\ LoadFails(l) /\ positionLoads' = Removed(l)
    /\ UNCHANGED <<world, tipCache, positionCache, posFaults>>

(* canonicalTip, the registry or the store cannot be read.                  *)
ThrowInDiscovery(l) ==
    /\ load[l].step \notin {"off", "adapters", "done"}
    /\ posFaults < MaxPosFaults
    /\ posFaults' = posFaults + 1
    /\ LoadFails(l) /\ positionLoads' = Removed(l)
    /\ UNCHANGED <<world, tipCache, positionCache>>

(* The discovery ends: its requests go on, one after the other in the same  *)
(* turn of the event loop, the one that started it filling the cache.       *)
Land(l) ==
    /\ load[l].step = "done"
    /\ LET e == [readAt |-> load[l].readAt, tip |-> load[l].tip,
                 from |-> load[l].from, to |-> posClock]
       IN /\ positionCache' = [positionCache EXCEPT ![load[l].address] =
                                 [envelope |-> e, expires |-> posClock + PositionLife]]
          /\ request' = [r \in Requests |->
               IF request[r].state = "waits" /\ request[r].on = l
               THEN [state |-> "answered", got |-> e, at |-> posClock] ELSE request[r]]
    /\ positionLoads' = Removed(l)
    /\ load' = [load EXCEPT ![l] = NoLoad]
    /\ UNCHANGED <<world, tipCache, posFaults>>

(* The answer is on its way and the handler is done.                        *)
Reply(r) ==
    /\ request[r].state \in {"answered", "failed"}
    /\ request' = [request EXCEPT ![r] = NoRequest]
    /\ UNCHANGED <<world, tipCache, load, positionLoads, positionCache, posFaults>>

Discover(l) ==
    \/ \E d \in Adapters : RunAdapter(l, d)
    \/ ReadCanonicalTip(l) \/ ReadRegistry(l) \/ SaveSnapshot(l)
    \/ ThrowInDiscovery(l) \/ Land(l)

PosNext ==
    \/ PosTick \/ ChainMoves
    \/ \E r \in Requests : Reply(r) \/ \E a \in Addresses : AskPositions(r, a)
    \/ \E l \in Loads : Discover(l)

(* Every read has a timeout and every statement is answered, so a discovery *)
(* that began goes on to its end.                                           *)
PosFairness == \A l \in Loads : WF_posVars(Discover(l))

PosSpec == PosInit /\ [][PosNext]_posVars /\ PosFairness

-----------------------------------------------------------------------------
(* positionsFor, positionCache: what a request is answered was discovered   *)
(* less than the cache's lifetime before, and the block it names was at the *)
(* store's tip at some time since its discovery began: an orphaned block is *)
(* named no longer than a lifetime and the length of one discovery.  Its    *)
(* positions are not of one read: each adapter's are of a block that was at *)
(* the provider's tip less than a pin's lifetime, and the time its lookup   *)
(* may take, before the discovery began.                                    *)
AnswersFresh ==
    \A r \in Requests : request[r].state = "answered" =>
      LET e == request[r].got
      IN /\ request[r].at - e.to < PositionLife
         /\ e.tip # NoTipBlock => lastTip[e.tip] >= e.from
         /\ \A b \in e.readAt : lastProvided[b] + PinLife + LookupTime > e.from

(* A request that waits is answered or refused, also when the discovery it  *)
(* shares fails, and a failure does not stay in the map.                    *)
EveryRequestEnds ==
    \A r \in Requests : []<>(request[r].state # "waits")
===========================================================================
