--------------------------- MODULE FreshnessProofs --------------------------
(***************************************************************************)
(* Proofs about what is kept while the world goes on: verified assets,     *)
(* positions and yields in the caches of the API, the projections a script *)
(* rewrites, and the page of the web application.                          *)
(***************************************************************************)
EXTENDS MCProgress, AssetCache, Reprojection, WebApp, SequenceTheorems, TLAPS

-----------------------------------------------------------------------------
(* Verified assets.                                                         *)
Moments == 0..MaxAssetTime

(* What a scan has found, at most as recent as the clock says, of a         *)
(* manifest that was active during the scan.                                *)
Findings == [under : Manifests, from : Nat, to : Nat]
FoundOK(f) ==
    /\ f \in Findings
    /\ f.to <= assetClock
    /\ activeLast[f.under] >= f.from

(* The manifest was active at some time up to the time t.                   *)
ActiveBy(m, t) == m \in Manifests /\ activeSince[m] <= t

ScanOK ==
    \/ scan = NoScan
    \/ scan \in [step : {"manifest"}, from : Nat]
    \/ /\ scan \in [step : {"contract"}, from : Nat, under : Manifests]
       /\ activeLast[scan.under] >= scan.from

AskerOK(q) ==
    /\ q.step \in {"off", "read", "waits", "static", "answered"}
    /\ q.step \in {"read", "waits"} => ActiveBy(q.version, assetClock)
    /\ q.step = "answered" =>
         /\ FoundOK(q.of) /\ ActiveBy(q.version, q.of.to)
         /\ q.at < q.of.to + AssetLife

CacheOK ==
    \/ assetCache = NoAssets
    \/ /\ FoundOK(assetCache.of) /\ ActiveBy(assetCache.version, assetCache.of.to)
       /\ assetCache.expires = assetCache.of.to + AssetLife

AssetIInv ==
    /\ assetClock \in Nat /\ assetClock <= MaxAssetTime
    /\ activeManifest \in Manifests
    /\ activeSince \in [Manifests -> Nat] /\ activeLast \in [Manifests -> Nat]
    /\ activeSince[activeManifest] <= assetClock
    /\ activeLast[activeManifest] = assetClock
    /\ \A m \in Manifests :
         activeLast[m] <= assetClock /\ activeSince[m] \in 0..assetClock \cup {NotYet}
    /\ scan # NoScan => scan.from <= assetClock
    /\ ScanOK
    /\ joined \in Seq(Askers)
    /\ scan # NoScan => joined # <<>>
    /\ \A i \in 1..Len(joined) : asker[joined[i]].step = "waits"
    /\ DOMAIN asker = Askers
    /\ \A r \in Askers : AskerOK(asker[r])
    /\ CacheOK

LEMMA AssetInitInv == AssetInit => AssetIInv
  <1> SUFFICES ASSUME AssetInit PROVE AssetIInv
      OBVIOUS
  <1> USE AssetAssumption DEF AssetInit
  <1>1. activeSince \in [Manifests -> Nat]
        BY DEF NotYet
  <1>2. \A r \in Askers : AskerOK(asker[r])
        BY DEF AskerOK, NotAsking
  <1> QED
      BY <1>1, <1>2 DEF AssetIInv, ScanOK, CacheOK

(* Time and activations only add to the past of a manifest.                 *)
LEMMA PastGrows ==
  ASSUME AssetIInv, AssetTick \/ \E m \in Manifests : ActivateManifest(m)
  PROVE  /\ assetClock' \in Nat /\ assetClock <= assetClock' /\ assetClock' <= MaxAssetTime
         /\ activeManifest' \in Manifests
         /\ activeSince' \in [Manifests -> Nat] /\ activeLast' \in [Manifests -> Nat]
         /\ activeSince'[activeManifest'] <= assetClock'
         /\ activeLast'[activeManifest'] = assetClock'
         /\ \A m \in Manifests :
              /\ activeLast[m] <= activeLast'[m] /\ activeLast'[m] <= assetClock'
              /\ activeSince'[m] \in 0..assetClock' \cup {NotYet}
         /\ \A m \in Manifests, t \in Nat :
              t <= assetClock /\ activeSince[m] <= t => activeSince'[m] <= t
         /\ UNCHANGED <<scan, joined, assetCache, asker>>
  <1> USE AssetAssumption DEF AssetIInv, NotYet
  <1>1. CASE AssetTick
        BY <1>1 DEF AssetTick
  <1>2. ASSUME NEW m \in Manifests, ActivateManifest(m)
        PROVE  /\ activeManifest' = m
               /\ activeSince' = [activeSince EXCEPT ![m] = IF @ = NotYet THEN assetClock ELSE @]
               /\ activeLast' = [activeLast EXCEPT ![m] = assetClock]
               /\ activeSince'[m] <= assetClock
               /\ UNCHANGED <<assetClock, scan, joined, assetCache, asker>>
        BY <1>2 DEF ActivateManifest
  <1>3. ASSUME NEW m \in Manifests, ActivateManifest(m), NEW n \in Manifests
        PROVE  /\ activeLast[n] <= activeLast'[n] /\ activeLast'[n] <= assetClock
               /\ activeSince'[n] \in 0..assetClock \cup {NotYet}
               /\ \A t \in Nat : t <= assetClock /\ activeSince[n] <= t => activeSince'[n] <= t
    <2>1. /\ activeLast[n] <= activeLast'[n] /\ activeLast'[n] <= assetClock
          /\ activeSince'[n] = IF n = m /\ activeSince[n] = NotYet THEN assetClock
                               ELSE activeSince[n]
          BY <1>2, <1>3
    <2>2. activeSince[n] \in 0..assetClock \cup {NotYet}
          OBVIOUS
    <2> QED
        BY <2>1, <2>2
  <1> QED
      BY <1>1, <1>2, <1>3

(* So what was once true of the past stays true.                            *)
LEMMA WorldKeepsInv ==
  ASSUME AssetIInv, AssetTick \/ \E m \in Manifests : ActivateManifest(m)
  PROVE  AssetIInv'
  <1> USE PastGrows DEF AssetIInv
  <1>1. \A f : FoundOK(f) => FoundOK(f)'
        BY SMTT(30) DEF FoundOK, Findings
  <1>2. \A m, t : t \in Nat /\ t <= assetClock /\ ActiveBy(m, t) => ActiveBy(m, t)'
        BY DEF ActiveBy
  <1>3. \A m : ActiveBy(m, assetClock) => ActiveBy(m, assetClock)'
        BY DEF ActiveBy
  <1>4. ScanOK'
        BY SMTT(30) DEF ScanOK
  <1>5. \A q : FoundOK(q) => q.to \in Nat /\ q.to <= assetClock
        BY DEF FoundOK, Findings
  <1>6. CacheOK'
        BY <1>1, <1>2, <1>5 DEF CacheOK
  <1>7. \A r \in Askers : AskerOK(asker[r])'
        BY <1>1, <1>2, <1>3, <1>5 DEF AskerOK
  <1>8. scan' # NoScan => scan'.from <= assetClock'
        BY DEF ScanOK
  <1> QED
      BY <1>4, <1>6, <1>7, <1>8
LEMMA AskKeepsInv ==
  ASSUME NEW r \in Askers, AssetIInv, AskAssets(r) \/ AssetsUsed(r)
  PROVE  AssetIInv'
  <1> USE DEF AssetIInv
  <1>1. PICK q : /\ AskerOK(q) /\ q.step # "waits"
                 /\ asker' = [asker EXCEPT ![r] = q]
        BY DEF AskAssets, AssetsUsed, NotAsking, AskerOK, ActiveBy
  <1>2. asker[r].step # "waits" /\ UNCHANGED <<assetClock, registryView, scan, joined, assetCache>>
        BY DEF AskAssets, AssetsUsed
  <1>3. \A i \in 1..Len(joined) : asker'[joined[i]] = asker[joined[i]]
        BY <1>1, <1>2
  <1>4. \A s \in Askers : AskerOK(asker'[s])
        BY <1>1
  <1>5. \A s \in Askers : AskerOK(asker[s])'
        BY <1>2, <1>4 DEF AskerOK, FoundOK, ActiveBy, registryView
  <1> QED
      BY <1>1, <1>2, <1>3, <1>5 DEF registryView, ScanOK, CacheOK, FoundOK, ActiveBy

LEMMA UseKeepsInv ==
  ASSUME NEW r \in Askers, AssetIInv, UseAssets(r)
  PROVE  AssetIInv'
  <1> USE DEF AssetIInv
  <1> DEFINE v == asker[r].version
  <1>1. ActiveBy(v, assetClock) /\ asker[r].step = "read" /\ UNCHANGED <<assetClock, registryView, assetCache>>
        BY DEF UseAssets, AskerOK
  <1>2. CacheOK'
        BY <1>1 DEF CacheOK, FoundOK, ActiveBy, registryView
  <1>3. \A q : AskerOK(q) => AskerOK(q)'
        BY <1>1 DEF AskerOK, FoundOK, ActiveBy, registryView
  <1>4. CASE StillKept(v)
    <2>1. assetCache # NoAssets
          BY <1>4 DEF StillKept, NoAssets
    <2> DEFINE q == [step |-> "answered", version |-> v, of |-> assetCache.of, at |-> assetClock]
    <2>2. AskerOK(q)
          BY <1>4, <2>1 DEF AskerOK, CacheOK, StillKept
    <2>3. asker' = [asker EXCEPT ![r] = q] /\ UNCHANGED <<scan, joined>>
          BY <1>4 DEF UseAssets
    <2>4. \A i \in 1..Len(joined) : joined[i] # r
          BY <1>1
    <2> QED
        BY <1>1, <1>2, <1>3, <2>2, <2>3, <2>4 DEF registryView, ScanOK
  <1>5. CASE ~StillKept(v)
    <2> DEFINE q == [asker[r] EXCEPT !.step = "waits"]
    <2>1. /\ asker' = [asker EXCEPT ![r] = q] /\ joined' = Append(joined, r)
          /\ scan' = IF scan = NoScan THEN [step |-> "manifest", from |-> assetClock] ELSE scan
          BY <1>5 DEF UseAssets
    <2>2. q.step = "waits" /\ AskerOK(q)
      <3>1. AskerOK(asker[r])
            OBVIOUS
      <3>2. q.step = "waits" /\ q.version = v
            OBVIOUS
      <3> QED
          BY <1>1, <3>2 DEF AskerOK
    <2>3. ScanOK' /\ (scan' # NoScan => scan'.from <= assetClock')
          BY <1>1, <2>1 DEF ScanOK, registryView, NoScan
    <2>4. joined' \in Seq(Askers) /\ joined' # <<>>
          BY <2>1
    <2>5. \A i \in 1..Len(joined') : asker'[joined'[i]].step = "waits"
          BY <2>1, <2>2
    <2> QED
        BY <1>1, <1>2, <1>3, <2>1, <2>2, <2>3, <2>4, <2>5 DEF registryView
  <1> QED
      BY <1>4, <1>5

LEMMA ScanReadKeepsInv == AssetIInv /\ ReadScanManifest => AssetIInv'
  <1> SUFFICES ASSUME AssetIInv, ReadScanManifest PROVE AssetIInv'
      OBVIOUS
  <1> USE DEF AssetIInv, ReadScanManifest
  <1>1. scan.from \in Nat /\ scan # NoScan
        BY DEF ScanOK, NoScan
  <1>2. ScanOK' /\ (scan' # NoScan => scan'.from <= assetClock')
        BY <1>1 DEF ScanOK, registryView
  <1> QED
      BY <1>1, <1>2 DEF registryView, AskerOK, CacheOK, FoundOK, ActiveBy

(* Every request that waits is answered alike, with assets of the manifest  *)
(* it has read.                                                             *)
LEMMA LandsKeepsInv == AssetIInv /\ (ScanLands \/ ScanFails) => AssetIInv'
  <1> SUFFICES ASSUME AssetIInv, ScanLands \/ ScanFails PROVE AssetIInv'
      OBVIOUS
  <1> USE AssetAssumption DEF AssetIInv
  <1>1. UNCHANGED <<assetClock, registryView>> /\ scan' = NoScan /\ joined' = <<>>
        BY DEF ScanLands, ScanFails, Resume
  <1>2. \A q : AskerOK(q) => AskerOK(q)'
        BY <1>1 DEF AskerOK, FoundOK, ActiveBy, registryView
  <1>3. CASE ScanLands
    <2> DEFINE found == [under |-> scan.under, from |-> scan.from, to |-> assetClock]
    <2> DEFINE answer(r) == [step |-> "answered", version |-> asker[r].version,
                             of |-> found, at |-> assetClock]
    <2> DEFINE w == joined[Len(joined)]
    <2>1. FoundOK(found) /\ scan # NoScan
      <3>1. scan.step = "contract" /\ NoScan.step = "off"
            BY <1>3 DEF ScanLands, NoScan
      <3>2. /\ scan \in [step : {"contract"}, from : Nat, under : Manifests]
            /\ activeLast[scan.under] >= scan.from
            BY <3>1 DEF ScanOK
      <3>3. found \in Findings
            BY <3>2 DEF Findings
      <3> QED
          BY <3>1, <3>2, <3>3 DEF FoundOK
    <2>2. asker' = [r \in Askers |-> IF asker[r].step = "waits" THEN answer(r) ELSE asker[r]]
          BY <1>3 DEF ScanLands, Resume
    <2>3. assetCache' = [version |-> asker[w].version, expires |-> assetClock + AssetLife,
                         of |-> found]
          BY <1>3 DEF ScanLands
    <2>4. w \in Askers /\ asker[w].step = "waits"
          BY <2>1
    <2>5. \A r \in Askers : asker[r].step = "waits" => AskerOK(answer(r))
          BY <2>1 DEF AskerOK
    <2>6. \A r \in Askers : AskerOK(asker'[r])
          BY <2>2, <2>5
    <2>7. \A r \in Askers : AskerOK(asker[r])'
          BY <1>1, <2>6 DEF AskerOK, FoundOK, ActiveBy, registryView
    <2>8. ActiveBy(asker[w].version, assetClock)
          BY <2>4 DEF AskerOK
    <2>9. CacheOK'
          BY <1>1, <2>1, <2>3, <2>8 DEF CacheOK, FoundOK, ActiveBy, registryView
    <2> QED
        BY <1>1, <2>2, <2>7, <2>9 DEF registryView, ScanOK
  <1>4. CASE ScanFails
    <2>1. /\ asker' = [r \in Askers |-> IF asker[r].step = "waits"
                        THEN [step |-> "static", version |-> asker[r].version] ELSE asker[r]]
          /\ assetCache' = assetCache
          BY <1>4 DEF ScanFails, Resume
    <2>2. \A r \in Askers : AskerOK([step |-> "static", version |-> asker[r].version])
          BY DEF AskerOK
    <2>3. \A r \in Askers : AskerOK(asker'[r])
          BY <2>1, <2>2
    <2>4. \A r \in Askers : AskerOK(asker[r])'
          BY <1>1, <2>3 DEF AskerOK, FoundOK, ActiveBy, registryView
    <2> QED
        BY <1>1, <2>1, <2>4 DEF registryView, ScanOK, CacheOK, FoundOK, ActiveBy
  <1> QED
      BY <1>3, <1>4

LEMMA AssetNextInv == AssetIInv /\ [AssetNext]_assetVars => AssetIInv'
  <1> SUFFICES ASSUME AssetIInv, [AssetNext]_assetVars PROVE AssetIInv'
      OBVIOUS
  <1>1. CASE UNCHANGED assetVars
        BY <1>1 DEF assetVars, AssetIInv, ScanOK, AskerOK, CacheOK, FoundOK, ActiveBy
  <1> QED
      BY <1>1, WorldKeepsInv, AskKeepsInv, UseKeepsInv, ScanReadKeepsInv, LandsKeepsInv
      DEF AssetNext

(* app.ts, verifiedAssetCache: whatever is activated while a scan is under  *)
(* way or kept, assets are of a manifest that was active while they were    *)
(* scanned, and are served with one that was active before the scan ended.  *)
THEOREM AssetsAreOfTheirTime == AssetSpec => []MixedOnlyByRace
  <1>1. AssetIInv => MixedOnlyByRace
        BY DEF AssetIInv, AskerOK, FoundOK, ActiveBy, MixedOnlyByRace
  <1> QED
      BY <1>1, AssetInitInv, AssetNextInv, PTL DEF AssetSpec

-----------------------------------------------------------------------------
(* Positions.  What an envelope says stays true of the past: the tip it     *)
(* names was the store's at some time since its discovery began, and what   *)
(* it holds was read at blocks that were the provider's, or were pinned     *)
(* when they were, since then.                                              *)
TipSince(b, t) == b # NoTipBlock => b \in TipBlocks /\ lastTip[b] >= t

ReadSince(S, t) == S \subseteq TipBlocks /\ \A b \in S : lastProvided[b] + PinLife + LookupTime > t

EnvelopeOK(e) ==
    /\ e.from \in Nat /\ e.to \in Nat /\ e.to <= posClock
    /\ TipSince(e.tip, e.from) /\ ReadSince(e.readAt, e.from)

LoadOK(d) ==
    /\ d.step # "off" => d.from \in Nat /\ d.from <= posClock /\ ReadSince(d.readAt, d.from)
    /\ d.step = "adapters" => "readAt" \in DOMAIN d
    /\ d.step \in {"registry", "save", "done"} => TipSince(d.tip, d.from)

CachedOK(c) ==
    \/ c = NothingCached
    \/ EnvelopeOK(c.envelope) /\ c.expires = c.envelope.to + PositionLife

RequestOK(q) ==
    q.state = "answered" =>
      EnvelopeOK(q.got) /\ q.at \in Nat /\ q.at < q.got.to + PositionLife

(* A pin outlives the time its block was the provider's tip by no more than *)
(* its lifetime and the time of a lookup.                                   *)
PinOK ==
    \/ tipCache = NotPinned
    \/ /\ tipCache.block \in TipBlocks /\ tipCache.expires \in Nat
       /\ tipCache.expires <= lastProvided[tipCache.block] + PinLife + LookupTime

ChainsOK ==
    /\ posClock \in Nat
    /\ lastTip \in [TipBlocks -> Nat] /\ lastProvided \in [TipBlocks -> Nat]
    /\ TipSince(canonicalTip, posClock)
    /\ providerTip \in TipBlocks /\ lastProvided[providerTip] = posClock
    /\ \A b \in TipBlocks : lastTip[b] <= posClock /\ lastProvided[b] <= posClock

PosIInv ==
    /\ ChainsOK /\ PinOK
    /\ DOMAIN load = Loads /\ \A l \in Loads : LoadOK(load[l])
    /\ DOMAIN positionCache = Addresses /\ \A a \in Addresses : CachedOK(positionCache[a])
    /\ DOMAIN request = Requests /\ \A r \in Requests : RequestOK(request[r])
    /\ \A l \in Loads : load[l].step # "off" => load[l].address \in Addresses

LEMMA PosInitInv == PosInit => PosIInv
  BY DEF PosInit, PosIInv, ChainsOK, PinOK, TipSince, LoadOK, NoLoad, CachedOK, RequestOK,
         NoRequest

(* As long as time and tips only go on, what was true of the past is.       *)
LEMMA PastStays ==
  ASSUME ChainsOK, posClock' \in Nat, posClock <= posClock',
         \A b \in TipBlocks : lastTip'[b] \in Nat /\ lastTip[b] <= lastTip'[b],
         \A b \in TipBlocks : lastProvided'[b] \in Nat /\ lastProvided[b] <= lastProvided'[b]
  PROVE  /\ \A d : LoadOK(d) => LoadOK(d)'
         /\ \A c : CachedOK(c) => CachedOK(c)'
         /\ \A q : RequestOK(q) => RequestOK(q)'
  <1> USE PositionAssumption DEF ChainsOK
  <1>1. \A b, t : t \in Nat /\ TipSince(b, t) => TipSince(b, t)'
        BY DEF TipSince
  <1>2. \A S, t : t \in Nat /\ ReadSince(S, t) => ReadSince(S, t)'
        BY DEF ReadSince
  <1>3. \A e : EnvelopeOK(e) => EnvelopeOK(e)'
        BY <1>1, <1>2 DEF EnvelopeOK
  <1>4. \A d : LoadOK(d) => LoadOK(d)'
        BY <1>1, <1>2 DEF LoadOK
  <1> QED
      BY <1>3, <1>4 DEF CachedOK, RequestOK

LEMMA WorldMovesKeepsInv == PosIInv /\ (PosTick \/ ChainMoves) => PosIInv'
  <1> SUFFICES ASSUME PosIInv, PosTick \/ ChainMoves PROVE PosIInv'
      OBVIOUS
  <1> USE PositionAssumption DEF PosIInv, ChainsOK
  <1>1. /\ posClock' \in Nat /\ posClock <= posClock'
        /\ lastTip' \in [TipBlocks -> Nat] /\ TipSince(canonicalTip, posClock)'
        /\ \A b \in TipBlocks : lastTip[b] <= lastTip'[b] /\ lastTip'[b] <= posClock'
        /\ UNCHANGED <<tipCache, load, positionCache, request>>
    <2>1. CASE PosTick
          BY <2>1 DEF PosTick, TipSince
    <2>2. CASE ChainMoves
          BY <2>2 DEF ChainMoves, TipSince
    <2> QED
        BY <2>1, <2>2
  <1>2. /\ lastProvided' \in [TipBlocks -> Nat] /\ providerTip' \in TipBlocks
        /\ lastProvided'[providerTip'] = posClock'
        /\ \A b \in TipBlocks : /\ lastProvided[b] <= lastProvided'[b]
                               /\ lastProvided'[b] <= posClock'
    <2>1. CASE PosTick
          BY <2>1 DEF PosTick
    <2>2. CASE UNCHANGED <<posClock, providerTip, lastProvided>>
          BY <2>2
    <2>3. ASSUME NEW b \in TipBlocks, UNCHANGED posClock, providerTip' = b,
                 lastProvided' = [lastProvided EXCEPT ![b] = posClock]
          PROVE  /\ lastProvided' \in [TipBlocks -> Nat] /\ lastProvided'[b] = posClock'
                 /\ \A c \in TipBlocks : /\ lastProvided[c] <= lastProvided'[c]
                                        /\ lastProvided'[c] <= posClock'
          BY <2>3
    <2> QED
        BY <2>1, <2>2, <2>3 DEF ChainMoves
  <1>3. PinOK'
        BY <1>1, <1>2 DEF PinOK
  <1> QED
      BY <1>1, <1>2, <1>3, PastStays

(* A step of a handler or a discovery leaves the world alone, and owes what *)
(* it sets.                                                                 *)
LEMMA WorkKeepsInv ==
  ASSUME PosIInv, UNCHANGED world, PinOK',
         DOMAIN load' = Loads, DOMAIN positionCache' = Addresses, DOMAIN request' = Requests,
         \A l \in Loads : LoadOK(load'[l]) /\ (load'[l].step # "off" => load'[l].address \in Addresses),
         \A a \in Addresses : CachedOK(positionCache'[a]),
         \A r \in Requests : RequestOK(request'[r])
  PROVE  PosIInv'
  <1>1. /\ \A d : LoadOK(d) => LoadOK(d)'
        /\ \A c : CachedOK(c) => CachedOK(c)'
        /\ \A q : RequestOK(q) => RequestOK(q)'
        BY PastStays DEF PosIInv, ChainsOK, world
  <1>2. \A l \in Loads : LoadOK(load[l])'
        BY <1>1
  <1>3. \A a \in Addresses : CachedOK(positionCache[a])'
        BY <1>1
  <1>4. \A r \in Requests : RequestOK(request[r])'
        BY <1>1
  <1>5. ChainsOK'
        BY DEF PosIInv, ChainsOK, TipSince, world
  <1> QED
      BY <1>2, <1>3, <1>4, <1>5 DEF PosIInv

LEMMA PinStays ==
  ASSUME PosIInv, UNCHANGED <<world, tipCache>>
  PROVE  PinOK'
  BY DEF PosIInv, PinOK, world

LEMMA AskPositionsKeepsInv ==
  ASSUME NEW r \in Requests, NEW a \in Addresses, PosIInv, AskPositions(r, a)
  PROVE  PosIInv'
  <1>1. UNCHANGED <<world, tipCache, positionCache>>
        BY DEF AskPositions
  <1>2. \A x : RequestOK([state |-> "waits", on |-> x])
        BY DEF RequestOK
  <1>3. PICK q : RequestOK(q) /\ request' = [request EXCEPT ![r] = q]
    <2>1. CASE Cached(a)
      <3> DEFINE q == [state |-> "answered", got |-> positionCache[a].envelope, at |-> posClock]
      <3>1. positionCache[a] # NothingCached
            BY <2>1 DEF Cached, NothingCached, PosIInv, ChainsOK
      <3>2. RequestOK(q)
            BY <2>1, <3>1 DEF Cached, PosIInv, ChainsOK, CachedOK, RequestOK
      <3> QED
          BY <2>1, <3>2 DEF AskPositions
    <2>2. CASE ~Cached(a)
          BY <1>2, <2>2 DEF AskPositions
    <2> QED
        BY <2>1, <2>2
  <1>4. DOMAIN load' = Loads /\ \A l \in Loads :
          LoadOK(load'[l]) /\ (load'[l].step # "off" => load'[l].address \in Addresses)
    <2>1. CASE UNCHANGED load
          BY <2>1 DEF PosIInv
    <2>2. ASSUME NEW l \in Loads, load' = [load EXCEPT ![l] =
                             [address |-> a, step |-> "adapters", from |-> posClock,
                              todo |-> Adapters, readAt |-> {}]]
          PROVE  DOMAIN load' = Loads /\ \A m \in Loads :
                   LoadOK(load'[m]) /\ (load'[m].step # "off" => load'[m].address \in Addresses)
          BY <2>2 DEF PosIInv, ChainsOK, LoadOK, ReadSince
    <2> QED
        BY <2>1, <2>2 DEF AskPositions
  <1> QED
      BY <1>1, <1>3, <1>4, PinStays, WorkKeepsInv DEF PosIInv

(* pinTip: a pin that is kept or made is of a block that was the provider's *)
(* less than the pin's lifetime, and the time of a lookup, before now.      *)
LEMMA PinnedIsRecent ==
  ASSUME NEW b \in TipBlocks, PosIInv, UNCHANGED world, Pinned(b)
  PROVE  PinOK' /\ lastProvided[b] + PinLife + LookupTime > posClock
  <1> USE PositionAssumption DEF PosIInv, ChainsOK, PinOK, world
  <1>1. CASE tipCache.expires > posClock /\ b = tipCache.block /\ UNCHANGED tipCache
        BY <1>1 DEF NotPinned
  <1>2. CASE /\ lastProvided[b] + LookupTime >= posClock
             /\ tipCache' = [block |-> b, expires |-> posClock + PinLife]
        BY <1>2
  <1> QED
      BY <1>1, <1>2 DEF Pinned

LEMMA AdapterKeepsInv ==
  ASSUME NEW l \in Loads, NEW x \in Adapters, PosIInv, RunAdapter(l, x)
  PROVE  PosIInv'
  <1> DEFINE d == load[l]
  <1>1. LoadOK(d) /\ d.step = "adapters" /\ d.address \in Addresses
        BY DEF PosIInv, RunAdapter
  <1>2. PICK b \in TipBlocks, found \in SUBSET TipBlocks :
          /\ found \subseteq {b} /\ (Pinned(b) \/ (found = {} /\ UNCHANGED tipCache))
          /\ load' = [load EXCEPT ![l].todo = @ \ {x}, ![l].readAt = @ \cup found]
    <2>1. PICK found \in {{}} \cup {{b} : b \in TipBlocks} :
             /\ \/ \E b \in TipBlocks : found \subseteq {b} /\ Pinned(b)
                \/ found = {} /\ UNCHANGED tipCache
             /\ load' = [load EXCEPT ![l].todo = @ \ {x}, ![l].readAt = @ \cup found]
          BY DEF RunAdapter
    <2>2. providerTip \in TipBlocks /\ found \in SUBSET TipBlocks
          BY DEF PosIInv, ChainsOK
    <2> QED
        BY <2>1, <2>2
  <1>3. UNCHANGED <<world, positionCache, request>>
        BY DEF RunAdapter
  <1>4. PinOK' /\ (b \in found => lastProvided[b] + PinLife + LookupTime > posClock)
        BY <1>2, <1>3, PinnedIsRecent, PinStays
  <1> DEFINE n == [d EXCEPT !.todo = @ \ {x}, !.readAt = @ \cup found]
  <1>5. load' = [load EXCEPT ![l] = n]
        BY <1>2 DEF PosIInv
  <1>6. n.address = d.address /\ n.from = d.from /\ n.step = d.step
        OBVIOUS
  <1>7. n.readAt = d.readAt \cup found /\ "readAt" \in DOMAIN n
        BY <1>1 DEF LoadOK
  <1>8. d.from \in Nat /\ d.from <= posClock /\ ReadSince(d.readAt, d.from)
        BY <1>1 DEF LoadOK
  <1> HIDE DEF n
  <1>9. ReadSince(n.readAt, d.from)
    <2>1. \A y \in n.readAt : y \in d.readAt \/ (y = b /\ b \in found)
          BY <1>2, <1>7
    <2>2. b \in found => lastProvided[b] + PinLife + LookupTime > d.from
          BY <1>4, <1>8, PositionAssumption DEF PosIInv, ChainsOK
    <2> QED
        BY <1>8, <2>1, <2>2 DEF ReadSince
  <1>10. LoadOK(n)
        BY <1>1, <1>6, <1>7, <1>8, <1>9 DEF LoadOK
  <1> QED
      BY <1>1, <1>3, <1>4, <1>5, <1>6, <1>10, WorkKeepsInv DEF PosIInv

LEMMA ReadsKeepInv ==
  ASSUME NEW l \in Loads, PosIInv, ReadCanonicalTip(l) \/ ReadRegistry(l)
  PROVE  PosIInv'
  <1> DEFINE d == load[l]
  <1>1. LoadOK(d) /\ d.step # "off" /\ d.address \in Addresses
        BY DEF PosIInv, ReadCanonicalTip, ReadRegistry
  <1>2. PICK n : /\ LoadOK(n) /\ n.address \in Addresses
                 /\ load' = [load EXCEPT ![l] = n]
    <2>1. CASE ReadCanonicalTip(l)
      <3> DEFINE n == [address |-> d.address, from |-> d.from, readAt |-> d.readAt,
                       tip |-> canonicalTip,
                       step |-> IF canonicalTip = NoTipBlock THEN "done" ELSE "registry"]
      <3>1. LoadOK(n)
            BY <1>1 DEF LoadOK, PosIInv, ChainsOK, TipSince
      <3> QED
          BY <1>1, <2>1, <3>1 DEF ReadCanonicalTip, PosIInv
    <2>2. CASE ReadRegistry(l)
      <3>1. PICK step \in {"save", "done"} : load' = [load EXCEPT ![l].step = step]
            BY <2>2 DEF ReadRegistry
      <3> DEFINE n == [d EXCEPT !.step = step]
      <3>2. d.step = "registry"
            BY <2>2 DEF ReadRegistry
      <3>3. n.address = d.address /\ n.from = d.from /\ n.tip = d.tip /\ n.readAt = d.readAt
            OBVIOUS
      <3>4. LoadOK(n)
            BY <1>1, <3>2, <3>3 DEF LoadOK
      <3> QED
          BY <1>1, <3>1, <3>3, <3>4 DEF PosIInv
    <2> QED
        BY <2>1, <2>2
  <1>3. UNCHANGED <<world, tipCache, positionCache, request>>
        BY DEF ReadCanonicalTip, ReadRegistry
  <1> QED
      BY <1>2, <1>3, PinStays, WorkKeepsInv DEF PosIInv

LEMMA FailedOK == LoadOK(NoLoad) /\ RequestOK([state |-> "failed"]) /\ NoLoad.step = "off"
  BY DEF LoadOK, NoLoad, RequestOK

LEMMA FailKeepsInv ==
  ASSUME NEW l \in Loads, PosIInv, SaveSnapshot(l) \/ ThrowInDiscovery(l)
  PROVE  PosIInv'
  <1>1. UNCHANGED <<world, tipCache, positionCache>>
        BY DEF SaveSnapshot, ThrowInDiscovery
  <1>2. CASE LoadFails(l)
        BY <1>1, <1>2, FailedOK, PinStays, WorkKeepsInv DEF LoadFails, PosIInv
  <1>3. CASE load[l].step = "save" /\ load' = [load EXCEPT ![l].step = "done"] /\ UNCHANGED request
    <2> DEFINE n == [load[l] EXCEPT !.step = "done"]
    <2>1. /\ n.address = load[l].address /\ n.from = load[l].from /\ n.tip = load[l].tip
          /\ n.readAt = load[l].readAt
          OBVIOUS
    <2>2. LoadOK(n) /\ n.address \in Addresses
          BY <1>3, <2>1 DEF PosIInv, LoadOK
    <2>3. load' = [load EXCEPT ![l] = n]
          BY <1>3 DEF PosIInv
    <2> QED
        BY <1>1, <1>3, <2>2, <2>3, PinStays, WorkKeepsInv DEF PosIInv
  <1> QED
      BY <1>2, <1>3 DEF SaveSnapshot, ThrowInDiscovery

LEMMA LandPositionsKeepsInv ==
  ASSUME NEW l \in Loads, PosIInv, Land(l)
  PROVE  PosIInv'
  <1> USE PositionAssumption
  <1> DEFINE d == load[l]
  <1> DEFINE e == [readAt |-> d.readAt, tip |-> d.tip, from |-> d.from, to |-> posClock]
  <1>1. d.step = "done" /\ LoadOK(d) /\ d.address \in Addresses
        BY DEF Land, PosIInv
  <1>2. EnvelopeOK(e)
        BY <1>1 DEF LoadOK, EnvelopeOK, PosIInv, ChainsOK
  <1>3. CachedOK([envelope |-> e, expires |-> posClock + PositionLife])
        BY <1>2 DEF CachedOK
  <1>4. RequestOK([state |-> "answered", got |-> e, at |-> posClock])
        BY <1>2 DEF RequestOK, PosIInv, ChainsOK
  <1>5. /\ positionCache' = [positionCache EXCEPT ![d.address] =
                                 [envelope |-> e, expires |-> posClock + PositionLife]]
        /\ request' = [r \in Requests |->
               IF request[r].state = "waits" /\ request[r].on = l
               THEN [state |-> "answered", got |-> e, at |-> posClock] ELSE request[r]]
        /\ load' = [load EXCEPT ![l] = NoLoad]
        /\ UNCHANGED <<world, tipCache>>
        BY DEF Land
  <1> HIDE DEF e
  <1>6. \A r \in Requests : RequestOK(request'[r])
        BY <1>4, <1>5 DEF PosIInv
  <1>7. \A a \in Addresses : CachedOK(positionCache'[a])
        BY <1>3, <1>5 DEF PosIInv
  <1> QED
      BY <1>5, <1>6, <1>7, FailedOK, PinStays, WorkKeepsInv DEF PosIInv

LEMMA PosNextInv == PosIInv /\ [PosNext]_posVars => PosIInv'
  <1> SUFFICES ASSUME PosIInv, [PosNext]_posVars PROVE PosIInv'
      OBVIOUS
  <1>1. CASE UNCHANGED posVars
        BY <1>1, PinStays, WorkKeepsInv DEF posVars, PosIInv
  <1>2. ASSUME NEW r \in Requests, Reply(r) PROVE PosIInv'
    <2>1. RequestOK(NoRequest)
          BY DEF RequestOK, NoRequest
    <2> QED
        BY <1>2, <2>1, PinStays, WorkKeepsInv DEF Reply, PosIInv
  <1> QED
      BY <1>1, <1>2, WorldMovesKeepsInv, AskPositionsKeepsInv, AdapterKeepsInv, ReadsKeepInv,
         FailKeepsInv, LandPositionsKeepsInv
      DEF PosNext, Discover

LEMMA AnswersAreFresh == PosIInv => AnswersFresh
  BY PositionAssumption
  DEF PosIInv, ChainsOK, RequestOK, EnvelopeOK, TipSince, ReadSince, AnswersFresh

-----------------------------------------------------------------------------
(* The catalog of yield markets.  The one that is kept lacks nothing, and   *)
(* neither its own lifetime nor that of its evidence outlasts its expiry.   *)
KeptCatalogs == [oldest : {{}} \cup {{t} : t \in Nat}, missing : {FALSE}, loaded : Nat]

KeepsWithin(c, expires) ==
    /\ expires <= c.loaded + CatalogLife
    /\ \A t \in c.oldest : expires <= t + EvidenceAge

YieldCacheOK ==
    \/ yieldCache = NoCatalog
    \/ /\ yieldCache.catalog \in KeptCatalogs
       /\ yieldCache.expires \in Nat
       /\ KeepsWithin(yieldCache.catalog, yieldCache.expires)

YieldServed(q) ==
    q.step = "kept" =>
      /\ q.catalog \in KeptCatalogs /\ q.at \in Nat
      /\ q.at < q.catalog.loaded + CatalogLife
      /\ \A t \in q.catalog.oldest : q.at < t + EvidenceAge

YieldIInv ==
    /\ yieldClock \in Nat
    /\ YieldCacheOK
    /\ DOMAIN yieldRequest = YieldRequests
    /\ \A r \in YieldRequests : YieldServed(yieldRequest[r])

LEMMA KeptCatalogShape ==
  ASSUME NEW c \in KeptCatalogs
  PROVE  c.oldest \subseteq Nat /\ c.loaded \in Nat /\ ~c.missing
  BY DEF KeptCatalogs

LEMMA YieldInitInv == YieldInit => YieldIInv
  BY DEF YieldInit, YieldIInv, YieldCacheOK, YieldServed, NotServed

(* ExpiryOf: the earlier of the two ends.                                   *)
LEMMA ExpiryIsEarlier ==
  ASSUME NEW c, c.loaded \in Nat, c.oldest = {} \/ \E t \in Nat : c.oldest = {t}
  PROVE  ExpiryOf(c) \in Nat /\ KeepsWithin(c, ExpiryOf(c))
  <1> USE YieldAssumption
  <1>1. CASE c.oldest = {}
        BY <1>1 DEF ExpiryOf, KeepsWithin
  <1>2. ASSUME NEW t \in Nat, c.oldest = {t}
        PROVE  ExpiryOf(c) \in Nat /\ KeepsWithin(c, ExpiryOf(c))
    <2>1. (CHOOSE u \in c.oldest : TRUE) = t
          BY <1>2
    <2>2. ExpiryOf(c) = Least2(c.loaded + CatalogLife, t + EvidenceAge)
          BY <1>2, <2>1 DEF ExpiryOf
    <2> QED
        BY <1>2, <2>2 DEF Least2, KeepsWithin
  <1> QED
      BY <1>1, <1>2

LEMMA LandKeepsInv == YieldIInv /\ YieldsLand => YieldIInv'
  <1> SUFFICES ASSUME YieldIInv, YieldsLand PROVE YieldIInv'
      OBVIOUS
  <1>1. PICK c \in Catalogs(yieldClock) :
          /\ AfterLoad([step |-> "loaded", catalog |-> c, at |-> yieldClock])
          /\ yieldCache' = Keep(c)
        BY DEF YieldsLand
  <1>2. c.loaded \in Nat /\ c.missing \in BOOLEAN /\ (c.oldest = {} \/ \E t \in Nat : c.oldest = {t})
        BY DEF Catalogs, YieldIInv
  <1>3. ExpiryOf(c) \in Nat /\ KeepsWithin(c, ExpiryOf(c))
        BY <1>2, ExpiryIsEarlier
  <1>4. ~c.missing => c \in KeptCatalogs
        BY <1>2 DEF Catalogs, KeptCatalogs, YieldIInv
  <1>5. YieldCacheOK'
        BY <1>1, <1>3, <1>4 DEF Keep, YieldIInv, YieldCacheOK, KeepsWithin
  <1>6. \A r \in YieldRequests : YieldServed(yieldRequest[r])'
        BY <1>1 DEF AfterLoad, YieldIInv, YieldServed
  <1> QED
      BY <1>1, <1>5, <1>6 DEF AfterLoad, YieldIInv

LEMMA AskYieldsKeepsInv ==
  ASSUME NEW r \in YieldRequests, YieldIInv, AskYields(r)
  PROVE  YieldIInv'
  <1> USE YieldAssumption DEF AskYields, YieldIInv
  <1>1. CASE yieldCache.expires > yieldClock
    <2>1. yieldCache # NoCatalog
          BY <1>1 DEF NoCatalog
    <2> DEFINE q == [step |-> "kept", catalog |-> yieldCache.catalog, at |-> yieldClock]
    <2>2. YieldServed(q)
      <3>1. yieldCache.catalog \in KeptCatalogs /\ yieldCache.expires \in Nat
            /\ KeepsWithin(yieldCache.catalog, yieldCache.expires)
            BY <2>1 DEF YieldCacheOK
      <3>2. yieldCache.catalog.oldest \subseteq Nat /\ yieldCache.catalog.loaded \in Nat
            BY <3>1, KeptCatalogShape
      <3> QED
          BY <1>1, <3>1, <3>2 DEF YieldServed, KeepsWithin
    <2>3. yieldRequest' = [yieldRequest EXCEPT ![r] = q]
          BY <1>1, <2>1 DEF YieldCacheOK
    <2> QED
        BY <2>2, <2>3 DEF YieldCacheOK, YieldServed
  <1>2. CASE yieldCache.expires <= yieldClock
    <2>1. YieldServed([step |-> "waits"])
          BY DEF YieldServed
    <2>2. yieldCache.expires \in Nat
          BY DEF YieldCacheOK, NoCatalog
    <2> QED
        BY <1>2, <2>1, <2>2 DEF YieldCacheOK, YieldServed
  <1> QED
      BY <1>1, <1>2

LEMMA YieldNextInv == YieldIInv /\ [YieldNext]_yieldVars => YieldIInv'
  <1> SUFFICES ASSUME YieldIInv, [YieldNext]_yieldVars PROVE YieldIInv'
      OBVIOUS
  <1>1. CASE UNCHANGED yieldVars \/ YieldTick
        BY <1>1 DEF yieldVars, YieldTick, YieldIInv, YieldCacheOK, YieldServed
  <1>2. CASE YieldsFail
        BY <1>2 DEF YieldsFail, AfterLoad, YieldIInv, YieldCacheOK, YieldServed
  <1>3. ASSUME NEW r \in YieldRequests, ServeYields(r) PROVE YieldIInv'
        BY <1>3 DEF ServeYields, NotServed, YieldIInv, YieldCacheOK, YieldServed
  <1> QED
      BY <1>1, <1>2, <1>3, LandKeepsInv, AskYieldsKeepsInv DEF YieldNext

LEMMA KeptYieldsAreFresh == YieldIInv => KeptYieldsFresh
  <1> SUFFICES ASSUME YieldIInv, NEW r \in YieldRequests, yieldRequest[r].step = "kept"
               PROVE  LET q == yieldRequest[r]
                      IN /\ q.at - q.catalog.loaded < CatalogLife /\ ~q.catalog.missing
                         /\ \A t \in q.catalog.oldest : q.at - t < EvidenceAge
      BY DEF KeptYieldsFresh
  <1> DEFINE q == yieldRequest[r]
  <1>1. /\ q.catalog \in KeptCatalogs /\ q.at \in Nat
        /\ q.at < q.catalog.loaded + CatalogLife
        /\ \A t \in q.catalog.oldest : q.at < t + EvidenceAge
        BY DEF YieldIInv, YieldServed
  <1>2. q.catalog.oldest \subseteq Nat /\ q.catalog.loaded \in Nat /\ ~q.catalog.missing
        BY <1>1, KeptCatalogShape
  <1> QED
      BY <1>1, <1>2, YieldAssumption

-----------------------------------------------------------------------------
(* The caches of the API together, as MCProgress has them: a behaviour of   *)
(* one, while the other rests.                                              *)
LEMMA ProgressNextInv ==
  PosIInv /\ YieldIInv /\ [ProgressNext]_progressVars => PosIInv' /\ YieldIInv'
  <1> SUFFICES ASSUME PosIInv, YieldIInv, [ProgressNext]_progressVars
               PROVE  PosIInv' /\ YieldIInv'
      OBVIOUS
  <1>1. [PosNext]_posVars
        BY DEF ProgressNext, progressVars, Resting
  <1>2. [YieldNext]_yieldVars
        BY DEF ProgressNext, progressVars, Resting
  <1> QED
      BY <1>1, <1>2, PosNextInv, YieldNextInv

(* discoverPositions: for any addresses, requests, adapters, lifetimes and  *)
(* number of discoveries at a time, an answer names a tip that was the      *)
(* store's since its discovery began, is no older than a cached position    *)
(* may be, and what each adapter found is of a block that was the           *)
(* provider's tip less than a pin's lifetime, and the time a lookup may     *)
(* take, before the discovery began.                                        *)
THEOREM PositionsAreFresh == PosSpec => []AnswersFresh
  BY PosInitInv, PosNextInv, AnswersAreFresh, PTL DEF PosSpec

(* currentYieldMarkets: for any lifetimes, what is answered from the kept   *)
(* catalog lacks nothing, and none of its evidence has outlived its life.   *)
THEOREM YieldsAreFresh == YieldSpec => []KeptYieldsFresh
  BY YieldInitInv, YieldNextInv, KeptYieldsAreFresh, PTL DEF YieldSpec

(* discoverPositions and currentYieldMarkets: both, in the specification    *)
(* that the run of the caches checks.                                       *)
THEOREM CachesStayFresh == ProgressSpec => []CachesFresh
  <1>1. ProgressInit => PosIInv /\ YieldIInv
        BY PosInitInv, YieldInitInv DEF ProgressInit
  <1>2. PosIInv /\ YieldIInv => CachesFresh
        BY AnswersAreFresh, KeptYieldsAreFresh DEF CachesFresh
  <1> QED
      BY <1>1, <1>2, ProgressNextInv, PTL DEF ProgressSpec

-----------------------------------------------------------------------------
USE WebAssumption

-----------------------------------------------------------------------------
(* The page: fetches are of inspections that were made, and of the latest   *)
(* one either the overview is under way or, once it is shown, the history.  *)
WebTypeOK ==
    /\ generation \in Nat /\ generation <= MaxInspections
    /\ loading \in BOOLEAN
    /\ shown \in Nat /\ history \in Nat
    /\ answers \subseteq Fetch

WebIInv ==
    /\ WebTypeOK
    /\ LatestIsShown
    /\ \A f \in answers : f.from <= generation
    /\ Waiting("history") => ~loading /\ shown = generation

LEMMA WebInitInv == WebInit => WebIInv
  BY DEF WebInit, WebIInv, WebTypeOK, LatestIsShown, Waiting, Fetch

(* A new inspection is the latest: it loads, and its overview is fetched.   *)
LEMMA InspectKeepsInv ==
  ASSUME NEW a, WebIInv, Inspect(a)
  PROVE  WebIInv'
  <1> USE DEF Inspect, WebIInv, WebTypeOK
  <1> PICK g : g = generation + 1
      OBVIOUS
  <1>1. g \in 1..MaxInspections /\ generation' = g /\ loading' = TRUE /\ UNCHANGED <<shown, history>>
        OBVIOUS
  <1>2. [of |-> "overview", from |-> g] \in Fetch
        BY <1>1 DEF Fetch
  <1>3. answers' = answers \cup {[of |-> "overview", from |-> g]}
        BY <1>1
  <1>4. WebTypeOK'
        BY <1>1, <1>2, <1>3
  <1>5. \A f \in answers' : f.from <= g
        BY <1>1, <1>3 DEF Fetch
  <1>6. [of |-> "history", from |-> g] \notin answers'
    <2>1. \A f \in answers : f.from # g
          BY <1>1
    <2> QED
        BY <1>3, <2>1
  <1>7. LatestIsShown'
        BY <1>1, <1>3, <1>4 DEF LatestIsShown, Waiting
  <1> QED
      BY <1>1, <1>4, <1>5, <1>6, <1>7 DEF Waiting

(* The latest inspection waits for its overview until that arrives or       *)
(* fails, and then for its history.                                         *)
LEMMA ArrivalKeepsInv ==
  ASSUME NEW f \in answers, WebIInv, OverviewArrives(f), Latest(f)
  PROVE  WebIInv'
  <1> USE DEF WebIInv, WebTypeOK
  <1> PICK h : h = [of |-> "history", from |-> generation]
      OBVIOUS
  <1>1. f \in Fetch /\ f = [of |-> "overview", from |-> generation] /\ generation \in 1..MaxInspections
        BY DEF Fetch, OverviewArrives, Latest
  <1>2. [f EXCEPT !.of = "history"] = h
        BY <1>1
  <1>3. /\ loading' = FALSE /\ shown' = generation /\ UNCHANGED <<generation, history>>
        /\ answers' = (answers \ {f}) \cup {h}
        BY <1>1, <1>2 DEF OverviewArrives
  <1>4. h \in Fetch /\ h.from = generation
        BY <1>1 DEF Fetch
  <1>5. f \notin answers'
        BY <1>1, <1>3
  <1>6. WebTypeOK' /\ \A g \in answers' : g.from <= generation
        BY <1>1, <1>3, <1>4
  <1>7. history <= generation
        BY DEF LatestIsShown
  <1>8. LatestIsShown'
        BY <1>1, <1>3, <1>5, <1>6, <1>7 DEF LatestIsShown, Waiting
  <1> QED
      BY <1>3, <1>6, <1>8 DEF Waiting

LEMMA FailureKeepsInv ==
  ASSUME NEW f \in answers, WebIInv, OverviewFails(f), Latest(f)
  PROVE  WebIInv'
  <1> USE DEF WebIInv, WebTypeOK
  <1>1. f \in Fetch /\ f = [of |-> "overview", from |-> generation] /\ generation \in 1..MaxInspections
        BY DEF Fetch, OverviewFails, Latest
  <1>2. /\ loading' = FALSE /\ shown' = 0 /\ history' = 0 /\ UNCHANGED generation
        /\ answers' = answers \ {f}
        BY <1>1 DEF OverviewFails
  <1>3. ~Waiting("history")
        BY <1>1 DEF LatestIsShown, Waiting
  <1>4. ~Waiting("overview")' /\ ~Waiting("history")'
        BY <1>1, <1>2, <1>3 DEF Waiting
  <1>5. WebTypeOK' /\ \A g \in answers' : g.from <= generation
        BY <1>1, <1>2
  <1>6. LatestIsShown'
        BY <1>1, <1>2, <1>4, <1>5 DEF LatestIsShown
  <1> QED
      BY <1>2, <1>4, <1>5, <1>6

LEMMA HistoryKeepsInv ==
  ASSUME NEW f \in answers, WebIInv, HistoryArrives(f), Latest(f)
  PROVE  WebIInv'
  <1> USE DEF WebIInv, WebTypeOK
  <1>1. f \in Fetch /\ f = [of |-> "history", from |-> generation] /\ generation \in 1..MaxInspections
        BY DEF Fetch, HistoryArrives, Latest
  <1>2. /\ history' \in {generation, 0} /\ UNCHANGED <<generation, loading, shown>>
        /\ answers' = answers \ {f}
        BY <1>1 DEF HistoryArrives
  <1>3. ~loading /\ shown = generation
        BY <1>1 DEF Waiting
  <1>4. ~Waiting("history")' /\ (Waiting("overview")' <=> Waiting("overview"))
        BY <1>1, <1>2 DEF Waiting
  <1>5. WebTypeOK' /\ \A g \in answers' : g.from <= generation
        BY <1>1, <1>2
  <1>6. LatestIsShown'
        BY <1>1, <1>2, <1>3, <1>4, <1>5 DEF LatestIsShown
  <1> QED
      BY <1>2, <1>4, <1>5, <1>6

(* What arrives of an earlier inspection changes nothing, and is not what   *)
(* is waited for.                                                           *)
LEMMA LateKeepsInv ==
  ASSUME NEW f \in answers, WebIInv, ~Latest(f),
         OverviewArrives(f) \/ OverviewFails(f) \/ HistoryArrives(f)
  PROVE  WebIInv'
  <1>1. UNCHANGED <<generation, loading, shown, history>> /\ answers' = answers \ {f}
        BY DEF OverviewArrives, OverviewFails, HistoryArrives
  <1>2. f # [of |-> "overview", from |-> generation] /\ f # [of |-> "history", from |-> generation]
        BY DEF Latest
  <1>3. /\ Waiting("overview")' <=> Waiting("overview")
        /\ Waiting("history")' <=> Waiting("history")
        BY <1>1, <1>2 DEF Waiting
  <1> QED
      BY <1>1, <1>3 DEF WebIInv, WebTypeOK, LatestIsShown

LEMMA AnswerKeepsInv ==
  ASSUME NEW f \in answers, WebIInv, OverviewArrives(f) \/ OverviewFails(f) \/ HistoryArrives(f)
  PROVE  WebIInv'
  BY ArrivalKeepsInv, FailureKeepsInv, HistoryKeepsInv, LateKeepsInv

LEMMA WebNextInv == WebIInv /\ [WebNext]_webVars => WebIInv'
  <1> SUFFICES ASSUME WebIInv, [WebNext]_webVars PROVE WebIInv'
      OBVIOUS
  <1>1. CASE UNCHANGED webVars
        BY <1>1 DEF webVars, WebIInv, WebTypeOK, LatestIsShown, Waiting
  <1>2. ASSUME NEW a \in Inspected, InspectAddress(a) \/ StartupInspects(a) PROVE WebIInv'
        BY <1>2, InspectKeepsInv DEF InspectAddress, StartupInspects
  <1>3. ASSUME NEW a \in Inspected, SessionRead(a) PROVE WebIInv'
        BY <1>3 DEF SessionRead, WebIInv, WebTypeOK, LatestIsShown, Waiting
  <1>4. CASE StartupEnds
        BY <1>4 DEF StartupEnds, WebIInv, WebTypeOK, LatestIsShown, Waiting
  <1>5. ASSUME NEW f \in answers, OverviewArrives(f) \/ OverviewFails(f) \/ HistoryArrives(f)
        PROVE  WebIInv'
        BY <1>5, AnswerKeepsInv
  <1> QED
      BY <1>1, <1>2, <1>3, <1>4, <1>5 DEF WebNext

(* App.tsx, generation and abort: however many inspections overlap, and in  *)
(* whatever order their answers arrive, the page loads until the latest one *)
(* has answered and then shows what it answered; the history of an earlier  *)
(* one stays beside it only until its own arrives or fails.                 *)
THEOREM PageShowsTheLatest == WebSpec => []LatestIsShown
  <1>1. WebIInv => LatestIsShown
        BY DEF WebIInv
  <1> QED
      BY <1>1, WebInitInv, WebNextInv, PTL DEF WebSpec

-----------------------------------------------------------------------------
(* The script: a block it has still to read has no projections once it is   *)
(* off the chain, and the rows it holds of a block that left the chain are  *)
(* of one that was rolled back after they were read.                        *)
Steps == {"off", "next", "write"}

ScriptOK ==
    /\ script.step \in Steps
    /\ script.step # "off" =>
         \A b \in script.todo : ~onChain[b] => served[b] = {}
    /\ script.step = "write" =>
         /\ script.block \in RepBlocks \ script.todo
         /\ ~onChain[script.block] /\ script.rows # {} => script.block \in raced

RepIInv ==
    /\ onChain \in [RepBlocks -> BOOLEAN]
    /\ served \in [RepBlocks -> SUBSET Projections]
    /\ ScriptOK
    /\ RevivedOnlyByRace

LEMMA RepInitInv == RepInit => RepIInv
  BY DEF RepInit, RepIInv, ScriptOK, Steps, NotStarted, RevivedOnlyByRace

LEMMA ChainKeepsInv ==
  ASSUME NEW b \in RepBlocks, RepIInv, RollBack(b) \/ ApplyAgain(b)
  PROVE  RepIInv'
  <1> USE DEF RepIInv
  <1>1. CASE RollBack(b)
        BY <1>1 DEF RollBack, ScriptOK, RevivedOnlyByRace
  <1>2. CASE ApplyAgain(b)
        BY <1>2 DEF ApplyAgain, ScriptOK, RevivedOnlyByRace
  <1> QED
      BY <1>1, <1>2

LEMMA ReadKeepsInv ==
  ASSUME NEW b \in RepBlocks, RepIInv, ReadEvents(b)
  PROVE  RepIInv'
  <1> USE DEF RepIInv, ReadEvents
  <1>1. ~onChain[b] => served[b] = {} /\ EventsOf(b) = {}
        BY DEF ScriptOK, EventsOf
  <1>2. ScriptOK'
        BY <1>1 DEF ScriptOK, Steps
  <1>3. RevivedOnlyByRace'
        BY <1>1 DEF RevivedOnlyByRace
  <1> QED
      BY <1>2, <1>3

LEMMA UpsertKeepsInv ==
  ASSUME NEW p \in Projections, RepIInv, UpsertProjection(p)
  PROVE  RepIInv'
  <1> USE DEF RepIInv, UpsertProjection
  <1> DEFINE b == script.block
  <1>1. b \in RepBlocks \ script.todo /\ (~onChain[b] => b \in raced)
        BY DEF ScriptOK
  <1>2. served' = [served EXCEPT ![b] = @ \cup {p}] /\ served' \in [RepBlocks -> SUBSET Projections]
        BY <1>1
  <1>3. RevivedOnlyByRace'
        BY <1>1, <1>2 DEF RevivedOnlyByRace
  <1>4. ScriptOK'
        BY <1>1, <1>2 DEF ScriptOK
  <1> QED
      BY <1>2, <1>3, <1>4

LEMMA RepNextInv == RepIInv /\ [RepNext]_repVars => RepIInv'
  <1> SUFFICES ASSUME RepIInv, [RepNext]_repVars PROVE RepIInv'
      OBVIOUS
  <1>1. CASE UNCHANGED repVars
        BY <1>1 DEF repVars, RepIInv, ScriptOK, RevivedOnlyByRace
  <1>2. CASE ListBlocks
        BY <1>2 DEF ListBlocks, RepIInv, ScriptOK, Steps, NotStarted, RevivedOnlyByRace
  <1>3. CASE BlockDone
        BY <1>3 DEF BlockDone, NextBlock, RepIInv, ScriptOK, Steps, RevivedOnlyByRace
  <1>4. CASE ScriptEnds
        BY <1>4 DEF ScriptEnds, RepIInv, ScriptOK, Steps, NotStarted, RevivedOnlyByRace
  <1> QED
      BY <1>1, <1>2, <1>3, <1>4, ChainKeepsInv, ReadKeepsInv, UpsertKeepsInv DEF RepNext

(* reproject-from-db.ts: for any number of blocks and however often it is   *)
(* run, the script makes a projection of an orphaned block canonical only   *)
(* if the block was rolled back after its events were read.                 *)
THEOREM RewritingRevivesOnlyByRace == RepSpec => []RevivedOnlyByRace
  <1>1. RepIInv => RevivedOnlyByRace
        BY DEF RepIInv
  <1> QED
      BY <1>1, RepInitInv, RepNextInv, PTL DEF RepSpec
=============================================================================
