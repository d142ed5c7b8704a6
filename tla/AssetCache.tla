---------------------------- MODULE AssetCache ----------------------------
(***************************************************************************)
(* verifiedAssets of apps/api/src/app.ts, in one API process, with          *)
(* discoverZestVerifiedAssets (packages/adapters/src/zest-mainnet-adapter): *)
(* the asset definitions of the active manifest, with those that the Zest   *)
(* registry contract lists, which are kept 60 s.  A request reads the       *)
(* active manifest itself, and the scan it starts or joins reads it again;  *)
(* manifests are activated in between.                                      *)
(*                                                                         *)
(* Only wallets that hold an unlisted Zest receipt need the scan: the       *)
(* others are answered the static definitions and are left out.             *)
(***************************************************************************)
EXTENDS Naturals, Sequences

CONSTANTS
    Manifests,       \* registry versions
    Askers,          \* requests being handled at a time
    AssetLife,       \* 60,000 ms, in ticks
    MaxAssetTime     \* bound: the clock

ASSUME AssetAssumption == AssetLife \in Nat \ {0} /\ MaxAssetTime \in Nat

VARIABLES
    assetClock,
    activeManifest,      \* the active manifest
    scan,         \* verifiedAssetLoad, NoScan for null
    joined,       \* the requests that await it, in the order they joined
    assetCache,   \* verifiedAssetCache, NoAssets for null
    asker,        \* asker[r]: what the request r is at
    activeSince,  \* activeSince[m]: when m was first active, NotYet before
    activeLast    \* activeLast[m]: when m was last active

assetVars == <<assetClock, activeManifest, scan, joined, assetCache, asker, activeSince,
               activeLast>>
registryView == <<activeManifest, activeSince, activeLast>>

NotYet == MaxAssetTime + 1
NoScan == [step |-> "off"]
NoAssets == [expires |-> 0]
NotAsking == [step |-> "off"]

AssetInit ==
    /\ assetClock = 0
    /\ activeManifest \in Manifests
    /\ scan = NoScan /\ joined = <<>>
    /\ assetCache = NoAssets
    /\ asker = [r \in Askers |-> NotAsking]
    /\ activeSince = [m \in Manifests |-> IF m = activeManifest THEN 0 ELSE NotYet]
    /\ activeLast = [m \in Manifests |-> 0]

-----------------------------------------------------------------------------
AssetTick ==
    /\ assetClock < MaxAssetTime
    /\ assetClock' = assetClock + 1
    /\ activeLast' = [activeLast EXCEPT ![activeManifest] = assetClock']
    /\ UNCHANGED <<activeManifest, scan, joined, assetCache, asker, activeSince>>

ActivateManifest(m) ==
    /\ m # activeManifest
    /\ activeManifest' = m
    /\ activeSince' = [activeSince EXCEPT ![m] = IF @ = NotYet THEN assetClock ELSE @]
    /\ activeLast' = [activeLast EXCEPT ![m] = assetClock]
    /\ UNCHANGED <<assetClock, scan, joined, assetCache, asker>>

(* verifiedAssets: the manifest is read, ...                                *)
AskAssets(r) ==
    /\ asker[r].step = "off"
    /\ asker' = [asker EXCEPT ![r] = [step |-> "read", version |-> activeManifest]]
    /\ UNCHANGED <<assetClock, registryView, scan, joined, assetCache>>

KeptForever(v) ==    \* mutant: the expiry is not looked at
    assetCache # NoAssets /\ assetCache.version = v

StillKept(v) == assetCache.expires > assetClock /\ assetCache.version = v

(* ... and when it is there: the assets that are kept, or the scan that is  *)
(* under way, or a new one.                                                 *)
UseAssets(r) ==
    /\ asker[r].step = "read"
    /\ \/ /\ StillKept(asker[r].version)
          /\ asker' = [asker EXCEPT ![r] = [step |-> "answered", version |-> @.version,
                                            of |-> assetCache.of, at |-> assetClock]]
          /\ UNCHANGED <<scan, joined>>
       \/ /\ ~StillKept(asker[r].version)
          /\ asker' = [asker EXCEPT ![r].step = "waits"]
          /\ joined' = Append(joined, r)
          /\ scan' = IF scan = NoScan THEN [step |-> "manifest", from |-> assetClock]
                     ELSE scan
    /\ UNCHANGED <<assetClock, registryView, assetCache>>

(* The scan reads the active manifest, pins a tip and reads the contract.   *)
ReadScanManifest ==
    /\ scan.step = "manifest"
    /\ scan' = [step |-> "contract", from |-> scan.from, under |-> activeManifest]
    /\ UNCHANGED <<assetClock, registryView, joined, assetCache, asker>>

Resume(answer(_)) ==
    /\ asker' = [r \in Askers |-> IF asker[r].step = "waits" THEN answer(r) ELSE asker[r]]
    /\ scan' = NoScan /\ joined' = <<>>

(* It is done: the requests go on one after the other, in one turn of the   *)
(* event loop, each keeping the assets under the version it has read.       *)
ScanLands ==
    /\ scan.step = "contract"
    /\ LET found == [under |-> scan.under, from |-> scan.from, to |-> assetClock]
       IN /\ Resume(LAMBDA r : [step |-> "answered", version |-> asker[r].version,
                                of |-> found, at |-> assetClock])
          /\ assetCache' = [version |-> asker[joined[Len(joined)]].version,
                            expires |-> assetClock + AssetLife, of |-> found]
    /\ UNCHANGED <<assetClock, registryView>>

(* A read fails: every request is answered the static definitions alone.    *)
ScanFails ==
    /\ scan # NoScan
    /\ Resume(LAMBDA r : [step |-> "static", version |-> asker[r].version])
    /\ UNCHANGED <<assetClock, registryView, assetCache>>

AssetsUsed(r) ==
    /\ asker[r].step \in {"answered", "static"}
    /\ asker' = [asker EXCEPT ![r] = NotAsking]
    /\ UNCHANGED <<assetClock, registryView, scan, joined, assetCache>>

AssetNext ==
    \/ AssetTick \/ \E m \in Manifests : ActivateManifest(m)
    \/ \E r \in Askers : AskAssets(r) \/ UseAssets(r) \/ AssetsUsed(r)
    \/ ReadScanManifest \/ ScanLands \/ ScanFails

AssetSpec == AssetInit /\ [][AssetNext]_assetVars

-----------------------------------------------------------------------------
(* verifiedAssetCache: identities of assets come from the contract under a  *)
(* manifest that was active while they were scanned, less than 60 s ago.    *)
(* They are of another manifest than the definitions they are served with   *)
(* only if that one, too, was active before the scan ended: a manifest that *)
(* is activated later is never answered with what an older one approved.    *)
MixedOnlyByRace ==
    \A r \in Askers : asker[r].step = "answered" =>
      LET q == asker[r]
      IN /\ activeLast[q.of.under] >= q.of.from /\ q.at < q.of.to + AssetLife
         /\ q.of.under # q.version => activeSince[q.version] <= q.of.to
===========================================================================
