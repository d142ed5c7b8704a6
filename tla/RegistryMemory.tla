-------------------------- MODULE RegistryMemory --------------------------
(***************************************************************************)
(* The registry of one network as MemoryRegistryStore keeps it             *)
(* (packages/data-foundation/src/registry-store.ts): an activation is one  *)
(* step.  A manifest is its content digest; it belongs to one version.     *)
(* PostgresRegistryStore implements this, statement by statement           *)
(* (RegistryActivation).                                                   *)
(***************************************************************************)
CONSTANTS Versions, Manifests, Version, NoManifest, NoVersion

VARIABLES
    versions,   \* versions[v]: the manifest activated as version v
    registry    \* the version registries.get(network) holds

Init ==
    /\ versions = [v \in Versions |-> NoManifest]
    /\ registry = NoVersion

(* activate(): a version keeps the content it was first activated with.     *)
Activate(m) ==
    /\ versions[Version[m]] \in {NoManifest, m}
    /\ versions' = [versions EXCEPT ![Version[m]] = m]
    /\ registry' = Version[m]

Next == \E m \in Manifests : Activate(m)

Spec == Init /\ [][Next]_<<versions, registry>>
===========================================================================
