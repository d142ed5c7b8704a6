----------------------- MODULE MCRegistryActivation -----------------------
(* Instances of RegistryActivation for TLC: three versions, the first of    *)
(* which was signed twice with different content.                           *)
EXTENDS RegistryActivation, TLC

CONSTANTS v1, v2, v3, m1, n1, m2, m3    \* versions and manifests
CONSTANTS p1, p2, p3                    \* connections

MCVersion == [m \in Manifests |-> CASE m \in {m1, n1} -> v1
                                    [] m = m2 -> v2 [] m = m3 -> v3]

Symmetry == Permutations(Activators)
===========================================================================
