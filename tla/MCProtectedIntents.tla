------------------------ MODULE MCProtectedIntents ------------------------
(* Instances of ProtectedIntents for TLC.                                   *)
EXTENDS ProtectedIntents, TLC

CONSTANTS i1, i2, t1, t2, h1, h2    \* intents, transactions, handlers

Symmetry == Permutations(Intents) \cup Permutations(Txids) \cup Permutations(Handlers)
===========================================================================
