------------------------- MODULE MCCanonicalStore -------------------------
(* Instances of CanonicalStore for TLC: a chain that forks at height 1, and *)
(* grows to height 2 on its first branch.                                   *)
EXTENDS CanonicalStore, TLC

CONSTANTS a1, b1, a2,         \* blocks: two forks of height 1, a child of a1
          i1, i2, s1, s2      \* connections

MCHeight == [b \in Blocks |-> IF b = a2 THEN 2 ELSE 1]

(* The deliveries of the chain follower (keys "hook"), of a backfill, and   *)
(* one that comes under a delivery id used before.                          *)
Batch(key, sha, rollback, apply, before) ==
    [key |-> key, sha |-> sha, rollback |-> rollback, apply |-> apply,
     before |-> before]

Batches ==
    [ extend |-> Batch("hook-1", "sha-1", <<>>, <<a1>>, {}),
      reorg  |-> Batch("hook-2", "sha-2", <<a1>>, <<b1>>, {"extend"}),
      back   |-> Batch("hook-3", "sha-3", <<b1>>, <<a1, a2>>, {"reorg"}),
      retract |-> Batch("hook-4", "sha-4", <<a2, a1>>, <<b1>>, {"extend", "grow"}),
      grow   |-> Batch("hook-5", "sha-5", <<>>, <<a2>>, {"extend"}),
      undo   |-> Batch("hook-6", "sha-6", <<a2, a1>>, <<b1>>, {"back"}),
      refill |-> Batch("backfill-1", "sha-8", <<>>, <<a1, a2>>, {}),
      reused |-> Batch("hook-1", "sha-9", <<>>, <<b1>>, {}) ]

MCKey == [d \in Deliveries |-> Batches[d].key]
MCSha == [d \in Deliveries |-> Batches[d].sha]
MCRollback == [d \in Deliveries |-> Batches[d].rollback]
MCApply == [d \in Deliveries |-> Batches[d].apply]
MCBefore == [d \in Deliveries |-> Batches[d].before \cap Deliveries]

AllDeliveries == {"extend", "reorg", "back", "undo", "refill", "reused"}
HookDeliveries == {"extend", "reorg", "back"}
RetractDeliveries == {"extend", "grow", "retract"}

Symmetry == Permutations(Ingesters) \cup Permutations(Savers)
===========================================================================
