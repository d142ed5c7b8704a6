------------------------ MODULE MCCommercialLimits ------------------------
(* Instances of CommercialLimits for TLC.                                   *)
EXTENDS CommercialLimits, TLC

CONSTANTS k1, k2, k3, q1, q2    \* key and rule ids
CONSTANTS c1, c2, r1, r2        \* handlers

(* A small plan and a larger one, in the proportions of "free" (1 key, 1    *)
(* rule) and "pro", "developer" (5 keys, 10 rules, a larger quota).         *)
MCKeyLimit == [p \in Plans |-> IF p = "free" THEN 1 ELSE 2]
MCRuleLimit == [p \in Plans |-> 1]
MCQuota == [p \in Plans |-> IF p = "free" THEN 1 ELSE 2]

Symmetry == Permutations(Keys) \cup Permutations(Creators)

(* Key ids are alike, so it is enough to see them drawn in one order.       *)
DrawnInOrder ==
    /\ status[k2] # "absent" => status[k1] # "absent"
    /\ status[k3] # "absent" => status[k2] # "absent"

Zero == [k \in Keys |-> [m \in Months |-> 0]]

(* Creations and the meter meet in the keys only.  A behaviour overlaps     *)
(* creations, of keys or of rules, before anything is metered, or meters    *)
(* what one handler has created: two keys within a month, or one from a     *)
(* month to the next, with three requests in all.                           *)
OverlappingCreations ==
    /\ month = 0 /\ usage = Zero /\ \A r \in Requests : request[r] = Idle
    /\ rules = {} \/ status[k2] = "absent"
Metering ==
    /\ rules = {} /\ month + Cardinality({k \in Keys : status[k] # "absent"}) <= 2
    /\ Cardinality({x \in Keys \X Months \X (1..MaxUsage) : x[3] <= usage[x[1]][x[2]]}) <= 3
    /\ \A c \in Creators \ {c1} : creation[c] = "off" /\ read[c] = None
OneConcern == DrawnInOrder /\ (OverlappingCreations \/ Metering)
===========================================================================
