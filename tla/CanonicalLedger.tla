-------------------------- MODULE CanonicalLedger --------------------------
(***************************************************************************)
(* What the canonical event store promises its readers: a ledger in which  *)
(* each delivery takes effect once, whole and at one instant, and each     *)
(* position snapshot belongs to a block that is canonical at the instant   *)
(* it is saved.  (docs/data-foundation.md, "Write path" and "Canonical     *)
(* projections and snapshots".)  CanonicalStore implements it statement by *)
(* statement.                                                              *)
(***************************************************************************)
EXTENDS Naturals, Sequences

CONSTANTS Blocks, Height, Deliveries, Key, Rollback, Apply

VARIABLES
    canonical,  \* the canonical blocks
    rows,       \* the blocks whose derived rows are served
    valid,      \* the blocks whose position snapshots are served
    snapped,    \* the blocks a snapshot was ever saved for
    seen        \* the event keys that took effect

ledger == <<canonical, rows, valid, snapped, seen>>

Elements(s) == {s[i] : i \in DOMAIN s}

(* The blocks a delivery takes off the chain: those it rolls back and the   *)
(* rivals, at the same height, of those it applies.                         *)
Displaced(d) ==
    Elements(Rollback[d]) \cup
    {b \in Blocks : \E a \in Elements(Apply[d]) : a # b /\ Height[a] = Height[b]}

(* The blocks it leaves on the chain: of the applied blocks of one height   *)
(* the last.                                                                *)
Installed(d) ==
    {Apply[d][i] : i \in {j \in DOMAIN Apply[d] :
        \A k \in DOMAIN Apply[d] :
            k > j => \/ Height[Apply[d][k]] # Height[Apply[d][j]]
                     \/ Apply[d][k] = Apply[d][j]}}

Init == canonical = {} /\ rows = {} /\ valid = {} /\ snapped = {} /\ seen = {}

Accept(d) ==
    /\ Key[d] \notin seen
    /\ seen' = seen \cup {Key[d]}
    /\ canonical' = (canonical \ Displaced(d)) \cup Installed(d)
    /\ rows' = (rows \ Displaced(d)) \cup Installed(d)
    /\ valid' = valid \ Displaced(d)
    /\ UNCHANGED snapped

SaveSnapshot(b) ==
    /\ b \in canonical \ snapped
    /\ snapped' = snapped \cup {b}
    /\ valid' = valid \cup {b}
    /\ UNCHANGED <<canonical, rows, seen>>

Next == (\E d \in Deliveries : Accept(d)) \/ (\E b \in Blocks : SaveSnapshot(b))

Spec == Init /\ [][Next]_ledger
=============================================================================
