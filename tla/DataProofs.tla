----------------------------- MODULE DataProofs ----------------------------
(***************************************************************************)
(* Proofs about data that is worked through element by element: the blocks *)
(* the memory store orphans and the events it applies, the table of the    *)
(* rate limiter, and the decisions of the risk engine, of the sBTC          *)
(* reconciliation, of the adapters that read positions, of the projection  *)
(* of events, and of prices and values.                                    *)
(*                                                                         *)
(* FoldLeft is a recursion of the library.  The first section shows, by    *)
(* induction over a set of numbers, that a fold is the last of a run of    *)
(* results, one for each element; the others prove what such a run keeps.  *)
(***************************************************************************)
EXTENDS MCDecisions, MemoryStore, AnonymousRate, WellFoundedInduction,
        FiniteSetTheorems, SequenceTheorems, TLAPS

-----------------------------------------------------------------------------
LEMMA LeastNatural ==
  ASSUME NEW S, S \subseteq Nat, S # {}
  PROVE  \E n \in S : \A m \in S : n <= m
  <1> DEFINE R == OpToRel(<, Nat)
  <1>1. IsWellFoundedOn(R, Nat)
        BY NatLessThanWellFounded
  <1>2. PICK n \in S : \A m \in S : ~(<<m, n>> \in R)
        <2> HIDE DEF R
        <2> QED BY <1>1, WFMin
  <1>3. \A m \in S : ~(m < n)
        BY <1>2 DEF OpToRel
  <1> QED
      BY <1>3

LEMMA NatSetInduction ==
  ASSUME NEW S, 0 \in S, \A n \in Nat : n \in S => n + 1 \in S
  PROVE  Nat \subseteq S
  <1> SUFFICES ASSUME Nat \ S # {} PROVE FALSE
      OBVIOUS
  <1>1. PICK n \in Nat \ S : \A m \in Nat \ S : n <= m
        BY LeastNatural
  <1>2. n - 1 \in Nat /\ n - 1 \notin Nat \ S
        BY <1>1
  <1> QED
      BY <1>1, <1>2

(* A recursion that takes one element after the other out of a finite set   *)
(* defines a function.                                                      *)
Picks(pick, S) == \A s \in SUBSET S : s # {} => pick[s] \in s
FoldedBy(g, S, base, step, pick) ==
    \A s \in SUBSET S :
       g[s] = IF s = {} THEN base ELSE step[<<pick[s], g[s \ {pick[s]}]>>]

LEMMA FoldExists ==
  ASSUME NEW S, IsFiniteSet(S), NEW V, NEW base \in V, NEW step \in [S \X V -> V],
         NEW pick, Picks(pick, S)
  PROVE  \E g \in [SUBSET S -> V] : FoldedBy(g, S, base, step, pick)
  <1> USE DEF Picks, FoldedBy
  <1> DEFINE Right(g, s) ==
               g[s] = IF s = {} THEN base ELSE step[<<pick[s], g[s \ {pick[s]}]>>]
             UpTo == {n \in Nat : \E g \in [SUBSET S -> V] :
                        \A s \in SUBSET S : Cardinality(s) <= n => Right(g, s)}
  <1>1. \A s \in SUBSET S : IsFiniteSet(s) /\ Cardinality(s) \in Nat
        BY FS_Subset, FS_CardinalityType
  <1>2. 0 \in UpTo
    <2> DEFINE g == [s \in SUBSET S |-> base]
    <2>1. \A s \in SUBSET S : Cardinality(s) <= 0 => s = {}
          BY <1>1, FS_EmptySet
    <2>2. \A s \in SUBSET S : Cardinality(s) <= 0 => Right(g, s)
          BY <2>1
    <2> HIDE DEF Right
    <2> QED
        BY <2>2
  <1>3. ASSUME NEW n \in Nat, n \in UpTo PROVE n + 1 \in UpTo
    <2>1. PICK g \in [SUBSET S -> V] :
            \A s \in SUBSET S : Cardinality(s) <= n => Right(g, s)
          BY <1>3
    <2> DEFINE h == [s \in SUBSET S |->
                       IF Cardinality(s) <= n \/ s = {} THEN g[s]
                       ELSE step[<<pick[s], g[s \ {pick[s]}]>>]]
    <2>2. h \in [SUBSET S -> V]
          BY <1>1
    <2>3. \A s \in SUBSET S : Cardinality(s) <= n => h[s] = g[s]
          OBVIOUS
    <2>4. ASSUME NEW s \in SUBSET S, s # {}, Cardinality(s) <= n + 1
          PROVE  s \ {pick[s]} \in SUBSET S /\ Cardinality(s \ {pick[s]}) <= n
      <3>1. Cardinality(s \ {pick[s]}) = Cardinality(s) - 1
            BY <2>4, <1>1, FS_RemoveElement, SMTT(30)
      <3> QED
          BY <2>4, <1>1, <3>1
    <2>5. ASSUME NEW s \in SUBSET S, Cardinality(s) <= n + 1 PROVE Right(h, s)
      <3>1. CASE s = {}
        <4>1. Cardinality(s) <= n
              BY <3>1, FS_EmptySet
        <4> QED
            BY <3>1, <4>1, <2>1, <2>3
      <3>2. CASE s # {}
        <4>1. h[s \ {pick[s]}] = g[s \ {pick[s]}]
              BY <3>2, <2>3, <2>4, <2>5
        <4>2. h[s] = step[<<pick[s], g[s \ {pick[s]}]>>]
              BY <3>2, <2>1
        <4> QED
            BY <3>2, <4>1, <4>2
      <3> QED
          BY <3>1, <3>2
    <2> HIDE DEF Right, h
    <2> QED
        BY <2>2, <2>5
  <1>4. Cardinality(S) \in UpTo
    <2> HIDE DEF UpTo
    <2> QED
        BY <1>1, <1>2, <1>3, NatSetInduction
  <1>5. PICK g \in [SUBSET S -> V] :
            \A s \in SUBSET S : Cardinality(s) <= Cardinality(S) => Right(g, s)
        BY <1>4
  <1>6. \A s \in SUBSET S : Cardinality(s) <= Cardinality(S)
        BY FS_Subset
  <1> QED
      BY <1>5, <1>6

LEMMA LastOfInterval ==
  ASSUME NEW k \in Nat \ {0}
  PROVE  Max(1..k) = k
  <1>1. k \in 1..k /\ \A y \in 1..k : k >= y
        OBVIOUS
  <1>2. \A x \in 1..k : (\A y \in 1..k : x >= y) => x = k
        OBVIOUS
  <1> QED
      BY <1>1, <1>2 DEF Max

(* A finite set of natural numbers has a bound: by induction over its size. *)
LEMMA BoundedFinite ==
  ASSUME NEW S, S \subseteq Nat, IsFiniteSet(S)
  PROVE  \E n \in Nat : \A x \in S : x <= n
  <1> DEFINE Sizes == {k \in Nat : \A T \in SUBSET S :
                         Cardinality(T) = k => \E n \in Nat : \A x \in T : x <= n}
  <1>1. \A T \in SUBSET S : IsFiniteSet(T) /\ Cardinality(T) \in Nat
        BY FS_Subset, FS_CardinalityType
  <1>2. 0 \in Sizes
    <2>1. \A T \in SUBSET S : Cardinality(T) = 0 => T = {}
          BY <1>1, FS_EmptySet
    <2>2. 0 \in Nat /\ \A x \in {} : x <= 0
          OBVIOUS
    <2> QED
        BY <2>1, <2>2
  <1>3. ASSUME NEW k \in Nat, k \in Sizes PROVE k + 1 \in Sizes
    <2>1. ASSUME NEW T \in SUBSET S, Cardinality(T) = k + 1
          PROVE  \E n \in Nat : \A x \in T : x <= n
      <3>1. IsFiniteSet(T) /\ T # {}
            BY <1>1, <2>1, FS_EmptySet
      <3>2. PICK y \in T : TRUE
            BY <3>1
      <3>3. Cardinality(T \ {y}) = k
        <4> HIDE DEF Sizes
        <4>1. Cardinality(T \ {y}) = Cardinality(T) - 1
              BY <3>1, <3>2, FS_RemoveElement
        <4> QED
            BY <2>1, <4>1
      <3>4. T \ {y} \in SUBSET S
            OBVIOUS
      <3>5. PICK n \in Nat : \A x \in T \ {y} : x <= n
            BY <3>3, <3>4, <1>3
      <3>6. y \in Nat /\ \A x \in T : x \in Nat
            OBVIOUS
      <3>7. n + y \in Nat /\ \A x \in T : x <= n + y
            BY <3>5, <3>6
      <3> QED
          BY <3>7
    <2>2. k + 1 \in Nat
          OBVIOUS
    <2> QED
        BY <2>1, <2>2
  <1>4. Cardinality(S) \in Sizes
    <2> HIDE DEF Sizes
    <2> QED
        BY <1>1, <1>2, <1>3, NatSetInduction
  <1> QED
      BY <1>4

LEMMA GreatestOfFinite ==
  ASSUME NEW S, S \subseteq Nat, IsFiniteSet(S), S # {}
  PROVE  Max(S) \in S /\ \A x \in S : x <= Max(S)
  <1> DEFINE Above == {n \in Nat : \A x \in S : x <= n}
  <1>1. Above # {}
    <2>1. PICK n \in Nat : \A x \in S : x <= n
          BY BoundedFinite
    <2> QED
        BY <2>1
  <1>2. PICK n \in Above : \A m \in Above : n <= m
        BY <1>1, LeastNatural
  <1>3. n \in S
    <2> SUFFICES ASSUME n \notin S PROVE FALSE
        OBVIOUS
    <2>1. \A x \in S : x <= n - 1
          BY <1>2
    <2>2. PICK x \in S : TRUE
          OBVIOUS
    <2>3. n - 1 \in Above
          BY <2>1, <2>2, <1>2
    <2> QED
        BY <2>3, <1>2
  <1>4. \A y \in S : n >= y
        BY <1>2
  <1> QED
      BY <1>3, <1>4 DEF Max

-----------------------------------------------------------------------------
(* FoldLeft works along a sequence: what it returns is the last of a run of *)
(* intermediate results.  The library defines it by a recursion over the    *)
(* sets of positions that takes the greatest off each time; that such a     *)
(* function exists is FoldExists, and this lemma reads the run off it.      *)
Latest(n) == [t \in SUBSET (1..n) |-> Max(t)]

LEMMA AllButLast ==
  ASSUME NEW k \in Nat \ {0}
  PROVE  1..k # {} /\ (1..k) \ {k} = 1..(k - 1)
  OBVIOUS

FoldedOver(g, n, base, step) == \A t \in SUBSET (1..n) :
    g[t] = IF t = {} THEN base ELSE step[<<Max(t), g[t \ {Max(t)}]>>]
StepsIn(iter, n, V, base, step) ==
    /\ iter[1..0] = base
    /\ \A k \in 1..n :
         iter[1..(k - 1)] \in V => iter[1..k] = step[<<k, iter[1..(k - 1)]>>]
RunsFrom(r, n, V, base, step) ==
    /\ r \in [0..n -> V] /\ r[0] = base
    /\ \A k \in 1..n : r[k] = step[<<k, r[k - 1]>>]
StepsOn(step, n, V) == step \in [(1..n) \X V -> V]

LEMMA FoldsOverPositions ==
  ASSUME NEW n \in Nat, NEW V, NEW base \in V, NEW step, StepsOn(step, n, V)
  PROVE  \E g \in [SUBSET (1..n) -> V] : FoldedOver(g, n, base, step)
  <1> USE DEF StepsOn
  <1> DEFINE D == 1..n
             pick == [t \in SUBSET D |-> Max(t)]
  <1>1. D \subseteq Nat /\ IsFiniteSet(D)
        BY FS_Interval
  <1>2. \A t \in SUBSET D : IsFiniteSet(t) /\ t \subseteq Nat
    <2> HIDE DEF D
    <2> QED
        BY <1>1, FS_Subset
  <1>3. Picks(pick, D)
        BY <1>2, GreatestOfFinite DEF Picks
  <1>4. \E g \in [SUBSET D -> V] : FoldedBy(g, D, base, step, pick)
    <2> HIDE DEF pick, D
    <2> SUFFICES step \in [D \X V -> V]
        BY <1>1, <1>3, FoldExists
    <2> QED
        BY DEF D
  <1>5. PICK g \in [SUBSET D -> V] : FoldedBy(g, D, base, step, pick)
        BY <1>4
  <1>6. \A t \in SUBSET D :
            g[t] = IF t = {} THEN base ELSE step[<<Max(t), g[t \ {Max(t)}]>>]
        BY <1>5 DEF FoldedBy
  <1> QED
      BY <1>6 DEF FoldedOver

LEMMA RunOfFold ==
  ASSUME NEW n \in Nat, NEW V, NEW base \in V, NEW step, StepsOn(step, n, V),
         NEW iter, StepsIn(iter, n, V, base, step)
  PROVE  \E r : RunsFrom(r, n, V, base, step) /\ r[n] = iter[1..n]
  <1> USE DEF StepsIn, StepsOn
  <1> DEFINE Typed == {k \in Nat : k <= n => iter[1..k] \in V}
  <1>1. 0 \in Typed
        OBVIOUS
  <1>2. ASSUME NEW k \in Nat, k \in Typed PROVE k + 1 \in Typed
    <2> SUFFICES ASSUME k + 1 <= n PROVE iter[1..(k + 1)] \in V
        OBVIOUS
    <2>1. k + 1 \in 1..n /\ (k + 1) - 1 = k /\ iter[1..k] \in V
          BY <1>2
    <2>2. iter[1..(k + 1)] = step[<<k + 1, iter[1..k]>>]
          BY <2>1
    <2> QED
        BY <2>1, <2>2
  <1>3. Nat \subseteq Typed
    <2> HIDE DEF Typed
    <2> QED
        BY <1>1, <1>2, NatSetInduction
  <1>4. \A k \in 0..n : k \in Nat /\ k <= n
        OBVIOUS
  <1>5. \A k \in 0..n : iter[1..k] \in V
        BY <1>3, <1>4
  <1>6. \A k \in 1..n : k - 1 \in 0..n
        OBVIOUS
  <1> DEFINE r == [k \in 0..n |-> iter[1..k]]
  <1>7. r \in [0..n -> V] /\ r[0] = base /\ r[n] = iter[1..n]
        BY <1>5
  <1>8. \A k \in 1..n : r[k] = step[<<k, r[k - 1]>>]
        BY <1>5, <1>6
  <1> HIDE DEF r
  <1> QED
      BY <1>7, <1>8 DEF RunsFrom

-----------------------------------------------------------------------------
(* MemoryStore.  A block without a record has no row and no snapshot that   *)
(* counts: the tables of the store are filled together.                     *)
Flags == {"absent", "canonical", "orphaned"}
Tables == [blocks : [MemBlocks -> Flags], rows : [MemBlocks -> Flags],
           snapshots : [MemBlocks -> Flags]]
Rooted(s) == \A b \in MemBlocks :
    s.blocks[b] = "absent" => s.rows[b] # "canonical" /\ s.snapshots[b] # "canonical"
RootedTables == {s \in Tables : Rooted(s)}

LEMMA OrphanType ==
  ASSUME NEW s \in RootedTables, NEW b \in MemBlocks
  PROVE  OrphanBlock(s, b) \in RootedTables
  <1>1. OrphanBlock(s, b) \in Tables
        BY DEF OrphanBlock, Orphan, RootedTables, Tables, Flags
  <1>2. Rooted(OrphanBlock(s, b))
        BY DEF OrphanBlock, Orphan, RootedTables, Rooted, Tables, Flags
  <1> QED
      BY <1>1, <1>2 DEF RootedTables

LEMMA OrphanRuns ==
  ASSUME NEW s \in RootedTables, NEW seq \in Seq(MemBlocks)
  PROVE  \E r \in [0..Len(seq) -> RootedTables] :
           /\ r[0] = s /\ FoldLeft(OrphanBlock, s, seq) = r[Len(seq)]
           /\ \A k \in 1..Len(seq) : r[k] = OrphanBlock(r[k - 1], seq[k])
  <1> DEFINE D == DOMAIN seq
             iter[t \in SUBSET D] ==
                IF t = {} THEN s
                ELSE LET x == Max(t) IN OrphanBlock(iter[t \ {x}], seq[x])
             step == [q \in (1..Len(seq)) \X RootedTables |-> OrphanBlock(q[2], seq[q[1]])]
  <1>1. FoldLeft(OrphanBlock, s, seq) = iter[D]
        BY Zenon DEF FoldLeft, MapThenFoldSet
  <1>2. D = 1..Len(seq) /\ Len(seq) \in Nat /\ \A i \in D : seq[i] \in MemBlocks
        BY LenProperties
  <1>3. StepsOn(step, Len(seq), RootedTables)
        BY <1>2, OrphanType DEF StepsOn
  <1>4. iter = [t \in SUBSET D |->
                IF t = {} THEN s
                ELSE LET x == Max(t) IN OrphanBlock(iter[t \ {x}], seq[x])]
    <2>1. PICK g \in [SUBSET D -> RootedTables] : \A t \in SUBSET D :
            g[t] = IF t = {} THEN s ELSE step[<<Max(t), g[t \ {Max(t)}]>>]
      <3> HIDE DEF step, iter
      <3>1. PICK g \in [SUBSET (1..Len(seq)) -> RootedTables] :
                FoldedOver(g, Len(seq), s, step)
            BY <1>2, <1>3, FoldsOverPositions
      <3> HIDE DEF D
      <3> QED
          BY <1>2, <3>1 DEF FoldedOver
    <2>2. \A t \in SUBSET D : t # {} => Max(t) \in D
      <3> HIDE DEF step, iter
      <3>1. IsFiniteSet(D) /\ D \subseteq Nat
            BY <1>2, FS_Interval
      <3> HIDE DEF D
      <3> QED
          BY <3>1, FS_Subset, GreatestOfFinite
    <2>3. \A t \in SUBSET D : t # {} =>
            step[<<Max(t), g[t \ {Max(t)}]>>] = OrphanBlock(g[t \ {Max(t)}], seq[Max(t)])
          BY <1>2, <2>1, <2>2
    <2>4. g = [t \in SUBSET D |->
                IF t = {} THEN s
                ELSE LET x == Max(t) IN OrphanBlock(g[t \ {x}], seq[x])]
      <3> HIDE DEF step
      <3> QED
          BY <2>1, <2>3
    <2> QED
        BY <2>4
  <1> HIDE DEF iter
  <1>5. iter[1..0] = s
        BY <1>4
  <1>6. ASSUME NEW k \in 1..Len(seq), iter[1..(k - 1)] \in RootedTables
        PROVE  /\ iter[1..k] = OrphanBlock(iter[1..(k - 1)], seq[k])
               /\ iter[1..k] = step[<<k, iter[1..(k - 1)]>>]
    <2>1. k \in Nat \ {0} /\ k <= Len(seq)
          BY <1>2
    <2>2. 1..k \in SUBSET D
          BY <1>2, <2>1
    <2>3. 1..k # {} /\ (1..k) \ {k} = 1..(k - 1)
          BY <2>1, AllButLast
    <2>4. Max(1..k) = k
          BY <2>1, LastOfInterval
    <2>5. iter[1..k] = OrphanBlock(iter[1..(k - 1)], seq[k])
          BY <1>4, <2>2, <2>3, <2>4
    <2> QED
        BY <1>6, <2>5
  <1>7. StepsIn(iter, Len(seq), RootedTables, s, step)
    <2> HIDE DEF step
    <2> QED
        BY <1>5, <1>6 DEF StepsIn
  <1>8. PICK r : RunsFrom(r, Len(seq), RootedTables, s, step) /\ r[Len(seq)] = iter[1..Len(seq)]
    <2> HIDE DEF step, D
    <2> QED
        BY <1>2, <1>3, <1>7, RunOfFold
  <1>9. \A k \in 1..Len(seq) : k - 1 \in 0..Len(seq)
        BY <1>2
  <1>10. r \in [0..Len(seq) -> RootedTables] /\ r[0] = s
         BY <1>8 DEF RunsFrom
  <1>11. \A k \in 1..Len(seq) : r[k] = OrphanBlock(r[k - 1], seq[k])
         BY <1>8, <1>9, <1>10 DEF RunsFrom
  <1> HIDE DEF step
  <1> QED
      BY <1>1, <1>2, <1>8, <1>10, <1>11

(* The blocks of a set are taken off the chain.                             *)
TakenOff(flags, X) ==
    [b \in MemBlocks |-> IF b \in X THEN (IF flags[b] = "canonical" THEN "orphaned" ELSE flags[b])
                         ELSE flags[b]]
OffChain(s, X) ==
    [blocks |-> TakenOff(s.blocks, X), rows |-> TakenOff(s.rows, X),
     snapshots |-> TakenOff(s.snapshots, X)]
Entries(seq) == {seq[i] : i \in DOMAIN seq}

LEMMA OffChainType ==
  ASSUME NEW s \in RootedTables, NEW X
  PROVE  OffChain(s, X) \in RootedTables
  <1>1. OffChain(s, X) \in Tables
        BY DEF OffChain, TakenOff, RootedTables, Tables, Flags
  <1>2. Rooted(OffChain(s, X))
        BY DEF OffChain, TakenOff, RootedTables, Rooted, Tables, Flags
  <1> QED
      BY <1>1, <1>2 DEF RootedTables

LEMMA OffChainNone ==
  ASSUME NEW s \in RootedTables
  PROVE  OffChain(s, {}) = s
  <1>1. \A f \in [MemBlocks -> Flags] : TakenOff(f, {}) = f
        BY DEF TakenOff
  <1> QED
      BY <1>1 DEF OffChain, RootedTables, Tables

LEMMA OffChainOneMore ==
  ASSUME NEW s \in RootedTables, NEW X, NEW b \in MemBlocks
  PROVE  OrphanBlock(OffChain(s, X), b) = OffChain(s, X \cup {b})
  <1>1. ASSUME NEW f \in [MemBlocks -> Flags]
        PROVE  Orphan(TakenOff(f, X), b) = TakenOff(f, X \cup {b})
        BY DEF Orphan, TakenOff, Flags
  <1> QED
      BY <1>1 DEF OffChain, OrphanBlock, RootedTables, Tables

(* Taking blocks off one after the other takes off the set of them.         *)
LEMMA OrphansAll ==
  ASSUME NEW s \in RootedTables, NEW seq \in Seq(MemBlocks)
  PROVE  FoldLeft(OrphanBlock, s, seq) = OffChain(s, Entries(seq))
  <1>1. PICK r \in [0..Len(seq) -> RootedTables] :
           /\ r[0] = s /\ FoldLeft(OrphanBlock, s, seq) = r[Len(seq)]
           /\ \A k \in 1..Len(seq) : r[k] = OrphanBlock(r[k - 1], seq[k])
        BY OrphanRuns
  <1>2. Len(seq) \in Nat /\ DOMAIN seq = 1..Len(seq) /\ \A k \in 1..Len(seq) : seq[k] \in MemBlocks
        BY LenProperties
  <1> DEFINE First(k) == {seq[i] : i \in 1..k}
             Good == {k \in Nat : k <= Len(seq) => r[k] = OffChain(s, First(k))}
  <1>3. 0 \in Good
    <2>1. First(0) = {}
          OBVIOUS
    <2> HIDE DEF First
    <2> QED
        BY <1>1, <2>1, OffChainNone
  <1>4. ASSUME NEW k \in Nat, k \in Good PROVE k + 1 \in Good
    <2> SUFFICES ASSUME k + 1 <= Len(seq) PROVE r[k + 1] = OffChain(s, First(k + 1))
        OBVIOUS
    <2>1. k + 1 \in 1..Len(seq) /\ (k + 1) - 1 = k /\ k <= Len(seq)
          BY <1>2
    <2>2. First(k + 1) = First(k) \cup {seq[k + 1]}
      <3>1. 1..(k + 1) = (1..k) \cup {k + 1}
            OBVIOUS
      <3> QED
          BY <3>1
    <2> HIDE DEF First
    <2>3. r[k] = OffChain(s, First(k)) /\ r[k + 1] = OrphanBlock(r[k], seq[k + 1])
          BY <1>1, <1>4, <2>1
    <2>4. seq[k + 1] \in MemBlocks
          BY <1>2, <2>1
    <2> QED
        BY <2>2, <2>3, <2>4, OffChainOneMore
  <1>5. Len(seq) \in Good
    <2> HIDE DEF Good
    <2> QED
        BY <1>2, <1>3, <1>4, NatSetInduction
  <1>6. First(Len(seq)) = Entries(seq)
        BY <1>2 DEF Entries
  <1> HIDE DEF First
  <1> QED
      BY <1>1, <1>2, <1>5, <1>6

(* SetToSeq lists the elements of a finite set.                             *)
LEMMA SetsAreListed ==
  ASSUME NEW T, IsFiniteSet(T)
  PROVE  SetToSeq(T) \in Seq(T) /\ Entries(SetToSeq(T)) = T
  <1> DEFINE n == Cardinality(T)
             f == SetToSeq(T)
  <1>1. n \in Nat /\ ExistsBijection(1..n, T)
        BY FS_CardinalityType
  <1>2. \E h \in [1..n -> T] : IsInjective(h)
        BY <1>1 DEF ExistsBijection, Bijection, Injection, IsInjective
  <1>3. f \in [1..n -> T] /\ IsInjective(f)
        BY <1>2 DEF SetToSeq
  <1>4. IsFiniteSet(1..n) /\ Cardinality(1..n) = n
        BY <1>1, FS_Interval
  <1> HIDE DEF f, n
  <1>5. f \in Injection(1..n, T)
        BY <1>3 DEF Injection
  <1>6. Cardinality(1..n) = Cardinality(T)
        BY <1>4 DEF n
  <1>7. f \in Surjection(1..n, T)
        BY <1>5, <1>6, FS_Injection
  <1>8. \A t \in T : \E i \in 1..n : f[i] = t
        BY <1>7 DEF Surjection
  <1>9. Entries(f) = T
        BY <1>3, <1>8 DEF Entries
  <1>10. f \in Seq(T)
         BY <1>1, <1>3
  <1> QED
      BY <1>9, <1>10 DEF f

-----------------------------------------------------------------------------
(* The blocks of one table that are canonical, and the blocks at the height *)
(* of another.                                                              *)
Canon(flags) == {b \in MemBlocks : flags[b] = "canonical"}
SameHeight(b) == {c \in MemBlocks \ {b} : MemHeight[c] = MemHeight[b]}

LEMMA CanonOffChain ==
  ASSUME NEW f \in [MemBlocks -> Flags], NEW X
  PROVE  Canon(TakenOff(f, X)) = Canon(f) \ X
  BY DEF Canon, TakenOff, Flags

LEMMA ApplyIs ==
  ASSUME NEW s \in RootedTables, NEW b \in MemBlocks
  PROVE  LET bare == OffChain(s, Rivals(s, b))
         IN  ApplyBlock(s, b) =
               [blocks |-> [bare.blocks EXCEPT ![b] = "canonical"],
                rows |-> [bare.rows EXCEPT ![b] = "canonical"], snapshots |-> bare.snapshots]
  <1>1. Rivals(s, b) \subseteq MemBlocks /\ IsFiniteSet(Rivals(s, b))
        BY MemoryAssumption, FS_Subset DEF Rivals
  <1>2. /\ SetToSeq(Rivals(s, b)) \in Seq(Rivals(s, b))
        /\ Entries(SetToSeq(Rivals(s, b))) = Rivals(s, b)
        BY <1>1, SetsAreListed
  <1>3. SetToSeq(Rivals(s, b)) \in Seq(MemBlocks)
        BY <1>1, <1>2
  <1>4. FoldLeft(OrphanBlock, s, SetToSeq(Rivals(s, b))) = OffChain(s, Rivals(s, b))
        BY <1>2, <1>3, OrphansAll
  <1> DEFINE bare == OffChain(s, Rivals(s, b))
  <1>5. ApplyBlock(s, b) = [bare EXCEPT !.blocks[b] = "canonical", !.rows[b] = "canonical"]
        BY <1>4 DEF ApplyBlock
  <1>6. bare = [blocks |-> bare.blocks, rows |-> bare.rows, snapshots |-> bare.snapshots]
        BY DEF OffChain
  <1> HIDE DEF bare
  <1>7. ApplyBlock(s, b) =
               [blocks |-> [bare.blocks EXCEPT ![b] = "canonical"],
                rows |-> [bare.rows EXCEPT ![b] = "canonical"], snapshots |-> bare.snapshots]
        BY <1>5, <1>6
  <1> QED
      BY <1>7 DEF bare

LEMMA ApplyType ==
  ASSUME NEW s \in RootedTables, NEW b \in MemBlocks
  PROVE  ApplyBlock(s, b) \in RootedTables
  <1> DEFINE bare == OffChain(s, Rivals(s, b))
  <1>1. bare \in RootedTables
        BY OffChainType
  <1>2. ApplyBlock(s, b) =
               [blocks |-> [bare.blocks EXCEPT ![b] = "canonical"],
                rows |-> [bare.rows EXCEPT ![b] = "canonical"], snapshots |-> bare.snapshots]
        BY ApplyIs
  <1> HIDE DEF bare
  <1>3. ApplyBlock(s, b) \in Tables
        BY <1>1, <1>2 DEF RootedTables, Tables, Flags
  <1>4. Rooted(ApplyBlock(s, b))
        BY <1>1, <1>2 DEF RootedTables, Tables, Rooted
  <1> QED
      BY <1>3, <1>4 DEF RootedTables

(* One block applied: it is canonical with its rows, no other block of its  *)
(* height is, nor are that block's rows and snapshots.                      *)
LEMMA ApplyEffect ==
  ASSUME NEW s \in RootedTables, NEW b \in MemBlocks, NEW t, t = ApplyBlock(s, b)
  PROVE  /\ Canon(t.blocks) = (Canon(s.blocks) \ SameHeight(b)) \cup {b}
         /\ Canon(t.rows) = (Canon(s.rows) \ SameHeight(b)) \cup {b}
         /\ Canon(t.snapshots) = Canon(s.snapshots) \ SameHeight(b)
  <1> DEFINE R == Rivals(s, b)
  <1>1. /\ t.blocks = [TakenOff(s.blocks, R) EXCEPT ![b] = "canonical"]
        /\ t.rows = [TakenOff(s.rows, R) EXCEPT ![b] = "canonical"]
        /\ t.snapshots = TakenOff(s.snapshots, R)
        BY ApplyIs DEF OffChain
  <1>2. R = {c \in SameHeight(b) : s.blocks[c] # "absent"}
        BY DEF Rivals, SameHeight
  <1> HIDE DEF R
  <1>3. /\ s.blocks \in [MemBlocks -> Flags] /\ s.rows \in [MemBlocks -> Flags]
        /\ s.snapshots \in [MemBlocks -> Flags]
        BY DEF RootedTables, Tables
  <1>4. /\ Canon(s.blocks) \ R = Canon(s.blocks) \ SameHeight(b)
        /\ Canon(s.rows) \ R = Canon(s.rows) \ SameHeight(b)
        /\ Canon(s.snapshots) \ R = Canon(s.snapshots) \ SameHeight(b)
        BY <1>2 DEF Canon, RootedTables, Rooted
  <1>5. \A f \in [MemBlocks -> Flags] :
            Canon([TakenOff(f, R) EXCEPT ![b] = "canonical"]) = Canon(TakenOff(f, R)) \cup {b}
        BY DEF Canon, TakenOff
  <1> QED
      BY <1>1, <1>3, <1>4, <1>5, CanonOffChain

LEMMA ApplyRuns ==
  ASSUME NEW s \in RootedTables, NEW seq \in Seq(MemBlocks)
  PROVE  \E r \in [0..Len(seq) -> RootedTables] :
           /\ r[0] = s /\ FoldLeft(ApplyBlock, s, seq) = r[Len(seq)]
           /\ \A k \in 1..Len(seq) : r[k] = ApplyBlock(r[k - 1], seq[k])
  <1> DEFINE D == DOMAIN seq
             iter[t \in SUBSET D] ==
                IF t = {} THEN s
                ELSE LET x == Max(t) IN ApplyBlock(iter[t \ {x}], seq[x])
             step == [q \in (1..Len(seq)) \X RootedTables |-> ApplyBlock(q[2], seq[q[1]])]
  <1>1. FoldLeft(ApplyBlock, s, seq) = iter[D]
        BY Zenon DEF FoldLeft, MapThenFoldSet
  <1>2. D = 1..Len(seq) /\ Len(seq) \in Nat /\ \A i \in D : seq[i] \in MemBlocks
        BY LenProperties
  <1>3. StepsOn(step, Len(seq), RootedTables)
        BY <1>2, ApplyType DEF StepsOn
  <1>4. iter = [t \in SUBSET D |->
                IF t = {} THEN s
                ELSE LET x == Max(t) IN ApplyBlock(iter[t \ {x}], seq[x])]
    <2>1. PICK g \in [SUBSET D -> RootedTables] : \A t \in SUBSET D :
            g[t] = IF t = {} THEN s ELSE step[<<Max(t), g[t \ {Max(t)}]>>]
      <3> HIDE DEF step, iter
      <3>1. PICK g \in [SUBSET (1..Len(seq)) -> RootedTables] :
                FoldedOver(g, Len(seq), s, step)
            BY <1>2, <1>3, FoldsOverPositions
      <3> HIDE DEF D
      <3> QED
          BY <1>2, <3>1 DEF FoldedOver
    <2>2. \A t \in SUBSET D : t # {} => Max(t) \in D
      <3> HIDE DEF step, iter
      <3>1. IsFiniteSet(D) /\ D \subseteq Nat
            BY <1>2, FS_Interval
      <3> HIDE DEF D
      <3> QED
          BY <3>1, FS_Subset, GreatestOfFinite
    <2>3. \A t \in SUBSET D : t # {} =>
            step[<<Max(t), g[t \ {Max(t)}]>>] = ApplyBlock(g[t \ {Max(t)}], seq[Max(t)])
          BY <1>2, <2>1, <2>2
    <2>4. g = [t \in SUBSET D |->
                IF t = {} THEN s
                ELSE LET x == Max(t) IN ApplyBlock(g[t \ {x}], seq[x])]
      <3> HIDE DEF step
      <3> QED
          BY <2>1, <2>3
    <2> QED
        BY <2>4
  <1> HIDE DEF iter
  <1>5. iter[1..0] = s
        BY <1>4
  <1>6. ASSUME NEW k \in 1..Len(seq), iter[1..(k - 1)] \in RootedTables
        PROVE  /\ iter[1..k] = ApplyBlock(iter[1..(k - 1)], seq[k])
               /\ iter[1..k] = step[<<k, iter[1..(k - 1)]>>]
    <2>1. k \in Nat \ {0} /\ k <= Len(seq)
          BY <1>2
    <2>2. 1..k \in SUBSET D
          BY <1>2, <2>1
    <2>3. 1..k # {} /\ (1..k) \ {k} = 1..(k - 1)
          BY <2>1, AllButLast
    <2>4. Max(1..k) = k
          BY <2>1, LastOfInterval
    <2>5. iter[1..k] = ApplyBlock(iter[1..(k - 1)], seq[k])
          BY <1>4, <2>2, <2>3, <2>4
    <2> QED
        BY <1>6, <2>5
  <1>7. StepsIn(iter, Len(seq), RootedTables, s, step)
    <2> HIDE DEF step
    <2> QED
        BY <1>5, <1>6 DEF StepsIn
  <1>8. PICK r : RunsFrom(r, Len(seq), RootedTables, s, step) /\ r[Len(seq)] = iter[1..Len(seq)]
    <2> HIDE DEF step, D
    <2> QED
        BY <1>2, <1>3, <1>7, RunOfFold
  <1>9. \A k \in 1..Len(seq) : k - 1 \in 0..Len(seq)
        BY <1>2
  <1>10. r \in [0..Len(seq) -> RootedTables] /\ r[0] = s
         BY <1>8 DEF RunsFrom
  <1>11. \A k \in 1..Len(seq) : r[k] = ApplyBlock(r[k - 1], seq[k])
         BY <1>8, <1>9, <1>10 DEF RunsFrom
  <1> HIDE DEF step
  <1> QED
      BY <1>1, <1>2, <1>8, <1>10, <1>11

-----------------------------------------------------------------------------
(* The blocks the first k applied blocks take off the chain and leave on    *)
(* it: MemLedger!Displaced and Installed for a beginning of the batch.      *)
Ousted(A, k) == {c \in MemBlocks : \E i \in 1..k : A[i] # c /\ MemHeight[A[i]] = MemHeight[c]}
Remaining(A, k) == {A[i] : i \in {j \in 1..k : \A m \in 1..k :
    m > j => MemHeight[A[m]] # MemHeight[A[j]] \/ A[m] = A[j]}}

LEMMA OustedStep ==
  ASSUME NEW A \in Seq(MemBlocks), NEW k \in Nat, k + 1 <= Len(A)
  PROVE  Ousted(A, k + 1) = Ousted(A, k) \cup SameHeight(A[k + 1])
  <1>1. 1..(k + 1) = (1..k) \cup {k + 1}
        OBVIOUS
  <1> QED
      BY <1>1 DEF Ousted, SameHeight

LEMMA RemainingStep ==
  ASSUME NEW A \in Seq(MemBlocks), NEW k \in Nat, k + 1 <= Len(A)
  PROVE  Remaining(A, k + 1) = (Remaining(A, k) \ SameHeight(A[k + 1])) \cup {A[k + 1]}
  <1> DEFINE b == A[k + 1]
             IsLast(j, n) == \A m \in 1..n :
                m > j => MemHeight[A[m]] # MemHeight[A[j]] \/ A[m] = A[j]
  <1>1. 1..(k + 1) = (1..k) \cup {k + 1} /\ \A j \in 1..k : k + 1 > j /\ j \in Nat
        OBVIOUS
  <1>2. IsLast(k + 1, k + 1)
        BY <1>1
  <1>3. ASSUME NEW j \in 1..k
        PROVE  IsLast(j, k + 1) <=> IsLast(j, k) /\ (MemHeight[b] # MemHeight[A[j]] \/ b = A[j])
        BY <1>1
  <1>4. \A j \in 1..k : A[j] \in MemBlocks
    <2>1. \A j \in 1..k : j \in 1..Len(A)
          OBVIOUS
    <2> QED
        BY <2>1, LenProperties
  <1>5. \A j \in 1..k : A[j] \notin SameHeight(b) <=> MemHeight[b] # MemHeight[A[j]] \/ b = A[j]
        BY <1>4 DEF SameHeight
  <1>6. \A n : Remaining(A, n) = {A[j] : j \in {i \in 1..n : IsLast(i, n)}}
        BY DEF Remaining
  <1> HIDE DEF IsLast, b
  <1>7. Remaining(A, k + 1) = {A[j] : j \in {i \in 1..k : IsLast(i, k + 1)}} \cup {A[k + 1]}
        BY <1>1, <1>2, <1>6
  <1>8. {A[j] : j \in {i \in 1..k : IsLast(i, k + 1)}} = Remaining(A, k) \ SameHeight(b)
        BY <1>3, <1>5, <1>6
  <1> QED
      BY <1>7, <1>8 DEF b

(* A batch worked through block by block leaves the tables as the ledger    *)
(* says, all at once.                                                       *)
LEMMA AppliesAll ==
  ASSUME NEW s \in RootedTables, NEW A \in Seq(MemBlocks), NEW t,
         t = FoldLeft(ApplyBlock, s, A)
  PROVE  /\ t \in RootedTables
         /\ Canon(t.blocks) = (Canon(s.blocks) \ Ousted(A, Len(A))) \cup Remaining(A, Len(A))
         /\ Canon(t.rows) = (Canon(s.rows) \ Ousted(A, Len(A))) \cup Remaining(A, Len(A))
         /\ Canon(t.snapshots) = Canon(s.snapshots) \ Ousted(A, Len(A))
  <1>1. PICK r \in [0..Len(A) -> RootedTables] :
           /\ r[0] = s /\ FoldLeft(ApplyBlock, s, A) = r[Len(A)]
           /\ \A k \in 1..Len(A) : r[k] = ApplyBlock(r[k - 1], A[k])
        BY ApplyRuns
  <1>2. Len(A) \in Nat /\ DOMAIN A = 1..Len(A) /\ \A k \in 1..Len(A) : A[k] \in MemBlocks
        BY LenProperties
  <1> DEFINE Like(k) ==
               /\ Canon(r[k].blocks) = (Canon(s.blocks) \ Ousted(A, k)) \cup Remaining(A, k)
               /\ Canon(r[k].rows) = (Canon(s.rows) \ Ousted(A, k)) \cup Remaining(A, k)
               /\ Canon(r[k].snapshots) = Canon(s.snapshots) \ Ousted(A, k)
             Good == {k \in Nat : k <= Len(A) => Like(k)}
  <1>3. 0 \in Good
    <2>1. Ousted(A, 0) = {} /\ Remaining(A, 0) = {}
          BY DEF Ousted, Remaining
    <2> QED
        BY <1>1, <2>1
  <1>4. ASSUME NEW k \in Nat, k \in Good PROVE k + 1 \in Good
    <2> SUFFICES ASSUME k + 1 <= Len(A) PROVE Like(k + 1)
        OBVIOUS
    <2>1. k + 1 \in 1..Len(A) /\ (k + 1) - 1 = k /\ k <= Len(A) /\ k \in 0..Len(A)
          BY <1>2
    <2>2. Like(k)
          BY <1>4, <2>1
    <2>3. r[k] \in RootedTables /\ r[k + 1] = ApplyBlock(r[k], A[k + 1]) /\ A[k + 1] \in MemBlocks
          BY <1>1, <1>2, <2>1
    <2>4. /\ Canon(r[k + 1].blocks) = (Canon(r[k].blocks) \ SameHeight(A[k + 1])) \cup {A[k + 1]}
          /\ Canon(r[k + 1].rows) = (Canon(r[k].rows) \ SameHeight(A[k + 1])) \cup {A[k + 1]}
          /\ Canon(r[k + 1].snapshots) = Canon(r[k].snapshots) \ SameHeight(A[k + 1])
          BY <2>3, ApplyEffect
    <2>5. /\ Ousted(A, k + 1) = Ousted(A, k) \cup SameHeight(A[k + 1])
          /\ Remaining(A, k + 1) = (Remaining(A, k) \ SameHeight(A[k + 1])) \cup {A[k + 1]}
          BY OustedStep, RemainingStep
    <2> QED
        BY <2>2, <2>4, <2>5
  <1>5. Len(A) \in Good
    <2> HIDE DEF Good
    <2> QED
        BY <1>2, <1>3, <1>4, NatSetInduction
  <1>6. t \in RootedTables /\ t = r[Len(A)]
        BY <1>1, <1>2
  <1> QED
      BY <1>2, <1>5, <1>6

(* The tables are typed and rooted in every state of the memory store.      *)
MemIInv == stored \in RootedTables

LEMMA MemInvariant ==
  MemSpec => []MemIInv
  <1>1. MemInit => MemIInv
        BY DEF MemInit, MemIInv, RootedTables, Tables, Flags, Rooted, MemAll
  <1>2. MemIInv /\ [MemNext]_memVars => MemIInv'
    <2> SUFFICES ASSUME MemIInv, [MemNext]_memVars PROVE MemIInv'
        OBVIOUS
    <2> USE DEF MemIInv
    <2>1. ASSUME NEW d \in MemDeliveries, MemIngest(d) PROVE MemIInv'
      <3>1. MemRollback[d] \in Seq(MemBlocks) /\ MemApply[d] \in Seq(MemBlocks)
            BY MemoryAssumption
      <3>2. FoldLeft(OrphanBlock, stored, MemRollback[d]) \in RootedTables
            BY <3>1, OrphansAll, OffChainType
      <3>3. AfterBatch(d) \in RootedTables
            BY <3>1, <3>2, AppliesAll DEF AfterBatch
      <3> QED
          BY <2>1, <3>3 DEF MemIngest
    <2>2. ASSUME NEW d \in MemDeliveries, MemDuplicate(d) PROVE MemIInv'
          BY <2>2 DEF MemDuplicate, memVars
    <2>3. ASSUME NEW b \in MemBlocks, MemSave(b) PROVE MemIInv'
          BY <2>3 DEF MemSave, RootedTables, Tables, Flags, Rooted
    <2>4. CASE UNCHANGED memVars
          BY <2>4 DEF memVars
    <2> QED
        BY <2>1, <2>2, <2>3, <2>4 DEF MemNext
  <1> QED
      BY <1>1, <1>2, PTL DEF MemSpec

(* docs/data-foundation.md, "Write path": every step of the memory store is *)
(* a step of the ledger the PostgreSQL store implements, or saves a         *)
(* snapshot of a canonical block.  store.ts works through a batch block by  *)
(* block; that the outcome is the ledger's, whatever the blocks, heights    *)
(* and batches, is the induction of OrphansAll and AppliesAll.              *)
THEOREM MemoryFollowsLedger ==
  MemSpec => MemFollowsLedger
  <1> DEFINE Step == \/ UNCHANGED memVars
                     \/ \E d \in MemDeliveries : MemLedger!Accept(d)
                     \/ \E b \in Marked("blocks") :
                          /\ Marked("snapshots")' = Marked("snapshots") \cup {b}
                          /\ UNCHANGED <<rawEvents, stored.blocks, stored.rows>>
  <1>1. ASSUME MemIInv, [MemNext]_memVars PROVE Step
    <2>1. /\ Marked("blocks") = Canon(stored.blocks) /\ Marked("rows") = Canon(stored.rows)
          /\ Marked("snapshots") = Canon(stored.snapshots)
          /\ Marked("blocks")' = Canon(stored'.blocks) /\ Marked("rows")' = Canon(stored'.rows)
          /\ Marked("snapshots")' = Canon(stored'.snapshots)
          BY DEF Marked, Canon
    <2>2. ASSUME NEW d \in MemDeliveries, MemIngest(d) PROVE MemLedger!Accept(d)
      <3> DEFINE R == MemRollback[d]
                 A == MemApply[d]
                 mid == FoldLeft(OrphanBlock, stored, R)
      <3>1. R \in Seq(MemBlocks) /\ A \in Seq(MemBlocks)
            BY MemoryAssumption
      <3>2. mid = OffChain(stored, Entries(R)) /\ mid \in RootedTables
            BY <1>1, <3>1, OrphansAll, OffChainType DEF MemIInv
      <3>3. stored' = FoldLeft(ApplyBlock, mid, A)
            BY <2>2 DEF MemIngest, AfterBatch
      <3>4. /\ Canon(mid.blocks) = Canon(stored.blocks) \ Entries(R)
            /\ Canon(mid.rows) = Canon(stored.rows) \ Entries(R)
            /\ Canon(mid.snapshots) = Canon(stored.snapshots) \ Entries(R)
            BY <1>1, <3>2, CanonOffChain DEF MemIInv, OffChain, RootedTables, Tables
      <3> HIDE DEF mid
      <3>5. /\ Canon(stored'.blocks) = (Canon(mid.blocks) \ Ousted(A, Len(A))) \cup Remaining(A, Len(A))
            /\ Canon(stored'.rows) = (Canon(mid.rows) \ Ousted(A, Len(A))) \cup Remaining(A, Len(A))
            /\ Canon(stored'.snapshots) = Canon(mid.snapshots) \ Ousted(A, Len(A))
            BY <3>1, <3>2, <3>3, AppliesAll, ZenonT(40)
      <3>6. DOMAIN A = 1..Len(A)
            BY <3>1, LenProperties
      <3>7. MemLedger!Displaced(d) = Entries(R) \cup Ousted(A, Len(A))
            BY <3>6 DEF MemLedger!Displaced, MemLedger!Elements, Entries, Ousted
      <3>8. MemLedger!Installed(d) = Remaining(A, Len(A))
            BY <3>6 DEF MemLedger!Installed, Remaining
      <3>9. {e[1] : e \in rawEvents'} = {e[1] : e \in rawEvents} \cup {MemKey[d]}
        <4>1. rawEvents' = rawEvents \cup {<<MemKey[d], MemSha[d]>>}
              BY <2>2 DEF MemIngest
        <4>2. <<MemKey[d], MemSha[d]>>[1] = MemKey[d]
              OBVIOUS
        <4> QED
            BY <4>1, <4>2
      <3>10. MemKey[d] \notin {e[1] : e \in rawEvents}
             BY <2>2 DEF MemIngest, Known
      <3> HIDE DEF R, A
      <3> QED
          BY <2>1, <3>4, <3>5, <3>7, <3>8, <3>9, <3>10 DEF MemLedger!Accept
    <2>3. ASSUME NEW d \in MemDeliveries, MemDuplicate(d) PROVE UNCHANGED memVars
          BY <2>3 DEF MemDuplicate
    <2>4. ASSUME NEW b \in MemBlocks, MemSave(b)
          PROVE  /\ b \in Marked("blocks")
                 /\ Marked("snapshots")' = Marked("snapshots") \cup {b}
                 /\ UNCHANGED <<rawEvents, stored.blocks, stored.rows>>
          BY <1>1, <2>1, <2>4 DEF MemSave, MemIInv, RootedTables, Tables, Canon
    <2> QED
        BY <1>1, <2>2, <2>3, <2>4 DEF MemNext
  <1>2. MemSpec => []MemIInv
        BY MemInvariant
  <1>3. MemIInv /\ [MemNext]_memVars => [Step]_memVars
        BY <1>1
  <1> HIDE DEF Step
  <1>4. MemSpec => [][Step]_memVars
        BY <1>2, <1>3, PTL DEF MemSpec
  <1> QED
      BY <1>4 DEF Step, MemFollowsLedger

-----------------------------------------------------------------------------
(* AnonymousRate.  A table of windows, in the order their keys were set.    *)
Windows == [ip : Clients, startedAt : Nat, count : Nat]
Tabled == Seq(Windows)
Ips(table) == {table[i].ip : i \in DOMAIN table}
OneEach(table) == \A i, j \in DOMAIN table : table[i].ip = table[j].ip => i = j

LEMMA KeepType ==
  ASSUME NEW s \in Tabled, NEW w \in Windows
  PROVE  KeepLive(s, w) \in Tabled
  BY DEF KeepLive, Tabled

LEMMA SweepRuns ==
  ASSUME NEW s \in Tabled, NEW seq \in Seq(Windows)
  PROVE  \E r \in [0..Len(seq) -> Tabled] :
           /\ r[0] = s /\ FoldLeft(KeepLive, s, seq) = r[Len(seq)]
           /\ \A k \in 1..Len(seq) : r[k] = KeepLive(r[k - 1], seq[k])
  <1> DEFINE D == DOMAIN seq
             iter[t \in SUBSET D] ==
                IF t = {} THEN s
                ELSE LET x == Max(t) IN KeepLive(iter[t \ {x}], seq[x])
             step == [q \in (1..Len(seq)) \X Tabled |-> KeepLive(q[2], seq[q[1]])]
  <1>1. FoldLeft(KeepLive, s, seq) = iter[D]
        BY Zenon DEF FoldLeft, MapThenFoldSet
  <1>2. D = 1..Len(seq) /\ Len(seq) \in Nat /\ \A i \in D : seq[i] \in Windows
        BY LenProperties
  <1>3. StepsOn(step, Len(seq), Tabled)
        BY <1>2, KeepType DEF StepsOn
  <1>4. iter = [t \in SUBSET D |->
                IF t = {} THEN s
                ELSE LET x == Max(t) IN KeepLive(iter[t \ {x}], seq[x])]
    <2>1. PICK g \in [SUBSET D -> Tabled] : \A t \in SUBSET D :
            g[t] = IF t = {} THEN s ELSE step[<<Max(t), g[t \ {Max(t)}]>>]
      <3> HIDE DEF step, iter
      <3>1. PICK g \in [SUBSET (1..Len(seq)) -> Tabled] :
                FoldedOver(g, Len(seq), s, step)
            BY <1>2, <1>3, FoldsOverPositions
      <3> HIDE DEF D
      <3> QED
          BY <1>2, <3>1 DEF FoldedOver
    <2>2. \A t \in SUBSET D : t # {} => Max(t) \in D
      <3> HIDE DEF step, iter
      <3>1. IsFiniteSet(D) /\ D \subseteq Nat
            BY <1>2, FS_Interval
      <3> HIDE DEF D
      <3> QED
          BY <3>1, FS_Subset, GreatestOfFinite
    <2>3. \A t \in SUBSET D : t # {} =>
            step[<<Max(t), g[t \ {Max(t)}]>>] = KeepLive(g[t \ {Max(t)}], seq[Max(t)])
          BY <1>2, <2>1, <2>2
    <2>4. g = [t \in SUBSET D |->
                IF t = {} THEN s
                ELSE LET x == Max(t) IN KeepLive(g[t \ {x}], seq[x])]
      <3> HIDE DEF step
      <3> QED
          BY <2>1, <2>3
    <2> QED
        BY <2>4
  <1> HIDE DEF iter
  <1>5. iter[1..0] = s
        BY <1>4
  <1>6. ASSUME NEW k \in 1..Len(seq), iter[1..(k - 1)] \in Tabled
        PROVE  /\ iter[1..k] = KeepLive(iter[1..(k - 1)], seq[k])
               /\ iter[1..k] = step[<<k, iter[1..(k - 1)]>>]
    <2>1. k \in Nat \ {0} /\ k <= Len(seq)
          BY <1>2
    <2>2. 1..k \in SUBSET D
          BY <1>2, <2>1
    <2>3. 1..k # {} /\ (1..k) \ {k} = 1..(k - 1)
          BY <2>1, AllButLast
    <2>4. Max(1..k) = k
          BY <2>1, LastOfInterval
    <2>5. iter[1..k] = KeepLive(iter[1..(k - 1)], seq[k])
          BY <1>4, <2>2, <2>3, <2>4
    <2> QED
        BY <1>6, <2>5
  <1>7. StepsIn(iter, Len(seq), Tabled, s, step)
    <2> HIDE DEF step
    <2> QED
        BY <1>5, <1>6 DEF StepsIn
  <1>8. PICK r : RunsFrom(r, Len(seq), Tabled, s, step) /\ r[Len(seq)] = iter[1..Len(seq)]
    <2> HIDE DEF step, D
    <2> QED
        BY <1>2, <1>3, <1>7, RunOfFold
  <1>9. \A k \in 1..Len(seq) : k - 1 \in 0..Len(seq)
        BY <1>2
  <1>10. r \in [0..Len(seq) -> Tabled] /\ r[0] = s
         BY <1>8 DEF RunsFrom
  <1>11. \A k \in 1..Len(seq) : r[k] = KeepLive(r[k - 1], seq[k])
         BY <1>8, <1>9, <1>10 DEF RunsFrom
  <1> HIDE DEF step
  <1> QED
      BY <1>1, <1>2, <1>8, <1>10, <1>11

(* The sweep keeps the windows in force, one of each client, and no other.  *)
LEMMA SweepKeepsLive ==
  ASSUME NEW T \in Tabled, OneEach(T), NEW L, L = FoldLeft(KeepLive, <<>>, T)
  PROVE  /\ L \in Tabled /\ Len(L) <= Len(T) /\ OneEach(L)
         /\ Ips(L) = Live(T) /\ Live(L) = Ips(L)
  <1>1. <<>> \in Tabled /\ T \in Seq(Windows)
        BY DEF Tabled
  <1>2. PICK r \in [0..Len(T) -> Tabled] :
           /\ r[0] = <<>> /\ FoldLeft(KeepLive, <<>>, T) = r[Len(T)]
           /\ \A k \in 1..Len(T) : r[k] = KeepLive(r[k - 1], T[k])
        BY <1>1, SweepRuns
  <1>3. Len(T) \in Nat /\ DOMAIN T = 1..Len(T) /\ \A k \in 1..Len(T) : T[k] \in Windows
        BY LenProperties DEF Tabled
  <1> DEFINE First(k) == {T[i].ip : i \in {j \in 1..k : ~Over(T[j].startedAt)}}
             Like(k) == /\ Len(r[k]) <= k /\ OneEach(r[k]) /\ Ips(r[k]) = First(k)
                        /\ \A i \in DOMAIN r[k] : ~Over(r[k][i].startedAt)
             Good == {k \in Nat : k <= Len(T) => Like(k)}
  <1>4. 0 \in Good
        BY <1>2 DEF OneEach, Ips
  <1>5. ASSUME NEW k \in Nat, k \in Good PROVE k + 1 \in Good
    <2> SUFFICES ASSUME k + 1 <= Len(T) PROVE Like(k + 1)
        OBVIOUS
    <2> DEFINE w == T[k + 1]
               q == r[k]
    <2>1. k + 1 \in 1..Len(T) /\ (k + 1) - 1 = k /\ k <= Len(T) /\ k \in 0..Len(T)
          BY <1>3
    <2>2. q \in Tabled /\ r[k + 1] = KeepLive(q, w) /\ w \in Windows
          BY <1>2, <1>3, <2>1
    <2>3. /\ Len(q) <= k /\ OneEach(q) /\ Ips(q) = First(k)
          /\ \A i \in DOMAIN q : ~Over(q[i].startedAt)
          BY <1>5, <2>1
    <2>4. 1..(k + 1) = (1..k) \cup {k + 1} /\ \A i \in 1..k : i # k + 1 /\ i \in DOMAIN T
          BY <1>3
    <2>5. Len(q) \in Nat /\ DOMAIN q = 1..Len(q)
          BY <2>2, LenProperties DEF Tabled
    <2> HIDE DEF q
    <2>6. CASE Over(w.startedAt)
      <3>1. r[k + 1] = q
            BY <2>2, <2>6 DEF KeepLive
      <3>2. First(k + 1) = First(k)
            BY <2>4, <2>6
      <3> HIDE DEF First
      <3> QED
          BY <3>1, <3>2, <2>3, <2>5
    <2>7. CASE ~Over(w.startedAt)
      <3>1. r[k + 1] = Append(q, w)
            BY <2>2, <2>7 DEF KeepLive
      <3>2. First(k + 1) = First(k) \cup {w.ip}
            BY <2>4, <2>7
      <3>3. w.ip \notin First(k)
            BY <1>3, <2>1, <2>4 DEF OneEach
      <3> DEFINE v == Append(q, w)
      <3>4. /\ Len(v) = Len(q) + 1 /\ DOMAIN v = 1..(Len(q) + 1)
            /\ v[Len(q) + 1] = w /\ \A i \in 1..Len(q) : v[i] = q[i]
            BY <2>2, <2>5, AppendProperties DEF Tabled
      <3>5. 1..(Len(q) + 1) = (1..Len(q)) \cup {Len(q) + 1}
            BY <2>5
      <3> HIDE DEF v, w, First
      <3>6. Ips(v) = Ips(q) \cup {w.ip}
            BY <2>5, <3>4, <3>5 DEF Ips
      <3>7. \A i \in DOMAIN q : q[i].ip # w.ip
            BY <2>3, <3>3 DEF Ips
      <3>8. OneEach(v)
            BY <2>3, <2>5, <3>4, <3>5, <3>7 DEF OneEach
      <3>9. \A i \in DOMAIN v : ~Over(v[i].startedAt)
            BY <2>3, <2>5, <2>7, <3>4, <3>5
      <3>10. Len(v) <= k + 1
             BY <2>3, <2>5, <3>4
      <3> QED
          BY <2>3, <3>1, <3>2, <3>6, <3>8, <3>9, <3>10 DEF v
    <2> QED
        BY <2>6, <2>7
  <1>6. Len(T) \in Good
    <2> HIDE DEF Good
    <2> QED
        BY <1>3, <1>4, <1>5, NatSetInduction
  <1>7. L = r[Len(T)] /\ L \in Tabled
        BY <1>2, <1>3
  <1>8. First(Len(T)) = Live(T)
        BY <1>3 DEF Live
  <1>9. Live(L) = Ips(L)
        BY <1>3, <1>6, <1>7 DEF Live, Ips
  <1> HIDE DEF First
  <1> QED
      BY <1>3, <1>6, <1>7, <1>8, <1>9

(* As many clients as entries.                                              *)
LEMMA OneEachCounts ==
  ASSUME NEW T \in Tabled, OneEach(T)
  PROVE  Cardinality(Ips(T)) = Len(T)
  <1>1. Len(T) \in Nat /\ DOMAIN T = 1..Len(T)
        BY LenProperties DEF Tabled
  <1> DEFINE f == [i \in 1..Len(T) |-> T[i].ip]
  <1>2. f \in Injection(1..Len(T), Ips(T)) /\ f \in Surjection(1..Len(T), Ips(T))
        BY <1>1 DEF Injection, Surjection, IsInjective, Ips, OneEach
  <1>3. IsFiniteSet(1..Len(T)) /\ Cardinality(1..Len(T)) = Len(T)
    <2>1. 1 \in Int /\ Len(T) \in Int
          BY <1>1
    <2>2. /\ IsFiniteSet(1..Len(T))
          /\ Cardinality(1..Len(T)) = IF 1 > Len(T) THEN 0 ELSE Len(T) - 1 + 1
          BY <2>1, FS_Interval
    <2> QED
        BY <1>1, <2>2
  <1> HIDE DEF f
  <1> QED
      BY <1>2, <1>3, FS_Surjection

-----------------------------------------------------------------------------
(* The table holds one window of a client, and at most its capacity.        *)
RateIInv ==
    /\ rateClock \in Nat
    /\ windows \in Tabled
    /\ OneEach(windows)
    /\ Len(windows) <= Capacity

(* What counting a request leaves before the eviction: a table with one     *)
(* more window at most, in which the client's is in force.                  *)
LEMMA PutIs ==
  ASSUME RateIInv, NEW c \in Clients, NEW w, w = [Current(c) EXCEPT !.count = @ + 1],
         NEW T, T = Put(w)
  PROVE  /\ T \in Tabled /\ OneEach(T) /\ Len(T) <= Capacity + 1
         /\ Live(windows) \subseteq Live(T)
  <1> USE DEF RateIInv
  <1>1. Len(windows) \in Nat /\ DOMAIN windows = 1..Len(windows)
        /\ \A i \in DOMAIN windows : windows[i] \in Windows
        BY LenProperties DEF Tabled
  <1>2. /\ w \in Windows /\ w.ip = c /\ ~Over(w.startedAt)
    <2>1. /\ Current(c) \in Windows /\ Current(c).ip = c
          /\ ~Over(Current(c).startedAt)
      <3>1. CASE \E i \in Kept(c) : ~Over(windows[i].startedAt)
        <4>1. PICK i \in Kept(c) : ~Over(windows[i].startedAt)
              BY <3>1
        <4>2. \A j \in Kept(c) : j = i
              BY <4>1 DEF Kept, OneEach
        <4>3. (CHOOSE j \in Kept(c) : TRUE) = i
              BY <4>1, <4>2
        <4>4. Current(c) = windows[i]
              BY <3>1, <4>3 DEF Current
        <4> QED
            BY <1>1, <4>1, <4>4 DEF Kept
      <3>2. CASE ~\E i \in Kept(c) : ~Over(windows[i].startedAt)
        <4>1. Current(c) = [ip |-> c, startedAt |-> rateClock, count |-> 0]
              BY <3>2 DEF Current
        <4>2. ~Over(rateClock)
              BY RateAssumption DEF Over
        <4> QED
            BY <4>1, <4>2 DEF Windows
      <3> QED
          BY <3>1, <3>2
    <2> QED
        BY <2>1 DEF Windows
  <1>3. CASE Kept(c) = {}
    <2>1. T = Append(windows, w)
          BY <1>2, <1>3 DEF Put
    <2>2. /\ T \in Tabled /\ Len(T) = Len(windows) + 1 /\ DOMAIN T = 1..(Len(windows) + 1)
          /\ T[Len(windows) + 1] = w /\ \A i \in 1..Len(windows) : T[i] = windows[i]
      <3>1. windows \in Seq(Windows) /\ w \in Windows
            BY <1>2 DEF Tabled
      <3>2. /\ T \in Seq(Windows) /\ Len(T) = Len(windows) + 1 /\ T[Len(windows) + 1] = w
            /\ \A i \in 1..Len(windows) : T[i] = windows[i]
        <4>1. /\ Append(windows, w) \in Seq(Windows)
              /\ Len(Append(windows, w)) = Len(windows) + 1
              /\ \A i \in 1..Len(windows) : Append(windows, w)[i] = windows[i]
              /\ Append(windows, w)[Len(windows) + 1] = w
          <5> HIDE DEF Windows
          <5> QED
              BY <3>1, AppendProperties
        <4> QED
            BY <2>1, <4>1
      <3> QED
          BY <3>2, LenProperties DEF Tabled
    <2>3. 1..(Len(windows) + 1) = (1..Len(windows)) \cup {Len(windows) + 1}
          BY <1>1
    <2>4. \A i \in DOMAIN windows : windows[i].ip # c
          BY <1>3 DEF Kept
    <2>5. OneEach(T)
      <3>1. \A i \in 1..Len(windows) : T[i].ip # c /\ T[i].ip = windows[i].ip
            BY <1>1, <2>2, <2>4
      <3>2. T[Len(windows) + 1].ip = c
            BY <1>2, <2>2
      <3>3. \A i, j \in 1..Len(windows) : windows[i].ip = windows[j].ip => i = j
            BY <1>1 DEF OneEach
      <3>4. \A i \in DOMAIN T : i \in 1..Len(windows) \/ i = Len(windows) + 1
            BY <2>2, <2>3
      <3> QED
          BY <3>1, <3>2, <3>3, <3>4 DEF OneEach
    <2>6. Live(windows) \subseteq Live(T)
          BY <1>1, <2>2, <2>3 DEF Live
    <2>7. Len(T) <= Capacity + 1
          BY <1>1, <2>2, RateAssumption
    <2> QED
        BY <2>2, <2>5, <2>6, <2>7
  <1>4. CASE Kept(c) # {}
    <2>1. T = [i \in DOMAIN windows |-> IF i \in Kept(c) THEN w ELSE windows[i]]
          BY <1>2, <1>4 DEF Put
    <2>2. /\ DOMAIN T = 1..Len(windows) /\ \A i \in 1..Len(windows) : T[i] \in Windows
          /\ \A i \in 1..Len(windows) : T[i].ip = windows[i].ip
          BY <1>1, <1>2, <2>1 DEF Kept
    <2>3. T \in Tabled /\ Len(T) = Len(windows)
      <3>1. T \in [1..Len(windows) -> Windows]
            BY <1>1, <2>1, <2>2
      <3>2. T \in Seq(Windows)
            BY <1>1, <3>1, SeqDef
      <3>3. DOMAIN T = 1..Len(T) /\ Len(T) \in Nat
            BY <3>2, LenProperties
      <3> QED
          BY <1>1, <2>2, <3>2, <3>3 DEF Tabled
    <2>4. OneEach(T)
          BY <1>1, <2>2, SMTT(30) DEF OneEach
    <2>5. Live(windows) \subseteq Live(T)
          BY <1>1, <1>2, <2>1, <2>2 DEF Live, Kept
    <2>6. Len(T) <= Capacity + 1
          BY <1>1, <2>3, RateAssumption
    <2> QED
        BY <2>3, <2>4, <2>5, <2>6
  <1> QED
      BY <1>3, <1>4


(* The eviction: what of a table it leaves.                                 *)
LEMMA EvictIs ==
  ASSUME NEW T \in Tabled, OneEach(T), Len(T) <= Capacity + 1, NEW E, E = Evict(T)
  PROVE  /\ E \in Tabled /\ OneEach(E) /\ Len(E) <= Capacity
         /\ \A c \in Live(T) : \/ c \in Live(E)
                               \/ Cardinality(Live(E)) = Capacity /\ Live(T) \ Live(E) = {c}
  <1>1. Capacity \in Nat \ {0} /\ Len(T) \in Nat
        BY RateAssumption, LenProperties DEF Tabled
  <1>2. CASE Len(T) <= Capacity
        BY <1>2 DEF Evict
  <1>3. CASE ~(Len(T) <= Capacity)
    <2>1. PICK L : L = FoldLeft(KeepLive, <<>>, T)
          OBVIOUS
    <2>2. /\ L \in Tabled /\ Len(L) <= Len(T) /\ OneEach(L)
          /\ Ips(L) = Live(T) /\ Live(L) = Ips(L)
          BY <2>1, SweepKeepsLive
    <2>3. E = IF Len(L) > Capacity THEN Tail(L) ELSE L
          BY <1>3, <2>1 DEF Evict
    <2>4. Len(L) \in Nat /\ DOMAIN L = 1..Len(L)
          BY <2>2, LenProperties DEF Tabled
    <2>5. \A i \in DOMAIN L : ~Over(L[i].startedAt)
      <3> SUFFICES ASSUME NEW i \in DOMAIN L PROVE ~Over(L[i].startedAt)
          OBVIOUS
      <3>1. L[i].ip \in Live(L)
            BY <2>2 DEF Ips
      <3>2. PICK j \in DOMAIN L : ~Over(L[j].startedAt) /\ L[j].ip = L[i].ip
            BY <3>1 DEF Live
      <3> QED
          BY <2>2, <3>2 DEF OneEach
    <2>6. CASE Len(L) <= Capacity
          BY <1>1, <2>2, <2>3, <2>4, <2>5, <2>6
    <2>7. CASE Len(L) > Capacity
      <3>1. E = Tail(L) /\ Len(L) = Capacity + 1
        <4>1. E = Tail(L)
              BY <2>3, <2>7
        <4>2. Len(L) <= Capacity + 1 /\ Len(L) > Capacity
              BY <1>1, <2>2, <2>4, <2>7
        <4>3. \A n \in Nat : n <= Capacity + 1 /\ n > Capacity => n = Capacity + 1
              BY RateAssumption
        <4>4. Len(L) \in Nat
              BY <2>4
        <4> QED
            BY <4>1, <4>2, <4>3, <4>4
      <3>2. L \in Seq(Windows) /\ L # <<>>
            BY <1>1, <2>2, <3>1 DEF Tabled
      <3>3. /\ E \in Seq(Windows) /\ Len(E) = Capacity
            /\ \A i \in 1..Len(E) : E[i] = L[i + 1]
            BY <1>1, <3>1, <3>2, HeadTailProperties
      <3>4. DOMAIN E = 1..Capacity /\ \A i \in 1..Capacity : i + 1 \in DOMAIN L
            BY <1>1, <2>4, <3>1, <3>3, LenProperties
      <3>5. OneEach(E)
        <4> SUFFICES ASSUME NEW i \in DOMAIN E, NEW j \in DOMAIN E, E[i].ip = E[j].ip PROVE i = j
            BY DEF OneEach
        <4>1. L[i + 1].ip = L[j + 1].ip /\ i + 1 \in DOMAIN L /\ j + 1 \in DOMAIN L
              BY <3>3, <3>4
        <4>2. i + 1 = j + 1
              BY <2>2, <4>1 DEF OneEach
        <4> QED
            BY <1>1, <3>4, <4>2
      <3>6. \A i \in DOMAIN E : ~Over(E[i].startedAt)
            BY <2>5, <3>3, <3>4
      <3>7. Live(E) = Ips(E)
            BY <3>6 DEF Live, Ips
      <3>8. Cardinality(Live(E)) = Capacity
            BY <3>3, <3>5, <3>7, OneEachCounts DEF Tabled
      <3>9. Live(T) \ Live(E) \subseteq {L[1].ip}
        <4> SUFFICES ASSUME NEW c \in Live(T), c # L[1].ip PROVE c \in Live(E)
            OBVIOUS
        <4>1. PICK i \in DOMAIN L : L[i].ip = c
              BY <2>2 DEF Ips
        <4>2. i \in 2..(Capacity + 1)
              BY <1>1, <2>4, <3>1, <4>1
        <4>3. i - 1 \in DOMAIN E /\ E[i - 1] = L[(i - 1) + 1] /\ (i - 1) + 1 = i
              BY <1>1, <3>3, <3>4, <4>2
        <4> QED
            BY <3>7, <4>1, <4>3 DEF Ips
      <3>10. \A c \in Live(T) : c \notin Live(E) => Live(T) \ Live(E) = {c}
             BY <3>9
      <3>11. E \in Tabled /\ Len(E) <= Capacity
             BY <1>1, <3>3 DEF Tabled
      <3> QED
          BY <3>5, <3>8, <3>10, <3>11
    <2> QED
        BY <1>1, <2>4, <2>6, <2>7
  <1> QED
      BY <1>2, <1>3

LEMMA CountKeepsRateIInv ==
  ASSUME RateIInv, NEW c \in Clients, AdmitRequest(c)
  PROVE  /\ RateIInv'
         /\ \A d \in Live(windows) :
              \/ d \in Live(windows')
              \/ /\ Cardinality(Live(windows')) = Capacity
                 /\ Live(windows) \ Live(windows') = {d}
  <1>1. PICK w : w = [Current(c) EXCEPT !.count = @ + 1]
        OBVIOUS
  <1>2. PICK T : T = Put(w)
        OBVIOUS
  <1>3. PICK E : E = Evict(T)
        OBVIOUS
  <1>4. windows' = E /\ rateClock' = rateClock
        BY <1>1, <1>2, <1>3 DEF AdmitRequest
  <1>5. /\ T \in Tabled /\ OneEach(T) /\ Len(T) <= Capacity + 1
        /\ Live(windows) \subseteq Live(T)
        BY <1>1, <1>2, PutIs
  <1>6. /\ E \in Tabled /\ OneEach(E) /\ Len(E) <= Capacity
        /\ \A d \in Live(T) : \/ d \in Live(E)
                              \/ Cardinality(Live(E)) = Capacity /\ Live(T) \ Live(E) = {d}
        BY <1>3, <1>5, EvictIs
  <1>7. ASSUME NEW d \in Live(windows), d \notin Live(E)
        PROVE  Cardinality(Live(E)) = Capacity /\ Live(windows) \ Live(E) = {d}
        BY <1>5, <1>6, <1>7
  <1>8. RateIInv'
        BY <1>4, <1>6 DEF RateIInv
  <1> QED
      BY <1>4, <1>7, <1>8

(* app.ts:785-795 keeps the table: one window of a client, and no more than *)
(* the 10,000 it is bounded to.                                             *)
THEOREM RateIsInductive ==
  RateSpec => []RateIInv
  <1>1. RateInit => RateIInv
        BY RateAssumption DEF RateInit, RateIInv, Tabled, OneEach
  <1>2. RateIInv /\ [RateNext]_rateVars => RateIInv'
    <2> SUFFICES ASSUME RateIInv, [RateNext]_rateVars PROVE RateIInv'
        OBVIOUS
    <2>1. CASE RateTick
          BY <2>1 DEF RateTick, RateIInv, Tabled
    <2>2. ASSUME NEW c \in Clients, AdmitRequest(c) PROVE RateIInv'
          BY <2>2, CountKeepsRateIInv
    <2>3. ASSUME NEW c \in Clients, RefuseRequest(c) PROVE RateIInv'
          BY <2>3 DEF RefuseRequest, rateVars, RateIInv
    <2>4. CASE UNCHANGED rateVars
          BY <2>4 DEF rateVars, RateIInv
    <2> QED
        BY <2>1, <2>2, <2>3, <2>4 DEF RateNext
  <1> QED
      BY <1>1, <1>2, PTL DEF RateSpec

(* docs/commercial-launch.md:23 and app.ts:785-795: for every number of     *)
(* clients, capacity and limit, an eviction forgets a client whose window   *)
(* is in force only when the table stays full of such windows, and then one *)
(* client.                                                                  *)
THEOREM ForgetsOnlyWhenCrowded ==
  RateSpec => ForgottenOnlyWhenCrowded
  <1> DEFINE Step == windows' # windows => \A c \in Live(windows) :
               \/ c \in Live(windows')
               \/ /\ Cardinality(Live(windows')) = Capacity
                  /\ Live(windows) \ Live(windows') = {c}
  <1>1. ASSUME RateIInv, [RateNext]_rateVars PROVE Step
    <2>1. CASE RateTick
          BY <2>1 DEF RateTick
    <2>2. ASSUME NEW c \in Clients, AdmitRequest(c) PROVE Step
          BY <1>1, <2>2, CountKeepsRateIInv
    <2>3. ASSUME NEW c \in Clients, RefuseRequest(c) PROVE Step
          BY <2>3 DEF RefuseRequest, rateVars
    <2>4. CASE UNCHANGED rateVars
          BY <2>4 DEF rateVars
    <2> HIDE DEF Step
    <2> QED
        BY <1>1, <2>1, <2>2, <2>3, <2>4 DEF RateNext
  <1>2. RateIInv /\ [RateNext]_rateVars => [Step]_rateVars
        BY <1>1
  <1> HIDE DEF Step
  <1>3. RateSpec => [][Step]_rateVars
        BY <1>2, RateIsInductive, PTL DEF RateSpec
  <1> QED
      BY <1>3 DEF Step, ForgottenOnlyWhenCrowded

-----------------------------------------------------------------------------
(* RiskEngine.  Arithmetic the provers are given in small steps.            *)
LEMMA Quotient ==
  ASSUME NEW x \in Nat, NEW n \in Nat \ {0}
  PROVE  /\ x \div n \in Nat /\ n * (x \div n) <= x
         /\ \A k \in Int : k <= x \div n <=> n * k <= x
  <1>1. x \div n \in Int /\ x \div n >= 0
        OBVIOUS
  <1>2. n * (x \div n) <= x
        OBVIOUS
  <1>3. n * (x \div n) + n > x
        OBVIOUS
  <1> PICK q \in Int : q = x \div n
      BY <1>1
  <1>4. \A k \in Int : k <= q <=> n * k <= x
    <2> TAKE k \in Int
    <2>1. ASSUME k <= q PROVE n * k <= n * q
          BY <2>1
    <2>2. ASSUME k >= q + 1 PROVE n * k >= n * q + n
          BY <2>2
    <2> QED
        BY <1>2, <1>3, <2>1, <2>2
  <1> QED
      BY <1>1, <1>2, <1>4

LEMMA ProductGrows ==
  ASSUME NEW a \in Nat, NEW x \in Nat, NEW y \in Nat, x <= y
  PROVE  a * x <= a * y
  OBVIOUS

LEMMA ProductCancels ==
  ASSUME NEW a \in Nat \ {0}, NEW x \in Nat, NEW y \in Nat, a * x <= a * y
  PROVE  x <= y
  OBVIOUS

(* A health, and the positions the engine is given.                         *)
Healths == Nat \cup {Unknown}
LoanFits(loan) ==
    /\ loan.collateral \in Healths /\ loan.debt \in Healths /\ loan.threshold \in Nat

LEMMA HealthType ==
  ASSUME NEW c \in Healths, NEW d \in Healths, NEW t \in Nat
  PROVE  Health(c, d, t) \in Healths
  <1>1. CASE c = Unknown \/ d \in {Unknown, 0}
        BY <1>1 DEF Health, Healths
  <1>2. CASE ~(c = Unknown \/ d \in {Unknown, 0})
    <2>1. c * t \in Nat /\ d \in Nat \ {0}
          BY <1>2 DEF Healths, Unknown
    <2>2. (c * t) \div d \in Nat
          BY <2>1, Quotient
    <2> QED
        BY <1>2, <2>2 DEF Health, Healths
  <1> QED
      BY <1>1, <1>2

(* The score falls along each slope, and stays within its severity.         *)
LEMMA QuotientGrows ==
  ASSUME NEW x \in Nat, NEW y \in Nat, x <= y, NEW n \in Nat \ {0}
  PROVE  x \div n <= y \div n
  <1>1. x \div n \in Nat /\ n * (x \div n) <= x
        BY Quotient
  <1>2. \A k \in Int : k <= y \div n <=> n * k <= y
        BY Quotient
  <1>3. n * (x \div n) \in Int
        BY <1>1
  <1> QED
      BY <1>1, <1>2, <1>3

LEMMA SlopeFalls ==
  ASSUME NEW from \in Nat, NEW drop \in Nat, NEW width \in Nat \ {0}, NEW h \in Nat, h <= from
  PROVE  /\ Slope(from, h, drop, width) \in Nat
         /\ h > 0 => /\ Slope(from, h - 1, drop, width) \in Nat
                     /\ Slope(from, h - 1, drop, width) >= Slope(from, h, drop, width)
         /\ \A m \in Nat : (from - h) * drop < width * (m + 1) => Slope(from, h, drop, width) <= m
  <1> PICK x : x = (from - h) * drop
      OBVIOUS
  <1>1. x \in Nat /\ x \div width \in Nat
    <2>1. x \in Nat
          OBVIOUS
    <2> QED
        BY <2>1, Quotient
  <1>2. ASSUME h > 0
        PROVE  /\ Slope(from, h - 1, drop, width) \in Nat
               /\ Slope(from, h - 1, drop, width) >= Slope(from, h, drop, width)
    <2> PICK y : y = (from - (h - 1)) * drop
        OBVIOUS
    <2>1. y \in Nat /\ y = x + drop
          BY <1>2
    <2>2. y \div width \in Nat /\ x \div width <= y \div width
          BY <1>1, <2>1, Quotient, QuotientGrows
    <2> QED
        BY <1>1, <2>2 DEF Slope
  <1>3. ASSUME NEW m \in Nat, x < width * (m + 1) PROVE x \div width <= m
    <2>1. \A k \in Int : k <= x \div width <=> width * k <= x
          BY <1>1, Quotient
    <2>2. ~(m + 1 <= x \div width)
          BY <1>1, <1>3, <2>1
    <2> QED
        BY <1>1, <2>2
  <1> QED
      BY <1>1, <1>2, <1>3 DEF Slope

LEMMA ScoreIs ==
  ASSUME NEW h \in Nat
  PROVE  /\ h <= 10000 => LendingScore(h) = 100
         /\ h > 10000 /\ h <= 10300 => LendingScore(h) = 90 + Slope(10300, h, 10, 300)
         /\ h > 10300 /\ h <= 11000 => LendingScore(h) = 60 + Slope(11000, h, 29, 700)
         /\ h > 11000 /\ h <= 12000 => LendingScore(h) = 30 + Slope(12000, h, 29, 1000)
         /\ h > 12000 /\ h < 20000 => LendingScore(h) = Slope(20000, h, 29, 8000)
         /\ h >= 20000 => LendingScore(h) = 0
  BY DEF LendingScore, ScoreWith, Unknown

LEMMA ScoreRanges ==
  ASSUME NEW h \in Nat
  PROVE  /\ LendingScore(h) \in Nat
         /\ h <= 10300 => LendingScore(h) >= 90
         /\ h > 10000 /\ h <= 10300 => LendingScore(h) <= 100
         /\ h > 10300 /\ h <= 11000 => LendingScore(h) >= 60 /\ LendingScore(h) <= 89
         /\ h > 11000 /\ h <= 12000 => LendingScore(h) >= 30 /\ LendingScore(h) <= 59
         /\ h > 12000 => LendingScore(h) <= 29
  <1>1. CASE h <= 10000
        BY <1>1, ScoreIs
  <1>2. CASE h > 10000 /\ h <= 10300
    <2> PICK s : s = Slope(10300, h, 10, 300)
        OBVIOUS
    <2>1. (10300 - h) * 10 < 300 * (10 + 1)
          BY <1>2
    <2>2. s \in Nat /\ s <= 10
          BY <1>2, <2>1, SlopeFalls
    <2>3. LendingScore(h) = 90 + s
          BY <1>2, ScoreIs
    <2> QED
        BY <1>2, <2>2, <2>3
  <1>3. CASE h > 10300 /\ h <= 11000
    <2> PICK s : s = Slope(11000, h, 29, 700)
        OBVIOUS
    <2>1. (11000 - h) * 29 < 700 * (29 + 1)
          BY <1>3
    <2>2. s \in Nat /\ s <= 29
          BY <1>3, <2>1, SlopeFalls
    <2>3. LendingScore(h) = 60 + s
          BY <1>3, ScoreIs
    <2> QED
        BY <1>3, <2>2, <2>3
  <1>4. CASE h > 11000 /\ h <= 12000
    <2> PICK s : s = Slope(12000, h, 29, 1000)
        OBVIOUS
    <2>1. (12000 - h) * 29 < 1000 * (29 + 1)
          BY <1>4
    <2>2. s \in Nat /\ s <= 29
          BY <1>4, <2>1, SlopeFalls
    <2>3. LendingScore(h) = 30 + s
          BY <1>4, ScoreIs
    <2> QED
        BY <1>4, <2>2, <2>3
  <1>5. CASE h > 12000 /\ h < 20000
    <2> PICK s : s = Slope(20000, h, 29, 8000)
        OBVIOUS
    <2>1. (20000 - h) * 29 < 8000 * (29 + 1)
          BY <1>5
    <2>2. s \in Nat /\ s <= 29
          BY <1>5, <2>1, SlopeFalls
    <2>3. LendingScore(h) = s
          BY <1>5, ScoreIs
    <2> QED
        BY <1>5, <2>2, <2>3
  <1>6. CASE h >= 20000
        BY <1>6, ScoreIs
  <1> QED
      BY <1>1, <1>2, <1>3, <1>4, <1>5, <1>6

(* Two neighbours lie on one slope, or on two that meet.                    *)
LEMMA ScoreNeverRises ==
  ASSUME NEW h \in Nat \ {0}
  PROVE  LendingScore(h - 1) >= LendingScore(h)
  <1>1. h - 1 \in Nat /\ LendingScore(h - 1) \in Nat /\ LendingScore(h) \in Nat
        BY ScoreRanges
  <1>2. CASE h <= 10000
    <2>1. LendingScore(h - 1) = 100 /\ LendingScore(h) = 100
          BY <1>1, <1>2, ScoreIs
    <2> QED
        BY <2>1
  <1>3. CASE h = 10001
    <2>1. LendingScore(h - 1) = 100 /\ LendingScore(h) <= 100
          BY <1>1, <1>3, ScoreIs, ScoreRanges
    <2> QED
        BY <1>1, <2>1
  <1>4. CASE h > 10001 /\ h <= 10300
    <2>1. LendingScore(h - 1) = 90 + Slope(10300, h - 1, 10, 300)
          BY <1>1, <1>4, ScoreIs
    <2>2. LendingScore(h) = 90 + Slope(10300, h, 10, 300)
          BY <1>4, ScoreIs
    <2>3. Slope(10300, h - 1, 10, 300) >= Slope(10300, h, 10, 300)
          /\ Slope(10300, h - 1, 10, 300) \in Nat /\ Slope(10300, h, 10, 300) \in Nat
          BY <1>4, SlopeFalls
    <2> QED
        BY <2>1, <2>2, <2>3
  <1>5. CASE h > 10301 /\ h <= 11000
    <2>1. LendingScore(h - 1) = 60 + Slope(11000, h - 1, 29, 700)
          BY <1>1, <1>5, ScoreIs
    <2>2. LendingScore(h) = 60 + Slope(11000, h, 29, 700)
          BY <1>5, ScoreIs
    <2>3. Slope(11000, h - 1, 29, 700) >= Slope(11000, h, 29, 700)
          /\ Slope(11000, h - 1, 29, 700) \in Nat /\ Slope(11000, h, 29, 700) \in Nat
          BY <1>5, SlopeFalls
    <2> QED
        BY <2>1, <2>2, <2>3
  <1>6. CASE h > 11001 /\ h <= 12000
    <2>1. LendingScore(h - 1) = 30 + Slope(12000, h - 1, 29, 1000)
          BY <1>1, <1>6, ScoreIs
    <2>2. LendingScore(h) = 30 + Slope(12000, h, 29, 1000)
          BY <1>6, ScoreIs
    <2>3. Slope(12000, h - 1, 29, 1000) >= Slope(12000, h, 29, 1000)
          /\ Slope(12000, h - 1, 29, 1000) \in Nat /\ Slope(12000, h, 29, 1000) \in Nat
          BY <1>6, SlopeFalls
    <2> QED
        BY <2>1, <2>2, <2>3
  <1>7. CASE h > 12001 /\ h < 20000
    <2>1. LendingScore(h - 1) = Slope(20000, h - 1, 29, 8000)
          BY <1>1, <1>7, ScoreIs
    <2>2. LendingScore(h) = Slope(20000, h, 29, 8000)
          BY <1>7, ScoreIs
    <2>3. Slope(20000, h - 1, 29, 8000) >= Slope(20000, h, 29, 8000)
          BY <1>7, SlopeFalls
    <2> QED
        BY <2>1, <2>2, <2>3
  <1>8. CASE h \in {10301, 11001, 12001}
    <2>1. CASE h = 10301
      <3>1. LendingScore(h - 1) >= 90 /\ LendingScore(h) <= 89
            BY <1>1, <2>1, ScoreRanges
      <3> QED
          BY <1>1, <3>1
    <2>2. CASE h = 11001
      <3>1. LendingScore(h - 1) >= 60 /\ LendingScore(h) <= 59
            BY <1>1, <2>2, ScoreRanges
      <3> QED
          BY <1>1, <3>1
    <2>3. CASE h = 12001
      <3>1. LendingScore(h - 1) >= 30 /\ LendingScore(h) <= 29
            BY <1>1, <2>3, ScoreRanges
      <3> QED
          BY <1>1, <3>1
    <2> QED
        BY <1>8, <2>1, <2>2, <2>3
  <1>9. CASE h >= 20000
    <2>1. LendingScore(h) = 0
          BY <1>9, ScoreIs
    <2> QED
        BY <1>1, <2>1
  <1> QED
      BY <1>2, <1>3, <1>4, <1>5, <1>6, <1>7, <1>8, <1>9

LEMMA ClassOfScore ==
  ASSUME NEW s \in Int
  PROVE  /\ s >= 80 => Classification(s) = "critical"
         /\ s >= 60 /\ s < 80 => Classification(s) = "high-risk"
         /\ s >= 30 /\ s < 60 => Classification(s) = "guarded"
         /\ s < 30 => Classification(s) = "healthy"
  BY DEF Classification

(* index.ts: the score, the severity and the class of the summary have      *)
(* breakpoints of their own; for every position they agree, and a loan that *)
(* gets worse never scores lower.                                           *)
THEOREM FindingsAgree ==
  ASSUME NEW p, p.kind = "lending" => LoanFits(p.loan)
  PROVE  FindingsAreConsistent(p)
  <1> SUFFICES ASSUME NEW f \in Findings(p)
               PROVE  /\ Classification(f.score) \in AtLeastAsBad[f.severity]
                      /\ f.category = "liquidation" /\ f.health > 0
                           => LendingScore(f.health - 1) >= f.score
      BY DEF FindingsAreConsistent
  <1>1. CASE f \in UnsupportedFindings(p.evidence)
    <2>1. f = [category |-> "unsupported", severity |-> "info", score |-> 0]
          BY <1>1 DEF UnsupportedFindings
    <2>2. Classification(0) = "healthy"
          BY ClassOfScore
    <2> QED
        BY <2>1, <2>2 DEF AtLeastAsBad
  <1>2. CASE f \in OracleFindings(p.evidence, 300)
    <2>1. /\ f.category = "oracle" /\ f.severity \in {"high", "medium"}
          /\ f.score = IF f.severity = "high" THEN 75 ELSE 50
          BY <1>2 DEF OracleFindings
    <2>2. Classification(75) = "high-risk" /\ Classification(50) = "guarded"
          BY ClassOfScore
    <2> QED
        BY <2>1, <2>2 DEF AtLeastAsBad
  <1>3. CASE p.kind = "lending" /\ f = LendingFinding(p.loan)
    <2> PICK h : h = Health(p.loan.collateral, p.loan.debt, p.loan.threshold)
        OBVIOUS
    <2>1. h \in Healths
          BY <1>3, HealthType DEF LoanFits
    <2>2. f.severity = Severity(h) /\ f.score = LendingScore(h) /\ f.health = h
          BY <1>3 DEF LendingFinding
    <2>3. CASE h = Unknown
      <3>1. Severity(h) = "high" /\ LendingScore(h) = 75
            BY <2>3 DEF Severity, LendingScore, ScoreWith
      <3>2. Classification(75) = "high-risk" /\ ~(h > 0)
            BY <2>3, ClassOfScore DEF Unknown
      <3> QED
          BY <2>2, <3>1, <3>2 DEF AtLeastAsBad
    <2>4. CASE h \in Nat
      <3>1. h > 0 => LendingScore(h - 1) >= LendingScore(h)
            BY <2>4, ScoreNeverRises
      <3>2. Classification(LendingScore(h)) \in AtLeastAsBad[Severity(h)]
        <4> PICK s : s = LendingScore(h)
            OBVIOUS
        <4>1. /\ s \in Nat
              /\ h <= 10300 => s >= 90
              /\ h > 10300 /\ h <= 11000 => s >= 60 /\ s <= 89
              /\ h > 11000 /\ h <= 12000 => s >= 30 /\ s <= 59
              /\ h > 12000 => s <= 29
              BY <2>4, ScoreRanges
        <4>2. CASE h <= 10300
          <5>1. Severity(h) = "critical"
                BY <2>4, <4>2 DEF Severity, Unknown
          <5>2. Classification(s) = "critical"
                BY <4>1, <4>2, ClassOfScore
          <5> QED
              BY <5>1, <5>2 DEF AtLeastAsBad
        <4>3. CASE h > 10300 /\ h <= 11000
          <5>1. Severity(h) = "high"
                BY <2>4, <4>3 DEF Severity, Unknown
          <5>2. Classification(s) \in {"critical", "high-risk"}
                BY <4>1, <4>3, ClassOfScore
          <5> QED
              BY <5>1, <5>2 DEF AtLeastAsBad
        <4>4. CASE h > 11000 /\ h <= 12000
          <5>1. Severity(h) = "medium"
                BY <2>4, <4>4 DEF Severity, Unknown
          <5>2. Classification(s) = "guarded"
                BY <4>1, <4>4, ClassOfScore
          <5> QED
              BY <5>1, <5>2 DEF AtLeastAsBad
        <4>5. CASE h > 12000
          <5>1. Severity(h) = "low"
                BY <2>4, <4>5 DEF Severity, Unknown
          <5>2. Classification(s) = "healthy"
                BY <4>1, <4>5, ClassOfScore
          <5> QED
              BY <5>1, <5>2 DEF AtLeastAsBad
        <4>6. h <= 10300 \/ (h > 10300 /\ h <= 11000) \/ (h > 11000 /\ h <= 12000) \/ h > 12000
              BY <2>4
        <4> QED
            BY <4>2, <4>3, <4>4, <4>5, <4>6
      <3> QED
          BY <2>2, <3>1, <3>2
    <2> QED
        BY <2>1, <2>3, <2>4 DEF Healths
  <1>4. CASE p.kind = "liquidity" /\ f = LiquidityFinding(p.pool)
    <2>1. /\ f.category = "liquidity"
          /\ \/ f.severity = "medium" /\ f.score \in {55, 45, 35}
             \/ f.severity = "low" /\ f.score = 15
          BY <1>4 DEF LiquidityFinding
    <2>2. /\ Classification(55) = "guarded" /\ Classification(45) = "guarded"
          /\ Classification(35) = "guarded" /\ Classification(15) = "healthy"
          BY ClassOfScore
    <2> QED
        BY <2>1, <2>2 DEF AtLeastAsBad
  <1> QED
      BY <1>1, <1>2, <1>3, <1>4 DEF Findings

(* Repaying never leaves less than the debt that remains is worth: the      *)
(* value repaid and the two values of the debt are rounded down.            *)
LEMMA RoundingKeepsDebt ==
  ASSUME NEW u \in Nat \ {0}, NEW p \in Nat, NEW a \in Nat, a < u
  PROVE  LET d == (u * p) \div 100
         IN  ((u - a) * p) \div 100 <= d - (a * d) \div u
  <1>1. u * p \in Nat /\ a * p \in Nat /\ u - a \in Nat /\ (u - a) * p \in Nat
        OBVIOUS
  <1>2. a * p + (u - a) * p = u * p
        OBVIOUS
  <1> PICK up : up = u * p
      OBVIOUS
  <1> PICK ap : ap = a * p
      OBVIOUS
  <1> PICK rp : rp = (u - a) * p
      OBVIOUS
  <1> PICK d : d = up \div 100
      OBVIOUS
  <1>3. d \in Nat /\ 100 * d <= up /\ up < 100 * d + 100
        BY <1>1
  <1>4. a * d \in Nat
        BY <1>3
  <1> PICK r : r = (a * d) \div u
      OBVIOUS
  <1>5. r \in Nat /\ u * r <= a * d
        BY <1>4, Quotient
  <1> PICK l : l = rp \div 100
      OBVIOUS
  <1>6. l \in Nat /\ 100 * l <= rp
        BY <1>1
  <1>7. 100 * r <= ap
    <2>1. u * (100 * r) = 100 * (u * r) /\ 100 * (u * r) <= 100 * (a * d)
          BY <1>4, <1>5
    <2>2. 100 * (a * d) = a * (100 * d)
          BY <1>3
    <2>3. a * (100 * d) <= a * up
          BY <1>1, <1>3, ProductGrows
    <2>4. a * up = u * ap
          OBVIOUS
    <2>5. u * (100 * r) <= u * ap
          BY <1>1, <1>3, <1>4, <1>5, <2>1, <2>2, <2>3, <2>4
    <2>6. 100 * r \in Nat /\ ap \in Nat
          BY <1>1, <1>5
    <2> QED
        BY <2>5, <2>6, ProductCancels
  <1>8. l <= d - r
        BY <1>1, <1>2, <1>3, <1>5, <1>6, <1>7
  <1> QED
      BY <1>8

(* The debt was cut to cents before the plan, and what is left is cut       *)
(* afterwards: the plan may leave less than it is worth, by less than a     *)
(* cent.                                                                    *)
LEMMA RoundingCostsACent ==
  ASSUME NEW u \in Nat \ {0}, NEW p \in Nat, NEW a \in Nat, a < u
  PROVE  LET d == ToCents((u * p) \div 100)
             left == ToCents(((u - a) * p) \div 100)
             kept == d - (a * d) \div u
         IN  /\ d \in Nat /\ left \in Nat /\ kept \in Nat
             /\ left < kept + Cent
             /\ left > 0 => left >= Cent
  <1> PICK e : e = (u * p) \div 100
      OBVIOUS
  <1> PICK l : l = ((u - a) * p) \div 100
      OBVIOUS
  <1>1. e \in Nat /\ l \in Nat
    <2>1. u * p \in Nat /\ (u - a) * p \in Nat
          OBVIOUS
    <2> QED
        BY <2>1, Quotient
  <1>2. l <= e - (a * e) \div u
        BY RoundingKeepsDebt
  <1> PICK d : d = ToCents(e)
      OBVIOUS
  <1> PICK left : left = ToCents(l)
      OBVIOUS
  <1>3. /\ d \in Nat /\ d <= e /\ e < d + Cent
    <2> PICK q : q = e \div Cent
        OBVIOUS
    <2>1. q \in Nat /\ Cent * q <= e /\ \A k \in Int : k <= q <=> Cent * k <= e
          BY <1>1, CentAssumption, Quotient
    <2>2. ~(Cent * (q + 1) <= e)
          BY <2>1
    <2>3. q * Cent \in Nat /\ q * Cent = Cent * q /\ Cent * (q + 1) = q * Cent + Cent
          BY <2>1, CentAssumption
    <2> QED
        BY <1>1, <2>1, <2>2, <2>3, CentAssumption DEF ToCents
  <1>4. /\ left \in Nat /\ left <= l /\ (left > 0 => left >= Cent)
    <2> PICK q : q = l \div Cent
        OBVIOUS
    <2>1. q \in Nat /\ Cent * q <= l
          BY <1>1, CentAssumption, Quotient
    <2>2. q * Cent \in Nat /\ q * Cent = Cent * q
          BY <2>1, CentAssumption
    <2>3. q = 0 \/ q * Cent >= Cent
          BY <2>1, CentAssumption
    <2>4. q = 0 => q * Cent = 0
          BY CentAssumption
    <2> QED
        BY <2>1, <2>2, <2>3, <2>4, CentAssumption DEF ToCents
  <1> PICK r : r = (a * d) \div u
      OBVIOUS
  <1> PICK s : s = (a * e) \div u
      OBVIOUS
  <1>5. r \in Nat /\ s \in Nat /\ r <= s /\ r <= d
    <2>1. a * d \in Nat /\ a * e \in Nat /\ a * d <= a * e
          BY <1>1, <1>3, ProductGrows
    <2>2. r \in Nat /\ s \in Nat /\ r <= s
          BY <2>1, Quotient, QuotientGrows
    <2>3. u * r <= a * d
          BY <2>1, Quotient
    <2>4. a * d <= u * d
          BY <1>3
    <2>5. u * r <= u * d
          BY <1>3, <2>1, <2>2, <2>3, <2>4
    <2> QED
        BY <1>3, <2>2, <2>5, ProductCancels
  <1>6. left < d - r + Cent
        BY <1>1, <1>2, <1>3, <1>4, <1>5, CentAssumption
  <1> QED
      BY <1>3, <1>4, <1>5, <1>6

(* packages/execution/src/index.ts: a repayment plan that is ready and      *)
(* leaves a debt leaves it within a cent of the target, for every amount,   *)
(* price and size of the loan, and every precision of the fixed point.      *)
THEOREM PlansReachTarget ==
  ASSUME NEW loan, NEW amount \in Nat, LoanFits(loan), loan.units \in Nat, loan.price \in Nat,
         loan.debt = ToCents((loan.units * loan.price) \div 100)
  PROVE  PlanReachesTarget(loan, amount)
  <1> DEFINE c == loan.collateral
             t == loan.threshold
             left == ToCents(((loan.units - amount) * loan.price) \div 100)
             kept == loan.debt - RepaidValue(loan, amount)
             due == RecommendedRepay(c, left, t)
  <1> SUFFICES ASSUME FixturePlanReady(loan, amount) \/ MainnetPlanReady(loan, amount),
                      amount < loan.units, left > 0
               PROVE  /\ due < Cent
                      /\ due = 0 => Health(c, left, t) >= TargetHealth
                      /\ left >= 10 * Cent => Severity(Health(c, left, t)) = "low"
      BY DEF PlanReachesTarget
  <1>1. loan.units \in Nat \ {0}
        OBVIOUS
  <1>2. RepaidValue(loan, amount) = (amount * loan.debt) \div loan.units
        BY DEF RepaidValue
  <1>3. /\ loan.debt \in Nat /\ left \in Nat /\ kept \in Nat
        /\ left < kept + Cent /\ left >= Cent
    <2> PICK u : u = loan.units
        OBVIOUS
    <2> PICK p : p = loan.price
        OBVIOUS
    <2> PICK d : d = ToCents((u * p) \div 100)
        OBVIOUS
    <2>1. /\ d \in Nat /\ ToCents(((u - amount) * p) \div 100) \in Nat
          /\ d - (amount * d) \div u \in Nat
          /\ ToCents(((u - amount) * p) \div 100) < (d - (amount * d) \div u) + Cent
          /\ ToCents(((u - amount) * p) \div 100) > 0
               => ToCents(((u - amount) * p) \div 100) >= Cent
          BY <1>1, RoundingCostsACent
    <2>2. /\ loan.debt = d /\ left = ToCents(((u - amount) * p) \div 100)
          /\ kept = d - (amount * d) \div u
          BY <1>2, Zenon
    <2> HIDE DEF left, kept
    <2> QED
        BY <2>1, <2>2
  <1> HIDE DEF left, kept
  <1>5. left \in Nat \ {0} /\ kept \in Nat \ {0}
        BY <1>3, CentAssumption
  <1>6. c \in Nat /\ HealthWith(loan, kept) >= TargetHealth
    <2>1. CASE FixturePlanReady(loan, amount)
      <3>1. FixtureHealthAfter(loan, amount) >= TargetHealth
            BY <2>1 DEF FixturePlanReady
      <3>2. FixtureHealthAfter(loan, amount) = IF Unknown \in {c, loan.debt} \/ loan.units = 0
                                               THEN Unknown
                                               ELSE IF kept = 0 THEN NoDebtHealth
                                               ELSE HealthWith(loan, kept)
            BY DEF FixtureHealthAfter, kept
      <3>3. Unknown \notin {c, loan.debt}
            BY <3>1, <3>2 DEF Unknown, TargetHealth
      <3> QED
          BY <1>1, <1>5, <3>1, <3>2, <3>3 DEF LoanFits, Healths
    <2>2. CASE MainnetPlanReady(loan, amount)
      <3>1. MainnetHealthAfter(loan, amount) >= TargetHealth
            BY <2>2 DEF MainnetPlanReady
      <3>2. MainnetHealthAfter(loan, amount) = IF amount >= loan.units THEN NoDebtHealth
                  ELSE IF Unknown \in {c, loan.debt} \/ kept = 0 THEN Unknown
                  ELSE HealthWith(loan, kept)
            BY DEF MainnetHealthAfter, kept
      <3>3. Unknown \notin {c, loan.debt}
            BY <1>1, <3>1, <3>2 DEF Unknown, TargetHealth
      <3> QED
          BY <1>1, <1>5, <3>1, <3>2, <3>3 DEF LoanFits, Healths
    <2> QED
        BY <2>1, <2>2
  <1>7. t \in Nat /\ c * t \in Nat
        BY <1>6 DEF LoanFits
  <1> DEFINE adjusted == Adjusted(c, t)
  <1>8. adjusted \in Nat /\ 10000 * adjusted <= c * t
        BY <1>7, Quotient DEF Adjusted
  <1>9. HealthWith(loan, kept) = (adjusted * 10000) \div kept
        BY DEF HealthWith
  <1>10. due = AtLeast0(left - (adjusted * 10000) \div 13500)
         BY DEF RecommendedRepay, TargetHealth
  <1> HIDE DEF adjusted, due
  <1>11. adjusted * 10000 \in Nat
         BY <1>8
  <1>12. kept * 13500 <= adjusted * 10000
         BY <1>5, <1>6, <1>9, <1>11, Quotient DEF TargetHealth
  <1> PICK target : target = (adjusted * 10000) \div 13500
      OBVIOUS
  <1>13. target \in Nat /\ target * 13500 <= adjusted * 10000 /\ kept <= target
    <2>1. target \in Nat /\ 13500 * target <= adjusted * 10000
          BY <1>11, Quotient
    <2>2. 13500 * kept <= adjusted * 10000
          BY <1>5, <1>12
    <2>3. \A k \in Int : k <= target <=> 13500 * k <= adjusted * 10000
          BY <1>11, Quotient
    <2> QED
        BY <1>5, <2>1, <2>2, <2>3
  <1>14. due < Cent /\ (due = 0 => left <= target)
         BY <1>3, <1>5, <1>10, <1>13, CentAssumption DEF AtLeast0
  <1>15. Health(c, left, t) = (c * t) \div left
         BY <1>5, <1>6 DEF Health, Unknown
  <1> PICK ct : ct = c * t
      OBVIOUS
  <1>16. /\ ct \in Nat /\ ct \div left \in Nat
         /\ \A k \in Int : k <= ct \div left <=> left * k <= ct
         BY <1>5, <1>7, Quotient
  <1>17. ASSUME due = 0 PROVE Health(c, left, t) >= TargetHealth
    <2>1. left * 13500 <= ct
          BY <1>5, <1>7, <1>8, <1>13, <1>14, <1>17
    <2>2. 13500 <= ct \div left
          BY <1>16, <2>1
    <2> QED
        BY <1>15, <1>16, <2>2 DEF TargetHealth
  <1>18. ASSUME left >= 10 * Cent PROVE Severity(Health(c, left, t)) = "low"
    <2>1. 9 * left <= 10 * kept
          BY <1>3, <1>5, <1>18, CentAssumption
    <2>2. left * 12150 <= ct
          BY <1>5, <1>7, <1>8, <1>12, <2>1
    <2>3. 12150 <= ct \div left
          BY <1>16, <2>2
    <2> QED
        BY <1>15, <1>16, <2>3 DEF Severity, Unknown
  <1> QED
      BY <1>14, <1>17, <1>18

-----------------------------------------------------------------------------
(* SbtcLifecycle.  A world: withdrawals are created, accepted or rejected,  *)
(* a deposit is known by the transaction that completes it, each happens    *)
(* once on the canonical chain, and what Emily lists has a status.          *)
IsWorld(w) ==
    w = [address |-> w.address, events |-> w.events, withdrawals |-> w.withdrawals,
         deposits |-> w.deposits, minedAt |-> w.minedAt, tip |-> w.tip,
         emilyAnswers |-> w.emilyAnswers, bitcoinAnswers |-> w.bitcoinAnswers]
WorldFits(w) ==
    /\ IsWorld(w) /\ w.tip \in Nat
    /\ \A t \in DOMAIN w.minedAt : w.minedAt[t] \in Nat
    /\ \A e \in w.events :
         \/ /\ e.op[1] = "withdrawal"
            /\ e.kind \in {"withdrawal-create", "withdrawal-accept", "withdrawal-reject"}
         \/ e.op = <<"deposit", e.txid>> /\ e.kind = "completed-deposit"
    /\ \A e, f \in w.events : e.op = f.op /\ e.kind = f.kind => e = f
    /\ \A r \in w.withdrawals \cup w.deposits : r.status # "none"

Mined(w, t) == t \in DOMAIN w.minedAt /\ w.minedAt[t] <= w.tip

LEMMA ConfirmedIsMined ==
  ASSUME NEW w, WorldFits(w), NEW t
  PROVE  Confirmations(w, t) > 0 <=> Mined(w, t)
  BY DEF Confirmations, Mined, WorldFits

LEMMA AllAreMined ==
  ASSUME NEW w, WorldFits(w), NEW T
  PROVE  AllConfirmed(w, T) <=> T # {} /\ \A t \in T : Mined(w, t)
  BY ConfirmedIsMined DEF AllConfirmed

(* When the answer is "completed".                                          *)
LEMMA WithdrawalCompleted ==
  ASSUME NEW w, NEW kinds, NEW event, NEW emily
  PROVE  ReconcileWithdrawal(w, kinds, event, emily) = "completed"
         <=> /\ "withdrawal-accept" \in kinds /\ "withdrawal-reject" \notin kinds
             /\ emily.status # "failed"
             /\ AllConfirmed(w, WithdrawalTxids(kinds, event, emily))
  BY DEF ReconcileWithdrawal, ConfirmedTooEarly, Stage

LEMMA DepositCompleted ==
  ASSUME NEW w, NEW txid, NEW event, NEW emily
  PROVE  ReconcileDeposit(w, txid, event, emily) = "completed"
         <=> /\ event # NoEvent /\ emily.status # "failed"
             /\ emily # NoRecord => SameDeposit(event, emily)
             /\ AllConfirmed(w, DepositTxids(txid, event))
  BY DEF ReconcileDeposit, ConfirmedTooEarly, Stage

(* Emily's "confirmed" ahead of the chain or of Bitcoin is a conflict.      *)
LEMMA ConfirmedAhead ==
  ASSUME NEW w, NEW op, NEW emily, emily.status = "confirmed"
  PROVE  /\ \A kinds, event :
              \/ ReconcileWithdrawal(w, kinds, event, emily) = "evidence-conflict"
              \/ /\ "withdrawal-accept" \in kinds
                 /\ AllConfirmed(w, WithdrawalTxids(kinds, event, emily))
         /\ \A txid, event :
              \/ ReconcileDeposit(w, txid, event, emily) = "evidence-conflict"
              \/ event # NoEvent /\ AllConfirmed(w, DepositTxids(txid, event))
  BY DEF ReconcileWithdrawal, ReconcileDeposit, ConfirmedTooEarly

(* An operation with one event of the address has all its events, and the   *)
(* event picked of a kind is the one there is.                              *)
LEMMA WholeOperation ==
  ASSUME NEW w, NEW op, OperationEvents(w, op) # {}
  PROVE  OperationEvents(w, op) = {e \in w.events : e.op = op}
  BY DEF OperationEvents, EventsForAddress

LEMMA PickedEvent ==
  ASSUME NEW w, WorldFits(w), NEW op, NEW e \in OperationEvents(w, op)
  PROVE  EventOf(w, op, e.kind) = e
  <1>1. {f \in OperationEvents(w, op) : f.kind = e.kind} = {e}
        BY DEF OperationEvents, EventsForAddress, WorldFits
  <1> QED
      BY <1>1 DEF EventOf, Only

LEMMA NoPickedEvent ==
  ASSUME NEW w, NEW op, NEW kind, \A e \in OperationEvents(w, op) : e.kind # kind
  PROVE  EventOf(w, op, kind) = NoEvent
  <1>1. {f \in OperationEvents(w, op) : f.kind = kind} = {}
        OBVIOUS
  <1> QED
      BY <1>1 DEF EventOf, Only

(* An operation without events is a withdrawal that Emily knows of.         *)
LEMMA NoEventsNoConclusion ==
  ASSUME NEW w, WorldFits(w), NEW op \in Operations(w), OperationEvents(w, op) = {}
  PROVE  op[1] = "withdrawal" /\ EmilyOf(w, op) # NoRecord
  <1>1. PICK r \in WithdrawalsBySender(w) : op = <<"withdrawal", r.id>>
        BY DEF Operations, OperationEvents
  <1> DEFINE S == {s \in WithdrawalsBySender(w) : s.id = op[2]}
  <1>2. op[1] = "withdrawal" /\ EmilyOf(w, op) = Only(S, NoRecord)
        BY <1>1 DEF EmilyOf
  <1>3. r \in S
        BY <1>1
  <1>4. Only(S, NoRecord) \in w.withdrawals
    <2>1. Only(S, NoRecord) \in S
          BY <1>3 DEF Only
    <2> QED
        BY <2>1 DEF WithdrawalsBySender
  <1> QED
      BY <1>2, <1>4 DEF WorldFits, NoRecord

(* The two answers of a world and of the same world a Bitcoin block later   *)
(* rest on the same events and records.                                     *)
LEMMA LaterIsTheSame ==
  ASSUME NEW w, WorldFits(w), NEW v, v = [w EXCEPT !.tip = @ + 1]
  PROVE  /\ WorldFits(v) /\ Operations(v) = Operations(w)
         /\ v.emilyAnswers = w.emilyAnswers /\ v.bitcoinAnswers = w.bitcoinAnswers
         /\ \A t : Mined(w, t) => Mined(v, t)
         /\ \A op : OperationEvents(v, op) = OperationEvents(w, op) /\ EmilyOf(v, op) = EmilyOf(w, op)
  <1>1. /\ v.address = w.address /\ v.events = w.events /\ v.withdrawals = w.withdrawals
        /\ v.deposits = w.deposits /\ v.minedAt = w.minedAt /\ v.tip = w.tip + 1
        /\ v.emilyAnswers = w.emilyAnswers /\ v.bitcoinAnswers = w.bitcoinAnswers /\ IsWorld(v)
        BY DEF WorldFits, IsWorld
  <1>2. WorldFits(v)
        BY <1>1 DEF WorldFits
  <1>3. \A t : Mined(w, t) => Mined(v, t)
        BY <1>1 DEF Mined, WorldFits
  <1>4. EventsForAddress(v) = EventsForAddress(w)
        BY <1>1 DEF EventsForAddress
  <1>5. /\ WithdrawalsBySender(v) = WithdrawalsBySender(w)
        /\ \A x : DepositsByTransaction(v, x) = DepositsByTransaction(w, x)
        BY <1>1 DEF WithdrawalsBySender, DepositsByTransaction
  <1> QED
      BY <1>1, <1>2, <1>3, <1>4, <1>5 DEF Operations, OperationEvents, EmilyOf

(* What "completed" rests on: an event that concluded the operation, all of *)
(* whose transactions are in a block, and no denial.                        *)
LEMMA CompletedIs ==
  ASSUME NEW w, WorldFits(w), NEW op \in Operations(w), StateOf(w, op) = "completed"
  PROVE  Concludes(w, op) /\ NotDenied(w, op)
  <1>1. CASE op[1] = "withdrawal"
    <2> DEFINE kinds == {e.kind : e \in OperationEvents(w, op)}
               event == EventOf(w, op, "withdrawal-accept")
               emily == EmilyOf(w, op)
    <2>1. /\ "withdrawal-accept" \in kinds /\ "withdrawal-reject" \notin kinds
          /\ emily.status # "failed"
          /\ AllConfirmed(w, WithdrawalTxids(kinds, event, emily))
          BY <1>1, WithdrawalCompleted DEF StateOf
    <2>2. PICK e \in OperationEvents(w, op) : e.kind = "withdrawal-accept"
          BY <2>1
    <2>3. event = e
          BY <2>2, PickedEvent
    <2>4. {e.txid, e.sweep} \subseteq WithdrawalTxids(kinds, event, emily)
          BY <2>1, <2>3 DEF WithdrawalTxids
    <2>5. \A t \in {e.txid, e.sweep} : Mined(w, t)
          BY <2>1, <2>4, AllAreMined
    <2>6. OperationEvents(w, op) = {f \in w.events : f.op = op}
          BY <2>2, WholeOperation
    <2>7. Concludes(w, op)
          BY <2>2, <2>5, <2>6 DEF Concludes, Mined
    <2> QED
        BY <1>1, <2>1, <2>6, <2>7 DEF NotDenied
  <1>2. CASE op[1] # "withdrawal"
    <2> DEFINE event == EventOf(w, op, "completed-deposit")
               emily == EmilyOf(w, op)
    <2>1. /\ event # NoEvent /\ emily.status # "failed"
          /\ emily # NoRecord => SameDeposit(event, emily)
          /\ AllConfirmed(w, DepositTxids(op[2], event))
          BY <1>2, DepositCompleted DEF StateOf
    <2>2. PICK e \in OperationEvents(w, op) : e.kind = "completed-deposit"
          BY <2>1, NoPickedEvent
    <2>3. event = e
          BY <2>2, PickedEvent
    <2>4. OperationEvents(w, op) = {f \in w.events : f.op = op}
          BY <2>2, WholeOperation
    <2>5. op = <<"deposit", e.txid>>
          BY <2>2, <2>4 DEF WorldFits
    <2>6. {e.txid, e.sweep} \subseteq DepositTxids(op[2], event)
          BY <2>1, <2>3, <2>5 DEF DepositTxids
    <2>7. \A t \in {e.txid, e.sweep} : Mined(w, t)
          BY <2>1, <2>6, AllAreMined
    <2>8. Concludes(w, op)
          BY <2>2, <2>4, <2>7 DEF Concludes, Mined
    <2>9. ~\E f \in w.events : f.op = op /\ f.kind = "withdrawal-reject"
          BY <1>2 DEF WorldFits
    <2> QED
        BY <2>1, <2>8, <2>9 DEF NotDenied
  <1> QED
      BY <1>1, <1>2

(* Completed stays so when Bitcoin goes on.                                 *)
LEMMA CompletedStays ==
  ASSUME NEW w, WorldFits(w), NEW v, v = [w EXCEPT !.tip = @ + 1],
         NEW op \in Operations(w), StateOf(w, op) = "completed"
  PROVE  StateOf(v, op) = "completed"
  <1>1. /\ WorldFits(v) /\ \A t : Mined(w, t) => Mined(v, t)
        /\ OperationEvents(v, op) = OperationEvents(w, op) /\ EmilyOf(v, op) = EmilyOf(w, op)
        BY LaterIsTheSame
  <1>2. \A kind : EventOf(v, op, kind) = EventOf(w, op, kind)
        BY <1>1 DEF EventOf
  <1>3. \A T : AllConfirmed(w, T) => AllConfirmed(v, T)
        BY <1>1, AllAreMined
  <1>4. CASE op[1] = "withdrawal"
    <2> DEFINE kinds == {e.kind : e \in OperationEvents(w, op)}
               event == EventOf(w, op, "withdrawal-accept")
               emily == EmilyOf(w, op)
    <2>1. /\ StateOf(w, op) = ReconcileWithdrawal(w, kinds, event, emily)
          /\ StateOf(v, op) = ReconcileWithdrawal(v, kinds, event, emily)
          BY <1>1, <1>2, <1>4 DEF StateOf
    <2> HIDE DEF kinds, event, emily
    <2> QED
        BY <1>3, <2>1, WithdrawalCompleted
  <1>5. CASE op[1] # "withdrawal"
        BY <1>1, <1>2, <1>3, <1>5, DepositCompleted DEF StateOf
  <1> QED
      BY <1>4, <1>5

(* Emily is not needed.                                                     *)
LEMMA ChainSuffices ==
  ASSUME NEW w, WorldFits(w), NEW op \in Operations(w), Concludes(w, op), NotDenied(w, op),
         EmilyOf(w, op) = NoRecord
  PROVE  StateOf(w, op) = "completed"
  <1>1. PICK e \in w.events :
          /\ e.op = op /\ e.kind \in {"withdrawal-accept", "completed-deposit"}
          /\ \A t \in {e.txid, e.sweep} : Mined(w, t)
        BY DEF Concludes, Mined
  <1>2. OperationEvents(w, op) # {}
        BY NoEventsNoConclusion
  <1>3. OperationEvents(w, op) = {f \in w.events : f.op = op}
        BY <1>2, WholeOperation
  <1>4. e \in OperationEvents(w, op) /\ EventOf(w, op, e.kind) = e
        BY <1>1, <1>3, PickedEvent
  <1>5. CASE e.kind = "withdrawal-accept"
    <2>1. op[1] = "withdrawal"
          BY <1>1, <1>5 DEF WorldFits
    <2> DEFINE kinds == {f.kind : f \in OperationEvents(w, op)}
    <2>2. "withdrawal-accept" \in kinds /\ "withdrawal-reject" \notin kinds
          BY <1>3, <1>4, <1>5 DEF NotDenied
    <2>3. WithdrawalTxids(kinds, e, NoRecord) = {e.txid, e.sweep}
          BY <2>2 DEF WithdrawalTxids, NoRecord
    <2>4. AllConfirmed(w, WithdrawalTxids(kinds, e, NoRecord))
          BY <1>1, <2>3, AllAreMined
    <2>5. ReconcileWithdrawal(w, kinds, e, NoRecord) = "completed"
          BY <2>2, <2>4, WithdrawalCompleted DEF NoRecord
    <2> QED
        BY <1>4, <1>5, <2>1, <2>5 DEF StateOf
  <1>6. CASE e.kind = "completed-deposit"
    <2>1. op = <<"deposit", e.txid>>
          BY <1>1, <1>6 DEF WorldFits
    <2>2. e # NoEvent
          BY <1>6 DEF NoEvent
    <2>3. DepositTxids(op[2], e) = {e.txid, e.sweep}
          BY <2>1, <2>2 DEF DepositTxids
    <2>4. AllConfirmed(w, DepositTxids(op[2], e))
          BY <1>1, <2>3, AllAreMined
    <2>5. ReconcileDeposit(w, op[2], e, NoRecord) = "completed"
          BY <2>2, <2>4, DepositCompleted DEF NoRecord
    <2> QED
        BY <1>4, <1>6, <2>1, <2>5 DEF StateOf
  <1> QED
      BY <1>1, <1>5, <1>6

(* Nor is Emily enough.                                                     *)
LEMMA EmilyAlone ==
  ASSUME NEW w, WorldFits(w), NEW op \in Operations(w),
         EmilyOf(w, op).status = "confirmed", ~Concludes(w, op)
  PROVE  StateOf(w, op) = "evidence-conflict"
  <1> SUFFICES ASSUME StateOf(w, op) # "evidence-conflict" PROVE FALSE
      OBVIOUS
  <1>1. CASE op[1] = "withdrawal"
    <2> DEFINE kinds == {e.kind : e \in OperationEvents(w, op)}
               event == EventOf(w, op, "withdrawal-accept")
               emily == EmilyOf(w, op)
    <2>1. "withdrawal-accept" \in kinds /\ AllConfirmed(w, WithdrawalTxids(kinds, event, emily))
          BY <1>1, ConfirmedAhead DEF StateOf
    <2>2. PICK e \in OperationEvents(w, op) : e.kind = "withdrawal-accept"
          BY <2>1
    <2>3. event = e
          BY <2>2, PickedEvent
    <2>4. {e.txid, e.sweep} \subseteq WithdrawalTxids(kinds, event, emily)
          BY <2>1, <2>3 DEF WithdrawalTxids
    <2>5. \A t \in {e.txid, e.sweep} : Mined(w, t)
          BY <2>1, <2>4, AllAreMined
    <2>6. e \in w.events /\ e.op = op
          BY <2>2 DEF OperationEvents, EventsForAddress
    <2> QED
        BY <2>2, <2>5, <2>6 DEF Concludes, Mined
  <1>2. CASE op[1] # "withdrawal"
    <2> DEFINE event == EventOf(w, op, "completed-deposit")
               emily == EmilyOf(w, op)
    <2>1. event # NoEvent /\ AllConfirmed(w, DepositTxids(op[2], event))
          BY <1>2, ConfirmedAhead DEF StateOf
    <2>2. PICK e \in OperationEvents(w, op) : e.kind = "completed-deposit"
          BY <2>1, NoPickedEvent
    <2>3. event = e
          BY <2>2, PickedEvent
    <2>4. e \in w.events /\ e.op = op
          BY <2>2 DEF OperationEvents, EventsForAddress
    <2>5. op = <<"deposit", e.txid>>
          BY <2>2, <2>4 DEF WorldFits
    <2>6. {e.txid, e.sweep} \subseteq DepositTxids(op[2], event)
          BY <2>1, <2>3, <2>5 DEF DepositTxids
    <2>7. \A t \in {e.txid, e.sweep} : Mined(w, t)
          BY <2>1, <2>6, AllAreMined
    <2> QED
        BY <2>2, <2>4, <2>7 DEF Concludes, Mined
  <1> QED
      BY <1>1, <1>2

(* sbtc-reconciliation.ts: for every world, completed means concluded on    *)
(* Stacks, all of it in Bitcoin blocks and denied by nobody, and lasts;     *)
(* Emily's word is neither needed nor enough.                               *)
THEOREM LifecycleHolds ==
  ASSUME NEW w, WorldFits(w)
  PROVE  LifecycleIsSound(w)
  <1> DEFINE v == [w EXCEPT !.tip = @ + 1]
             answer == ReconcileSbtcAddress(w)
             later == ReconcileSbtcAddress(v)
  <1> SUFFICES ASSUME answer.ok, NEW op \in Operations(w)
      PROVE /\ answer.state[op] = "completed" =>
                 Concludes(w, op) /\ NotDenied(w, op) /\ later.state[op] = "completed"
            /\ Concludes(w, op) /\ NotDenied(w, op) /\ EmilyOf(w, op) = NoRecord
                 => answer.state[op] = "completed"
            /\ EmilyOf(w, op).status = "confirmed" /\ ~Concludes(w, op)
                 => answer.state[op] = "evidence-conflict"
      BY DEF LifecycleIsSound
  <1>1. w.emilyAnswers /\ w.bitcoinAnswers
        BY DEF ReconcileSbtcAddress, NoEvidenceToday
  <1>2. answer.state[op] = StateOf(w, op)
        BY <1>1 DEF ReconcileSbtcAddress
  <1>3. /\ v.emilyAnswers /\ v.bitcoinAnswers /\ Operations(v) = Operations(w)
        BY <1>1, LaterIsTheSame
  <1> HIDE DEF v
  <1>4. later.state[op] = StateOf(v, op)
        BY <1>3 DEF ReconcileSbtcAddress
  <1> HIDE DEF answer, later
  <1>5. StateOf(w, op) = "completed" => StateOf(v, op) = "completed"
        BY CompletedStays DEF v
  <1> QED
      BY <1>2, <1>4, <1>5, CompletedIs, ChainSuffices, EmilyAlone

-----------------------------------------------------------------------------
(* PositionReads.  Sums, as runs of partial sums.                           *)
SumsUp(r, s) ==
    /\ r \in [0..Len(s) -> Nat] /\ r[0] = 0
    /\ \A k \in 1..Len(s) : r[k] = r[k - 1] + s[k]

LEMMA SumRuns ==
  ASSUME NEW s \in Seq(Nat)
  PROVE  \E r : SumsUp(r, s) /\ SumSeq(s) = r[Len(s)]
  <1> DEFINE D == DOMAIN s
             iter[t \in SUBSET D] ==
                IF t = {} THEN 0
                ELSE LET x == Max(t) IN iter[t \ {x}] + s[x]
             step == [q \in (1..Len(s)) \X Nat |-> q[2] + s[q[1]]]
  <1>1. SumSeq(s) = iter[D]
        BY Zenon DEF SumSeq, FoldLeft, MapThenFoldSet
  <1>2. D = 1..Len(s) /\ Len(s) \in Nat /\ \A i \in D : s[i] \in Nat
        BY LenProperties
  <1>3. StepsOn(step, Len(s), Nat)
        BY <1>2 DEF StepsOn
  <1>4. iter = [t \in SUBSET D |->
                IF t = {} THEN 0
                ELSE LET x == Max(t) IN iter[t \ {x}] + s[x]]
    <2>1. PICK g \in [SUBSET D -> Nat] : \A t \in SUBSET D :
            g[t] = IF t = {} THEN 0 ELSE step[<<Max(t), g[t \ {Max(t)}]>>]
      <3> HIDE DEF step, iter
      <3>1. PICK g \in [SUBSET (1..Len(s)) -> Nat] : FoldedOver(g, Len(s), 0, step)
            BY <1>2, <1>3, FoldsOverPositions
      <3> HIDE DEF D
      <3> QED
          BY <1>2, <3>1 DEF FoldedOver
    <2>2. \A t \in SUBSET D : t # {} => Max(t) \in D
      <3> HIDE DEF step, iter
      <3>1. IsFiniteSet(D) /\ D \subseteq Nat
            BY <1>2, FS_Interval
      <3> HIDE DEF D
      <3> QED
          BY <3>1, FS_Subset, GreatestOfFinite
    <2>3. \A t \in SUBSET D : t # {} =>
            step[<<Max(t), g[t \ {Max(t)}]>>] = g[t \ {Max(t)}] + s[Max(t)]
          BY <1>2, <2>1, <2>2
    <2>4. g = [t \in SUBSET D |->
                IF t = {} THEN 0
                ELSE LET x == Max(t) IN g[t \ {x}] + s[x]]
      <3> HIDE DEF step
      <3> QED
          BY <2>1, <2>3
    <2> QED
        BY <2>4
  <1> HIDE DEF iter
  <1>5. iter[1..0] = 0
        BY <1>4
  <1>6. ASSUME NEW k \in 1..Len(s), iter[1..(k - 1)] \in Nat
        PROVE  /\ iter[1..k] = iter[1..(k - 1)] + s[k]
               /\ iter[1..k] = step[<<k, iter[1..(k - 1)]>>]
    <2>1. k \in Nat \ {0} /\ k <= Len(s)
          BY <1>2
    <2>2. 1..k \in SUBSET D
          BY <1>2, <2>1
    <2>3. 1..k # {} /\ (1..k) \ {k} = 1..(k - 1)
          BY <2>1, AllButLast
    <2>4. Max(1..k) = k
          BY <2>1, LastOfInterval
    <2>5. iter[1..k] = iter[1..(k - 1)] + s[k]
          BY <1>4, <2>2, <2>3, <2>4
    <2> QED
        BY <1>6, <2>5
  <1>7. StepsIn(iter, Len(s), Nat, 0, step)
    <2> HIDE DEF step
    <2> QED
        BY <1>5, <1>6 DEF StepsIn
  <1>8. PICK r : RunsFrom(r, Len(s), Nat, 0, step) /\ r[Len(s)] = iter[1..Len(s)]
    <2> HIDE DEF step, D
    <2> QED
        BY <1>2, <1>3, <1>7, RunOfFold
  <1>9. \A k \in 1..Len(s) : k - 1 \in 0..Len(s)
        BY <1>2
  <1>10. r \in [0..Len(s) -> Nat] /\ r[0] = 0
         BY <1>8 DEF RunsFrom
  <1>11. \A k \in 1..Len(s) : r[k] = r[k - 1] + s[k]
         BY <1>8, <1>9, <1>10 DEF RunsFrom
  <1> HIDE DEF step
  <1> QED
      BY <1>1, <1>2, <1>8, <1>10, <1>11 DEF SumsUp

(* Of two sums, element by element the smaller is the smaller.              *)
LEMMA SumsCompare ==
  ASSUME NEW s \in Seq(Nat), NEW t \in Seq(Nat), Len(s) = Len(t),
         \A i \in 1..Len(s) : s[i] <= t[i]
  PROVE  SumSeq(s) \in Nat /\ SumSeq(s) <= SumSeq(t)
  <1> PICK n : n = Len(s)
      OBVIOUS
  <1>1. n \in Nat /\ \A i \in 1..n : s[i] \in Nat /\ t[i] \in Nat /\ s[i] <= t[i]
        BY LenProperties
  <1>2. PICK a : SumsUp(a, s) /\ SumSeq(s) = a[n]
        BY SumRuns
  <1>3. PICK b : SumsUp(b, t) /\ SumSeq(t) = b[n]
        BY SumRuns
  <1> DEFINE Upto == {k \in Nat : k <= n => a[k] \in Nat /\ b[k] \in Nat /\ a[k] <= b[k]}
  <1>4. 0 \in Upto
        BY <1>2, <1>3 DEF SumsUp
  <1>5. ASSUME NEW k \in Nat, k \in Upto PROVE k + 1 \in Upto
    <2>1. SUFFICES ASSUME k + 1 <= n
                   PROVE  a[k + 1] \in Nat /\ b[k + 1] \in Nat /\ a[k + 1] <= b[k + 1]
          OBVIOUS
    <2>2. k + 1 \in 1..n /\ (k + 1) - 1 = k /\ k <= n
          BY <1>1, <2>1
    <2>3. a[k + 1] = a[k] + s[k + 1] /\ b[k + 1] = b[k] + t[k + 1]
          BY <1>2, <1>3, <2>2 DEF SumsUp
    <2>4. a[k] \in Nat /\ b[k] \in Nat /\ a[k] <= b[k]
          BY <1>5, <2>2
    <2>5. s[k + 1] \in Nat /\ t[k + 1] \in Nat /\ s[k + 1] <= t[k + 1]
          BY <1>1, <2>2
    <2>6. PICK x, y, u, v : x = a[k] /\ y = b[k] /\ u = s[k + 1] /\ v = t[k + 1]
          OBVIOUS
    <2>7. a[k + 1] = x + u /\ b[k + 1] = y + v
          BY <2>3, <2>6
    <2>8. x \in Nat /\ y \in Nat /\ u \in Nat /\ v \in Nat /\ x <= y /\ u <= v
          BY <2>4, <2>5, <2>6
    <2> QED
        BY <2>7, <2>8
  <1>6. Nat \subseteq Upto
    <2> HIDE DEF Upto
    <2> QED
        BY <1>4, <1>5, NatSetInduction
  <1> QED
      BY <1>1, <1>2, <1>3, <1>6

LEMMA Products ==
  ASSUME NEW a \in Int, NEW b \in Int, NEW c \in Int
  PROVE  a * (b + c) = a * b + a * c /\ a * b \in Int /\ a * b = b * a
  OBVIOUS

(* Division that rounds up, and down.                                       *)
LEMMA RoundedUp ==
  ASSUME NEW n \in Nat, NEW d \in Nat \ {0}
  PROVE  CeilDiv(n, d) \in Nat /\ n <= d * CeilDiv(n, d) /\ d * CeilDiv(n, d) <= n + d - 1
  <1> PICK x : x = n + d - 1
      OBVIOUS
  <1>1. x \in Nat /\ CeilDiv(n, d) = x \div d
        BY DEF CeilDiv
  <1>2. x \div d \in Nat /\ d * (x \div d) <= x
        BY <1>1, Quotient
  <1>3. d * (x \div d) + d > x
        BY <1>1
  <1> PICK q : q = x \div d
      OBVIOUS
  <1>4. q \in Nat /\ d * q \in Nat /\ d * q <= x /\ d * q + d > x
        BY <1>2, <1>3
  <1> QED
      BY <1>1, <1>4

LEMMA RoundedDown ==
  ASSUME NEW n \in Nat, NEW d \in Nat \ {0}
  PROVE  n \div d \in Nat /\ d * (n \div d) <= n /\ n <= d * (n \div d) + d - 1
  <1>1. n \div d \in Nat /\ d * (n \div d) <= n
        BY Quotient
  <1>2. d * (n \div d) + d > n
        OBVIOUS
  <1> PICK q : q = n \div d
      OBVIOUS
  <1>3. q \in Nat /\ d * q \in Nat /\ d * q <= n /\ d * q + d > n
        BY <1>1, <1>2
  <1> QED
      BY <1>3

(* One borrower's share of a debt, one provider's share of a balance.       *)
LEMMA ShareOwed ==
  ASSUME NEW pool \in Nat, NEW share \in Nat, NEW total \in Nat \ {0},
         NEW owed, owed = GraniteDebt(share, pool, total)
  PROVE  /\ owed \in Nat /\ pool * share <= total * owed
         /\ total * owed <= pool * share + total
  <1>1. CASE share = 0
    <2>1. owed = 0 /\ pool * share = 0
          BY <1>1 DEF GraniteDebt
    <2> QED
        BY <2>1
  <1>2. CASE share # 0
    <2>1. pool * share \in Nat /\ owed = CeilDiv(pool * share, total)
          BY <1>2 DEF GraniteDebt
    <2> PICK n : n = pool * share
        OBVIOUS
    <2>2. n \in Nat /\ owed = CeilDiv(n, total)
          BY <2>1
    <2>3. owed \in Nat /\ n <= total * owed /\ total * owed <= n + total - 1
          BY <2>2, RoundedUp
    <2>4. total * owed \in Nat
          BY <2>3
    <2> QED
        BY <2>2, <2>3, <2>4
  <1> QED
      BY <1>1, <1>2

LEMMA ShareOwned ==
  ASSUME NEW pool \in Nat, NEW share \in Nat, NEW total \in Nat \ {0},
         NEW owned, owned = BinShare(pool, share, total)
  PROVE  /\ owned \in Nat /\ total * owned <= pool * share
         /\ pool * share <= total * owned + total
  <1>1. CASE share = 0
    <2>1. owned = 0 /\ pool * share = 0
          BY <1>1 DEF BinShare
    <2> QED
        BY <2>1
  <1>2. CASE share # 0
    <2>1. pool * share \in Nat /\ owned = (pool * share) \div total
          BY <1>2 DEF BinShare
    <2> PICK n : n = pool * share
        OBVIOUS
    <2>2. n \in Nat /\ owned = n \div total
          BY <2>1
    <2>3. owned \in Nat /\ total * owned <= n /\ n <= total * owned + total - 1
          BY <2>2, RoundedDown
    <2>4. total * owned \in Nat
          BY <2>3
    <2> QED
        BY <2>2, <2>3, <2>4
  <1> QED
      BY <1>1, <1>2

LEMMA OneMoreOwed ==
  ASSUME NEW p \in Nat, NEW t \in Nat, NEW x \in Nat, NEW y \in Nat, NEW u \in Nat,
         NEW v \in Nat, NEW k \in Nat,
         p * x <= t * y, t * y <= p * x + t * k, p * u <= t * v, t * v <= p * u + t
  PROVE  p * (x + u) <= t * (y + v) /\ t * (y + v) <= p * (x + u) + t * (k + 1)
  <1>1. p * (x + u) = p * x + p * u /\ p * x \in Int /\ p * u \in Int
        BY Products
  <1>2. t * (y + v) = t * y + t * v /\ t * y \in Int /\ t * v \in Int
        BY Products
  <1>3. t * (k + 1) = t * k + t * 1 /\ t * k \in Int /\ t * 1 = t
        BY Products
  <1> QED
      BY <1>1, <1>2, <1>3

LEMMA OneMoreOwned ==
  ASSUME NEW p \in Nat, NEW t \in Nat, NEW x \in Nat, NEW y \in Nat, NEW u \in Nat,
         NEW v \in Nat, NEW k \in Nat,
         t * y <= p * x, p * x <= t * y + t * k, t * v <= p * u, p * u <= t * v + t
  PROVE  t * (y + v) <= p * (x + u) /\ p * (x + u) <= t * (y + v) + t * (k + 1)
  <1>1. p * (x + u) = p * x + p * u /\ p * x \in Int /\ p * u \in Int
        BY Products
  <1>2. t * (y + v) = t * y + t * v /\ t * y \in Int /\ t * v \in Int
        BY Products
  <1>3. t * (k + 1) = t * k + t * 1 /\ t * k \in Int /\ t * 1 = t
        BY Products
  <1> QED
      BY <1>1, <1>2, <1>3

(* Amounts that are each a share of the pool up to one unit add up to the   *)
(* pool up to as many units as there are shares.                            *)
LEMMA SharesAddUp ==
  ASSUME NEW shares \in Seq(Nat), NEW amounts \in Seq(Nat), Len(amounts) = Len(shares),
         NEW pool \in Nat, NEW total \in Nat \ {0}, total = SumSeq(shares)
  PROVE  /\ SumSeq(amounts) \in Nat
         /\ (\A i \in 1..Len(shares) : /\ pool * shares[i] <= total * amounts[i]
                                       /\ total * amounts[i] <= pool * shares[i] + total)
              => pool <= SumSeq(amounts) /\ SumSeq(amounts) <= pool + Len(shares)
         /\ (\A i \in 1..Len(shares) : /\ total * amounts[i] <= pool * shares[i]
                                       /\ pool * shares[i] <= total * amounts[i] + total)
              => SumSeq(amounts) <= pool /\ pool <= SumSeq(amounts) + Len(shares)
  <1> PICK n : n = Len(shares)
      OBVIOUS
  <1>1. n \in Nat /\ \A i \in 1..n : shares[i] \in Nat /\ amounts[i] \in Nat
        BY LenProperties
  <1>2. PICK a : SumsUp(a, shares) /\ total = a[n]
        BY SumRuns
  <1>3. PICK b : SumsUp(b, amounts) /\ SumSeq(amounts) = b[n]
        BY SumRuns
  <1>4. \A k \in 0..n : a[k] \in Nat /\ b[k] \in Nat
        BY <1>1, <1>2, <1>3 DEF SumsUp
  <1>5. a[0] = 0 /\ b[0] = 0
        BY <1>2, <1>3 DEF SumsUp
  <1>6. ASSUME NEW k \in Nat, k + 1 <= n
        PROVE  /\ k + 1 \in 1..n /\ a[k + 1] = a[k] + shares[k + 1] /\ b[k + 1] = b[k] + amounts[k + 1]
               /\ a[k] \in Nat /\ b[k] \in Nat /\ shares[k + 1] \in Nat /\ amounts[k + 1] \in Nat
               /\ k <= n
    <2>1. k + 1 \in 1..n /\ (k + 1) - 1 = k /\ k \in 0..n /\ k <= n
          BY <1>1, <1>6
    <2> QED
        BY <1>1, <1>2, <1>3, <1>4, <2>1 DEF SumsUp
  <1>7. ASSUME \A i \in 1..n : /\ pool * shares[i] <= total * amounts[i]
                               /\ total * amounts[i] <= pool * shares[i] + total
        PROVE  pool <= b[n] /\ b[n] <= pool + n
    <2> DEFINE Upto == {k \in Nat : k <= n => /\ pool * a[k] <= total * b[k]
                                              /\ total * b[k] <= pool * a[k] + total * k}
    <2>1. 0 \in Upto
          BY <1>5
    <2>2. ASSUME NEW k \in Nat, k \in Upto PROVE k + 1 \in Upto
      <3>1. SUFFICES ASSUME k + 1 <= n
                     PROVE  /\ pool * a[k + 1] <= total * b[k + 1]
                            /\ total * b[k + 1] <= pool * a[k + 1] + total * (k + 1)
            OBVIOUS
      <3>2. PICK x, y, u, v : x = a[k] /\ y = b[k] /\ u = shares[k + 1] /\ v = amounts[k + 1]
            OBVIOUS
      <3>3. /\ x \in Nat /\ y \in Nat /\ u \in Nat /\ v \in Nat
            /\ a[k + 1] = x + u /\ b[k + 1] = y + v /\ k + 1 \in 1..n /\ k <= n
            BY <1>6, <3>1, <3>2
      <3>4. pool * x <= total * y /\ total * y <= pool * x + total * k
            BY <2>2, <3>3, <3>2
      <3>5. pool * u <= total * v /\ total * v <= pool * u + total
            BY <1>7, <3>3, <3>2
      <3>6. pool * (x + u) <= total * (y + v) /\ total * (y + v) <= pool * (x + u) + total * (k + 1)
            BY <3>3, <3>4, <3>5, OneMoreOwed
      <3> QED
          BY <3>3, <3>6
    <2>3. Nat \subseteq Upto
      <3> HIDE DEF Upto
      <3> QED
          BY <2>1, <2>2, NatSetInduction
    <2>4. PICK y : y = b[n]
          OBVIOUS
    <2>5. y \in Nat /\ pool * total <= total * y /\ total * y <= pool * total + total * n
          BY <1>1, <1>2, <1>4, <2>3, <2>4
    <2>6. total * (pool + n) = total * pool + total * n
          BY <1>1, Products
    <2>7. pool * total = total * pool /\ pool + n \in Nat
          BY <1>1
    <2>8. total * pool <= total * y /\ total * y <= total * (pool + n)
          BY <2>5, <2>6, <2>7
    <2> QED
        BY <1>1, <2>5, <2>7, <2>4, <2>8, ProductCancels
  <1>8. ASSUME \A i \in 1..n : /\ total * amounts[i] <= pool * shares[i]
                               /\ pool * shares[i] <= total * amounts[i] + total
        PROVE  b[n] <= pool /\ pool <= b[n] + n
    <2> DEFINE Upto == {k \in Nat : k <= n => /\ total * b[k] <= pool * a[k]
                                              /\ pool * a[k] <= total * b[k] + total * k}
    <2>1. 0 \in Upto
          BY <1>5
    <2>2. ASSUME NEW k \in Nat, k \in Upto PROVE k + 1 \in Upto
      <3>1. SUFFICES ASSUME k + 1 <= n
                     PROVE  /\ total * b[k + 1] <= pool * a[k + 1]
                            /\ pool * a[k + 1] <= total * b[k + 1] + total * (k + 1)
            OBVIOUS
      <3>2. PICK x, y, u, v : x = a[k] /\ y = b[k] /\ u = shares[k + 1] /\ v = amounts[k + 1]
            OBVIOUS
      <3>3. /\ x \in Nat /\ y \in Nat /\ u \in Nat /\ v \in Nat
            /\ a[k + 1] = x + u /\ b[k + 1] = y + v /\ k + 1 \in 1..n /\ k <= n
            BY <1>6, <3>1, <3>2
      <3>4. total * y <= pool * x /\ pool * x <= total * y + total * k
            BY <2>2, <3>3, <3>2
      <3>5. total * v <= pool * u /\ pool * u <= total * v + total
            BY <1>8, <3>3, <3>2
      <3>6. total * (y + v) <= pool * (x + u) /\ pool * (x + u) <= total * (y + v) + total * (k + 1)
            BY <3>3, <3>4, <3>5, OneMoreOwned
      <3> QED
          BY <3>3, <3>6
    <2>3. Nat \subseteq Upto
      <3> HIDE DEF Upto
      <3> QED
          BY <2>1, <2>2, NatSetInduction
    <2>4. PICK y : y = b[n]
          OBVIOUS
    <2>5. y \in Nat /\ total * y <= pool * total /\ pool * total <= total * y + total * n
          BY <1>1, <1>2, <1>4, <2>3, <2>4
    <2>6. /\ pool * total = total * pool /\ y + n \in Nat
          /\ total * (y + n) = total * y + total * n
      <3>1. pool \in Int /\ total \in Int /\ y \in Int /\ n \in Int /\ y + n \in Nat
            BY <1>1, <2>5
      <3>2. pool * total = total * pool
            BY <3>1, Products
      <3>3. total * (y + n) = total * y + total * n
            BY <3>1, Products
      <3> QED
          BY <3>1, <3>2, <3>3
    <2>7. total * y <= total * pool /\ total * pool <= total * (y + n)
          BY <2>5, <2>6
    <2> QED
        BY <1>1, <2>5, <2>6, <2>7, <2>4, ProductCancels
  <1>9. b[n] \in Nat
        BY <1>1, <1>4
  <1> QED
      BY <1>3, <1>7, <1>8, <1>9

LEMMA SumCovers ==
  ASSUME NEW s \in Seq(Nat)
  PROVE  SumSeq(s) \in Nat /\ \A i \in 1..Len(s) : s[i] <= SumSeq(s)
  <1>1. PICK n : n = Len(s)
        OBVIOUS
  <1>2. n \in Nat /\ \A i \in 1..n : s[i] \in Nat
        BY <1>1, LenProperties
  <1>3. PICK a : SumsUp(a, s) /\ SumSeq(s) = a[n]
        BY <1>1, SumRuns
  <1>4. a[0] = 0 /\ \A k \in 0..n : a[k] \in Nat
        BY <1>1, <1>3 DEF SumsUp
  <1> DEFINE Upto == {k \in Nat : k <= n => \A i \in 1..k : s[i] <= a[k]}
  <1>5. 0 \in Upto
        OBVIOUS
  <1>6. ASSUME NEW k \in Nat, k \in Upto PROVE k + 1 \in Upto
    <2>1. SUFFICES ASSUME k + 1 <= n, NEW i \in 1..(k + 1)
                   PROVE  s[i] <= a[k + 1]
          OBVIOUS
    <2>2. k + 1 \in 1..n /\ (k + 1) - 1 = k /\ k \in 0..n /\ i \in 1..n
          BY <1>2, <2>1
    <2>3. a[k + 1] = a[k] + s[k + 1]
          BY <1>1, <1>3, <2>2 DEF SumsUp
    <2>4. a[k] \in Nat /\ s[k + 1] \in Nat /\ s[i] \in Nat
          BY <1>2, <1>4, <2>2
    <2>5. i = k + 1 \/ s[i] <= a[k]
          BY <1>6, <2>1, <2>2
    <2>6. PICK x, y, z : x = a[k] /\ y = s[k + 1] /\ z = s[i]
          OBVIOUS
    <2>7. x \in Nat /\ y \in Nat /\ z \in Nat /\ a[k + 1] = x + y /\ (z = y \/ z <= x)
          BY <2>3, <2>4, <2>5, <2>6
    <2> QED
        BY <2>6, <2>7, SMTT(30)
  <1>7. Nat \subseteq Upto
    <2> HIDE DEF Upto
    <2> QED
        BY <1>5, <1>6, NatSetInduction
  <1>8. a[n] \in Nat
        BY <1>2, <1>4
  <1> QED
      BY <1>1, <1>2, <1>3, <1>7, <1>8

(* Granite and Bitflow divide what a market owes or holds: whatever the     *)
(* shares, all borrowers together owe at least what is lent, all providers  *)
(* own at most what is there, and each rounding costs at most one unit.     *)
MarketFits(m) == m.shares \in Seq(Nat) /\ m.pool \in Nat

THEOREM MarketsAddUp ==
  ASSUME NEW m, MarketFits(m)
  PROVE  MarketIsSound(m)
  <1>1. PICK shares, pool, n, total :
          shares = m.shares /\ pool = m.pool /\ n = Len(shares) /\ total = SumSeq(shares)
        OBVIOUS
  <1>2. /\ shares \in Seq(Nat) /\ pool \in Nat /\ n \in Nat /\ DOMAIN shares = 1..n
        /\ \A i \in 1..n : shares[i] \in Nat
        BY <1>1, LenProperties DEF MarketFits
  <1>3. total \in Nat /\ \A i \in 1..n : shares[i] <= total
        BY <1>1, <1>2, SumCovers
  <1>4. PICK owed : owed = [i \in DOMAIN shares |-> GraniteDebt(shares[i], pool, total)]
        OBVIOUS
  <1>5. PICK owned : owned = [i \in DOMAIN shares |-> BinShare(pool, shares[i], total)]
        OBVIOUS
  <1>6. MarketIsSound(m) <=> /\ total > 0 => SumSeq(owed) \in pool .. pool + n
                             /\ SumSeq(owned) <= pool
                             /\ total > 0 => SumSeq(owned) >= pool - n
        BY <1>1, <1>4, <1>5 DEF MarketIsSound
  <1>7. CASE total > 0
    <2>1. total \in Nat \ {0}
          BY <1>3, <1>7
    <2>2. \A i \in 1..n : /\ owed[i] \in Nat
                          /\ pool * shares[i] <= total * owed[i]
                          /\ total * owed[i] <= pool * shares[i] + total
          BY <1>2, <1>4, <2>1, ShareOwed
    <2>3. \A i \in 1..n : /\ owned[i] \in Nat
                          /\ total * owned[i] <= pool * shares[i]
                          /\ pool * shares[i] <= total * owned[i] + total
          BY <1>2, <1>5, <2>1, ShareOwned
    <2>4. owed \in Seq(Nat) /\ Len(owed) = n
          BY <1>2, <1>4, <2>2
    <2>5. owned \in Seq(Nat) /\ Len(owned) = n
          BY <1>2, <1>5, <2>3
    <2>6. SumSeq(owed) \in Nat /\ pool <= SumSeq(owed) /\ SumSeq(owed) <= pool + n
          BY <1>1, <1>2, <2>1, <2>2, <2>4, SharesAddUp
    <2>7. SumSeq(owned) \in Nat /\ SumSeq(owned) <= pool /\ pool <= SumSeq(owned) + n
          BY <1>1, <1>2, <2>1, <2>3, <2>5, SharesAddUp
    <2>8. PICK x, y : x = SumSeq(owed) /\ y = SumSeq(owned)
          OBVIOUS
    <2> QED
        BY <1>2, <1>6, <2>6, <2>7, <2>8
  <1>8. CASE total = 0
    <2>1. \A i \in 1..n : shares[i] = 0
          BY <1>2, <1>3, <1>8
    <2>2. \A i \in 1..n : owned[i] = 0
          BY <1>2, <1>5, <2>1 DEF BinShare
    <2>3. owned \in Seq(Nat) /\ Len(owned) = n
          BY <1>2, <1>5, <2>2
    <2>4. SumSeq(owned) \in Nat /\ SumSeq(owned) <= SumSeq(shares)
          BY <1>1, <1>2, <2>1, <2>2, <2>3, SumsCompare
    <2>5. SumSeq(owned) <= pool
          BY <1>1, <1>2, <1>8, <2>4
    <2> QED
        BY <1>6, <1>8, <2>5
  <1> QED
      BY <1>3, <1>7, <1>8

(* Zest: a debt is rounded up from its scaled amount, and again as interest *)
(* accrues; so it never shows below what is owed, nor falls with time.      *)
LEMMA RoundingUpGrows ==
  ASSUME NEW x \in Nat, NEW y \in Nat, x <= y, NEW d \in Nat \ {0}
  PROVE  CeilDiv(x, d) <= CeilDiv(y, d)
  <1>1. x + d - 1 \in Nat /\ y + d - 1 \in Nat /\ x + d - 1 <= y + d - 1
        OBVIOUS
  <1>2. (x + d - 1) \div d <= (y + d - 1) \div d
        BY <1>1, QuotientGrows
  <1> QED
      BY <1>2 DEF CeilDiv

LEMMA ZestDebtCovers ==
  ASSUME NEW scaled \in Nat, NEW index \in Nat, NEW n, n = ZestDebt(scaled, index)
  PROVE  n \in Nat /\ n * IndexPrecision >= scaled * index
  <1>1. PICK x : x = scaled * index
        OBVIOUS
  <1>2. x \in Nat /\ n = CeilDiv(x, 1000) /\ 1000 \in Nat \ {0}
        BY <1>1 DEF ZestDebt, IndexPrecision
  <1>3. n \in Nat /\ x <= 1000 * n
        BY <1>2, RoundedUp
  <1> QED
      BY <1>1, <1>3 DEF IndexPrecision

LEMMA DebtAccrues ==
  ASSUME NEW n \in Nat, NEW borrow \in Nat, NEW days \in Nat, NEW more \in Nat, days <= more
  PROVE  /\ n <= ProjectedDebt(n, borrow, days)
         /\ ProjectedDebt(n, borrow, days) <= ProjectedDebt(n, borrow, more)
  <1>1. PICK year : year = YearOfBps
        OBVIOUS
  <1>2. year \in Nat \ {0}
        BY <1>1 DEF YearOfBps
  <1>3. PICK early, late : early = year + borrow * days /\ late = year + borrow * more
        OBVIOUS
  <1>4. borrow * days \in Nat /\ borrow * more \in Nat /\ borrow * days <= borrow * more
        BY ProductGrows
  <1>5. early \in Nat /\ late \in Nat /\ year <= early /\ early <= late
        BY <1>2, <1>3, <1>4
  <1>6. n * year <= n * early /\ n * early <= n * late
        BY <1>2, <1>5, ProductGrows
  <1>7. n * early \in Nat /\ n * late \in Nat /\ n * year = year * n
        BY <1>2, <1>5
  <1>8. PICK x, y : x = n * early /\ y = n * late
        OBVIOUS
  <1>9. PICK q : q = CeilDiv(x, year)
        OBVIOUS
  <1>10. x \in Nat /\ y \in Nat /\ x <= y /\ year * n <= x
         BY <1>6, <1>7, <1>8
  <1>11. q \in Nat /\ x <= year * q
         BY <1>2, <1>9, <1>10, RoundedUp
  <1>12. year * n <= year * q
         BY <1>2, <1>10, <1>11
  <1>13. n <= q
         BY <1>2, <1>11, <1>12, ProductCancels
  <1>14. q <= CeilDiv(y, year)
         BY <1>2, <1>9, <1>10, RoundingUpGrows
  <1>15. ProjectedDebt(n, borrow, days) = q /\ ProjectedDebt(n, borrow, more) = CeilDiv(y, year)
         BY <1>1, <1>3, <1>8, <1>9 DEF ProjectedDebt
  <1> QED
      BY <1>13, <1>14, <1>15

(* The legs of a loan are named amounts.                                    *)
LegsFit(legs) == \E S : legs \in Seq([asset : S, n : Nat])
ZestFits(z) == LegsFit(z.collateral) /\ LegsFit(z.debt) /\ z.index \in Nat /\ z.borrow \in Nat

THEOREM ZestReadIsWhole ==
  ASSUME NEW z, ZestFits(z)
  PROVE  ZestIsSound(z)
  <1>1. PICK a : a = ZestPositions(z)
        OBVIOUS
  <1>2. SUFFICES ASSUME a.ok, z.tracked
                 PROVE  /\ UNION {Range(p.own) : p \in a.positions} = Range(ZestLegs(z.collateral))
                        /\ \A p \in a.positions : Len(p.owed) = Len(z.debt)
                        /\ \A p \in a.positions : \A i \in DOMAIN p.owed :
                             LET n == p.owed[i].n
                                 later == DebtProjections(n, z.borrow)
                             IN  /\ n * IndexPrecision >= z.debt[i].n * z.index
                                 /\ n <= later[7] /\ later[7] <= later[30] /\ later[30] <= later[90]
        BY <1>1 DEF ZestIsSound
  <1>3. \/ a = Listed({}) /\ z.collateral = <<>> /\ z.debt = <<>>
        \/ /\ z.debt = <<>>
           /\ a = Listed({Held("supply", <<leg>>, <<>>, "verified", TRUE) :
                            leg \in Range(ZestLegs(z.collateral))})
        \/ a = Listed({Held("lending", ZestLegs(z.collateral), ZestDebts(z), "verified", TRUE)})
        BY <1>1, <1>2 DEF ZestPositions, Refused
  <1>4. CASE a = Listed({}) /\ z.collateral = <<>> /\ z.debt = <<>>
    <2>1. Range(ZestLegs(z.collateral)) = {}
          BY <1>4 DEF ZestLegs, Range
    <2>2. a.positions = {}
          BY <1>4 DEF Listed
    <2> QED
        BY <2>1, <2>2
  <1>5. CASE /\ z.debt = <<>>
             /\ a = Listed({Held("supply", <<leg>>, <<>>, "verified", TRUE) :
                              leg \in Range(ZestLegs(z.collateral))})
    <2>1. PICK legs : legs = Range(ZestLegs(z.collateral))
          OBVIOUS
    <2>2. a.positions = {Held("supply", <<leg>>, <<>>, "verified", TRUE) : leg \in legs}
          BY <1>5, <2>1 DEF Listed
    <2>3. \A leg \in legs : Range(Held("supply", <<leg>>, <<>>, "verified", TRUE).own) = {leg}
          BY DEF Held, Range
    <2>4. /\ \A p \in a.positions : \E leg \in legs : Range(p.own) = {leg}
          /\ \A leg \in legs : \E p \in a.positions : Range(p.own) = {leg}
          BY <2>2, <2>3
    <2>5. UNION {Range(p.own) : p \in a.positions} = legs
      <3>1. ASSUME NEW leg \in legs PROVE leg \in UNION {Range(p.own) : p \in a.positions}
        <4>1. PICK p \in a.positions : Range(p.own) = {leg}
              BY <2>4
        <4> QED
            BY <4>1
      <3>2. ASSUME NEW p \in a.positions PROVE Range(p.own) \subseteq legs
            BY <2>4
      <3> QED
          BY <3>1, <3>2
    <2>6. \A p \in a.positions : p.owed = <<>>
          BY <2>2 DEF Held
    <2>7. DOMAIN <<>> = {}
          OBVIOUS
    <2>8. \A p \in a.positions : Len(p.owed) = Len(z.debt) /\ DOMAIN p.owed = {}
          BY <1>5, <2>6, <2>7
    <2> QED
        BY <2>1, <2>5, <2>8
  <1>6. CASE a = Listed({Held("lending", ZestLegs(z.collateral), ZestDebts(z), "verified", TRUE)})
    <2>1. PICK p : p = Held("lending", ZestLegs(z.collateral), ZestDebts(z), "verified", TRUE)
          OBVIOUS
    <2>2. a.positions = {p} /\ p.own = ZestLegs(z.collateral) /\ p.owed = ZestDebts(z)
          BY <1>6, <2>1 DEF Listed, Held
    <2>3. PICK S : z.debt \in Seq([asset : S, n : Nat])
          BY DEF ZestFits, LegsFit
    <2>4. DOMAIN z.debt = 1..Len(z.debt) /\ \A i \in DOMAIN z.debt : z.debt[i].n \in Nat
      <3>1. PICK Legs : Legs = [asset : S, n : Nat]
            OBVIOUS
      <3>2. DOMAIN z.debt = 1..Len(z.debt) /\ \A i \in DOMAIN z.debt : z.debt[i] \in Legs
            BY <2>3, <3>1, LenProperties, ElementOfSeq
      <3> QED
          BY <3>1, <3>2
    <2>5. Len(p.owed) = Len(z.debt) /\ DOMAIN p.owed = DOMAIN z.debt
          BY <2>2, <2>3, <2>4 DEF ZestDebts
    <2>6. ASSUME NEW i \in DOMAIN p.owed
          PROVE  LET n == p.owed[i].n
                     later == DebtProjections(n, z.borrow)
                 IN  /\ n * IndexPrecision >= z.debt[i].n * z.index
                     /\ n <= later[7] /\ later[7] <= later[30] /\ later[30] <= later[90]
      <3>1. PICK n : n = p.owed[i].n
            OBVIOUS
      <3>2. n = ZestDebt(z.debt[i].n, z.index)
            BY <2>2, <2>5, <2>6, <3>1 DEF ZestDebts, Amount
      <3>3. n \in Nat /\ n * IndexPrecision >= z.debt[i].n * z.index
            BY <2>4, <2>5, <3>2, ZestDebtCovers DEF ZestFits
      <3>4. /\ n <= ProjectedDebt(n, z.borrow, 7)
            /\ ProjectedDebt(n, z.borrow, 7) <= ProjectedDebt(n, z.borrow, 30)
            /\ ProjectedDebt(n, z.borrow, 30) <= ProjectedDebt(n, z.borrow, 90)
            BY <3>3, DebtAccrues DEF ZestFits
      <3> QED
          BY <3>1, <3>3, <3>4 DEF DebtProjections
    <2> QED
        BY <2>2, <2>5, <2>6
  <1> QED
      BY <1>3, <1>4, <1>5, <1>6

(* Granite: a borrower's part of what all borrowers owe, rounded up.        *)
GraniteFits(g) ==
    LegsFit(g.collateral) /\ g.shares \in Nat /\ g.interest \in Nat /\ g.total \in Nat

THEOREM GraniteReadIsWhole ==
  ASSUME NEW g, GraniteFits(g)
  PROVE  GraniteIsSound(g)
  <1>1. PICK a : a = GranitePositions(g)
        OBVIOUS
  <1>2. SUFFICES ASSUME a.ok, g.enabled, NEW p \in a.positions
                 PROVE  /\ Len(p.own) = Len(g.collateral)
                        /\ g.shares > 0 => /\ p.owed[1].n > 0
                                           /\ p.owed[1].n * g.total >= g.interest * g.shares
        BY <1>1 DEF GraniteIsSound
  <1>3. PICK debt : debt = GraniteDebt(g.shares, g.interest, g.total)
        OBVIOUS
  <1>4. /\ Len(g.collateral) = 1
        /\ g.shares > 0 => g.interest # 0 /\ g.total # 0
        /\ p = Held("lending", <<Amount(g.collateral[1].asset, g.collateral[1].n)>>,
                    <<Amount("aeUSDC", debt)>>, "verified", TRUE)
        BY <1>1, <1>2, <1>3 DEF GranitePositions, Refused, Listed
  <1>5. Len(p.own) = 1 /\ p.owed[1].n = debt
        BY <1>4 DEF Held, Amount
  <1>6. ASSUME g.shares > 0
        PROVE  debt > 0 /\ debt * g.total >= g.interest * g.shares
    <2>1. PICK shares, interest, total :
            shares = g.shares /\ interest = g.interest /\ total = g.total
          OBVIOUS
    <2>2. shares \in Nat \ {0} /\ interest \in Nat \ {0} /\ total \in Nat \ {0}
          BY <1>4, <1>6, <2>1 DEF GraniteFits
    <2>3. debt \in Nat /\ interest * shares <= total * debt
          BY <1>3, <2>1, <2>2, ShareOwed
    <2>4. interest * shares > 0
          BY <2>2
    <2>5. debt # 0
          BY <2>2, <2>3, <2>4
    <2> QED
        BY <2>1, <2>2, <2>3, <2>5
  <1> QED
      BY <1>4, <1>5, <1>6

(* Bitflow: an owner's shares are no more than the bin has.                 *)
PoolFits(p) ==
    /\ p.bins \in Seq([shares : Nat, total : Nat, x : Nat, y : Nat])
    /\ \A i \in DOMAIN p.bins : p.bins[i].total > 0 => p.bins[i].shares <= p.bins[i].total
BitflowFits(b) == \A p \in Range(b.pools) : PoolFits(p)

LEMMA ShareIsPart ==
  ASSUME NEW balance \in Nat, NEW shares \in Nat, NEW total \in Nat,
         shares > 0 => total > 0, total > 0 => shares <= total
  PROVE  BinShare(balance, shares, total) \in Nat /\ BinShare(balance, shares, total) <= balance
  <1>1. CASE shares = 0
        BY <1>1 DEF BinShare
  <1>2. CASE shares > 0
    <2>1. total \in Nat \ {0} /\ shares <= total
          BY <1>2
    <2>2. PICK q : q = BinShare(balance, shares, total)
          OBVIOUS
    <2>3. q \in Nat /\ total * q <= balance * shares
          BY <2>1, <2>2, ShareOwned
    <2>4. balance * shares <= balance * total
          BY <2>1, ProductGrows
    <2>5. balance * total = total * balance /\ balance * shares \in Nat /\ total * balance \in Nat
          BY <2>1
    <2>6. total * q \in Nat
          BY <2>1, <2>3
    <2>7. total * q <= total * balance
          BY <2>3, <2>4, <2>5, <2>6
    <2>8. q <= balance
          BY <2>1, <2>3, <2>7, ProductCancels
    <2> QED
        BY <2>2, <2>3, <2>8
  <1> QED
      BY <1>1, <1>2

LEMMA BinsHoldTheirShares ==
  ASSUME NEW p, PoolFits(p), NEW side \in {"x", "y"},
         \A bin \in Range(p.bins) : bin.shares > 0 => bin.total > 0
  PROVE  BinSum(p.bins, side) <= SumSeq([i \in DOMAIN p.bins |-> p.bins[i][side]])
  <1>1. PICK bins, n : bins = p.bins /\ n = Len(bins)
        OBVIOUS
  <1>2. PICK Bins : Bins = [shares : Nat, total : Nat, x : Nat, y : Nat]
        OBVIOUS
  <1>3. /\ n \in Nat /\ DOMAIN bins = 1..n
        /\ \A i \in 1..n : bins[i] \in Bins
        BY <1>1, <1>2, LenProperties, ElementOfSeq DEF PoolFits
  <1>4. ASSUME NEW i \in 1..n
        PROVE  /\ bins[i][side] \in Nat
               /\ BinShare(bins[i][side], bins[i].shares, bins[i].total) \in Nat
               /\ BinShare(bins[i][side], bins[i].shares, bins[i].total) <= bins[i][side]
    <2>1. /\ bins[i].shares \in Nat /\ bins[i].total \in Nat
          /\ bins[i]["x"] \in Nat /\ bins[i]["y"] \in Nat
          BY <1>2, <1>3
    <2>2. bins[i][side] \in Nat
          BY <2>1
    <2>3. bins[i].shares > 0 => bins[i].total > 0
          BY <1>1, <1>3 DEF Range
    <2>4. bins[i].total > 0 => bins[i].shares <= bins[i].total
          BY <1>1, <1>3 DEF PoolFits
    <2> QED
        BY <2>1, <2>2, <2>3, <2>4, ShareIsPart
  <1>5. PICK shares :
          shares = [i \in DOMAIN bins |-> BinShare(bins[i][side], bins[i].shares, bins[i].total)]
        OBVIOUS
  <1>6. PICK balances : balances = [i \in DOMAIN bins |-> bins[i][side]]
        OBVIOUS
  <1>7. shares \in Seq(Nat) /\ Len(shares) = n
        BY <1>3, <1>4, <1>5
  <1>8. balances \in Seq(Nat) /\ Len(balances) = n
        BY <1>3, <1>4, <1>6
  <1>9. \A i \in 1..n : shares[i] <= balances[i]
        BY <1>3, <1>4, <1>5, <1>6
  <1>10. SumSeq(shares) <= SumSeq(balances)
         BY <1>7, <1>8, <1>9, SumsCompare
  <1> QED
      BY <1>1, <1>5, <1>6, <1>10 DEF BinSum

(* A pool that is verified shows no more than its bins hold on chain.       *)
THEOREM BitflowReadIsBacked ==
  ASSUME NEW b, BitflowFits(b)
  PROVE  BitflowIsSound(b)
  <1>1. PICK a : a = BitflowPositions(b)
        OBVIOUS
  <1>2. PICK pools : pools = {p \in Range(b.pools) : ~ExplicitlyEmpty(p)}
        OBVIOUS
  <1>3. SUFFICES ASSUME a.ok
                 PROVE  /\ \A pool \in Range(b.pools) :
                             ExplicitlyEmpty(pool) \/ PoolPosition(pool) \in a.positions
                        /\ \A p \in a.positions : p.state = "verified" =>
                             \E pool \in Range(b.pools) :
                                /\ pool.nfts > 0
                                /\ \A side \in {"x", "y"} :
                                     p.own[IF side = "x" THEN 1 ELSE 2].n
                                       <= SumSeq([i \in DOMAIN pool.bins |-> pool.bins[i][side]])
        BY <1>1 DEF BitflowIsSound
  <1>4. a.positions = {PoolPosition(p) : p \in pools} /\ \A p \in pools : PoolReadable(p)
        BY <1>1, <1>2, <1>3 DEF BitflowPositions, Listed, Refused
  <1>5. ASSUME NEW p \in a.positions, p.state = "verified"
        PROVE  \E pool \in Range(b.pools) :
                  /\ pool.nfts > 0
                  /\ \A side \in {"x", "y"} :
                       p.own[IF side = "x" THEN 1 ELSE 2].n
                         <= SumSeq([i \in DOMAIN pool.bins |-> pool.bins[i][side]])
    <2>1. PICK pool \in pools : p = PoolPosition(pool)
          BY <1>4
    <2>2. pool \in Range(b.pools) /\ PoolFits(pool) /\ PoolReadable(pool)
          BY <1>2, <1>4 DEF BitflowFits
    <2>3. Canonical(pool) /\ pool.nfts > 0
          BY <1>5, <2>1 DEF PoolPosition, Held
    <2>4. p.own[1].n = BinSum(pool.bins, "x") /\ p.own[2].n = BinSum(pool.bins, "y")
          BY <2>1, <2>3 DEF PoolPosition, Held, Amount, PoolAmount
    <2>5. \A bin \in Range(pool.bins) : bin.shares > 0 => bin.total > 0
          BY <2>2, <2>3 DEF PoolReadable
    <2>6. \A side \in {"x", "y"} :
            BinSum(pool.bins, side) <= SumSeq([i \in DOMAIN pool.bins |-> pool.bins[i][side]])
          BY <2>2, <2>5, BinsHoldTheirShares
    <2>7. \A side \in {"x", "y"} :
            p.own[IF side = "x" THEN 1 ELSE 2].n = BinSum(pool.bins, side)
          BY <2>4
    <2>8. \A side \in {"x", "y"} :
            p.own[IF side = "x" THEN 1 ELSE 2].n
              <= SumSeq([i \in DOMAIN pool.bins |-> pool.bins[i][side]])
          BY <2>6, <2>7
    <2> QED
        BY <2>2, <2>3, <2>8
  <1> QED
      BY <1>2, <1>4, <1>5

(* The wallet.  What one or two positions hold together.                    *)
LEMMA HeldByFew ==
  ASSUME NEW p, NEW q, p.own[1].n \in Nat, q.own[1].n \in Nat
  PROVE  /\ HeldInAll({p}) = p.own[1].n
         /\ p # q => HeldInAll({p, q}) = p.own[1].n + q.own[1].n
  <1> DEFINE S == {p, q}
             held == [x \in S |-> x.own[1].n]
  <1>1. held \in [S -> Nat]
        OBVIOUS
  <1>2. ASSUME NEW T \in SUBSET S
        PROVE  \E g : g = [t \in SUBSET T |-> IF t = {} THEN 0
                                             ELSE LET x == CHOOSE y \in t : TRUE
                                                  IN  x.own[1].n + g[t \ {x}]]
    <2> DEFINE chosen == [t \in SUBSET T |-> CHOOSE x \in t : TRUE]
               step == [c \in T \X Nat |-> held[c[1]] + c[2]]
    <2>1. IsFiniteSet(T)
      <3>1. IsFiniteSet({p, q})
          <4>1. {p, q} = {p} \cup {q}
              OBVIOUS
          <4>2. IsFiniteSet({p})
              BY FS_Singleton
          <4>3. IsFiniteSet({p} \cup {q})
              BY <4>2, FS_AddElement
        <4> QED
            BY <4>1, <4>3
      <3> QED
          BY <3>1, FS_Subset
    <2>2. Picks(chosen, T)
          BY DEF Picks
    <2>3. step \in [T \X Nat -> Nat]
          BY <1>1
    <2>4. PICK g \in [SUBSET T -> Nat] : FoldedBy(g, T, 0, step, chosen)
      <3> HIDE DEF step, chosen
      <3> QED
          BY <2>1, <2>2, <2>3, FoldExists
    <2>5. ASSUME NEW t \in SUBSET T, t # {}
          PROVE  LET x == CHOOSE y \in t : TRUE IN g[t] = x.own[1].n + g[t \ {x}]
      <3>1. PICK x : x = CHOOSE y \in t : TRUE
            OBVIOUS
      <3>2. x \in t /\ x \in T /\ t \ {x} \in SUBSET T
            BY <2>5, <3>1
      <3>3. chosen[t] = x
            BY <3>1
      <3>4. g[t] = step[<<x, g[t \ {x}]>>]
            BY <2>4, <2>5, <3>3 DEF FoldedBy
      <3>5. step[<<x, g[t \ {x}]>>] = held[x] + g[t \ {x}] /\ held[x] = x.own[1].n
            BY <3>2
      <3> QED
          BY <3>1, <3>4, <3>5
    <2>6. g[{}] = 0
          BY <2>4 DEF FoldedBy
    <2>7. g = [t \in SUBSET T |-> IF t = {} THEN 0
                                  ELSE LET x == CHOOSE y \in t : TRUE
                                       IN  x.own[1].n + g[t \ {x}]]
      <3> DEFINE body(t) == IF t = {} THEN 0
                            ELSE LET x == CHOOSE y \in t : TRUE
                                 IN  x.own[1].n + g[t \ {x}]
      <3>1. \A t \in SUBSET T : g[t] = body(t)
            BY <2>5, <2>6
      <3>2. g = [t \in SUBSET T |-> g[t]]
            OBVIOUS
      <3>3. g = [t \in SUBSET T |-> body(t)]
        <4> HIDE DEF body
        <4> QED
            BY <3>1, <3>2
      <3> QED
          BY <3>3
    <2> QED
        BY <2>7
  <1>3. ASSUME NEW T \in SUBSET S
        PROVE  \E g : /\ HeldInAll(T) = g[T] /\ g[{}] = 0
                      /\ \A t \in SUBSET T : t # {} =>
                           \E x \in t : g[t] = x.own[1].n + g[t \ {x}]
    <2> DEFINE iter[t \in SUBSET T] ==
                 IF t = {} THEN 0
                 ELSE LET x == CHOOSE y \in t : TRUE IN x.own[1].n + iter[t \ {x}]
    <2>1. HeldInAll(T) = iter[T]
          BY Zenon DEF HeldInAll, FoldSet, MapThenFoldSet
    <2>2. iter = [t \in SUBSET T |-> IF t = {} THEN 0
                                     ELSE LET x == CHOOSE y \in t : TRUE
                                          IN  x.own[1].n + iter[t \ {x}]]
      <3>1. \E g : g = [t \in SUBSET T |-> IF t = {} THEN 0
                                           ELSE LET x == CHOOSE y \in t : TRUE
                                                IN  x.own[1].n + g[t \ {x}]]
        BY <1>2, Zenon
      <3> QED
          BY <3>1, Zenon
    <2> HIDE DEF iter
    <2>3. iter[{}] = 0
          BY <2>2
    <2>4. ASSUME NEW t \in SUBSET T, t # {}
          PROVE  \E x \in t : iter[t] = x.own[1].n + iter[t \ {x}]
      <3>1. PICK x : x = CHOOSE y \in t : TRUE
            OBVIOUS
      <3>2. x \in t
            BY <2>4, <3>1
      <3>3. iter[t] = x.own[1].n + iter[t \ {x}]
            BY <2>2, <2>4, <3>1
      <3> QED
          BY <3>2, <3>3
    <2> QED
        BY <2>1, <2>3, <2>4
  <1> HIDE DEF held
  <1>4. HeldInAll({p}) = p.own[1].n
    <2>1. {p} \in SUBSET S
          OBVIOUS
    <2>2. PICK g : /\ HeldInAll({p}) = g[{p}] /\ g[{}] = 0
                   /\ \A t \in SUBSET {p} : t # {} =>
                        \E x \in t : g[t] = x.own[1].n + g[t \ {x}]
          BY <1>3, <2>1, Zenon
    <2>3. g[{p}] = p.own[1].n + g[{p} \ {p}] /\ {p} \ {p} = {}
          BY <2>2
    <2>4. g[{p}] = p.own[1].n + 0
          BY <2>2, <2>3
    <2> QED
        BY <2>2, <2>4
  <1>5. ASSUME p # q
        PROVE  HeldInAll({p, q}) = p.own[1].n + q.own[1].n
    <2>1. {p, q} \in SUBSET S
          OBVIOUS
    <2>2. PICK g : /\ HeldInAll({p, q}) = g[{p, q}] /\ g[{}] = 0
                   /\ \A t \in SUBSET {p, q} : t # {} =>
                        \E x \in t : g[t] = x.own[1].n + g[t \ {x}]
          BY <1>3, <2>1, Zenon
    <2>3. g[{p}] = p.own[1].n + g[{p} \ {p}] /\ {p} \ {p} = {}
          BY <2>2
    <2>4. g[{q}] = q.own[1].n + g[{q} \ {q}] /\ {q} \ {q} = {}
          BY <2>2
    <2>5. PICK x \in {p, q} : g[{p, q}] = x.own[1].n + g[{p, q} \ {x}]
          BY <2>2
    <2>6. {p, q} \ {p} = {q} /\ {p, q} \ {q} = {p}
          BY <1>5
    <2>7. g[{p}] = p.own[1].n + 0 /\ g[{q}] = q.own[1].n + 0
          BY <2>2, <2>3, <2>4
    <2>8. PICK m, n : m = p.own[1].n /\ n = q.own[1].n
          OBVIOUS
    <2>9. m \in Nat /\ n \in Nat /\ g[{p}] = m /\ g[{q}] = n
          BY <2>7, <2>8
    <2>10. g[{p, q}] = m + n \/ g[{p, q}] = n + m
          BY <2>5, <2>6, <2>8, <2>9
    <2> QED
        BY <2>2, <2>8, <2>9, <2>10
  <1> QED
      BY <1>4, <1>5

(* The provider's figures are amounts, and no token calls itself STX.       *)
WalletFits(w) ==
    /\ w.stx.total \in Nat \cup {Unreported} /\ w.stx.available \in Nat \cup {Unreported}
    /\ w.stx.locked \in Nat
    /\ \A t \in Tokens(w) : t.name # "STX"

(* What a wallet verifies is what the chain says: its liquid STX, the       *)
(* whole of what the provider breaks down, and every token's balance.       *)
THEOREM WalletReadIsVerified ==
  ASSUME NEW w, WalletFits(w)
  PROVE  WalletIsSound(w)
  <1>1. PICK a : a = WalletPositions(w)
        OBVIOUS
  <1>2. PICK stx : stx = {p \in a.positions : p.own[1].asset = "STX" /\ p.state = "verified"}
        OBVIOUS
  <1>3. CASE a = Refused
    <2>1. a.positions = {} /\ stx = {}
          BY <1>2, <1>3 DEF Refused
    <2> QED
        BY <1>1, <1>2, <2>1 DEF WalletIsSound
  <1>4. CASE a # Refused
    <2>1. PICK liquid : liquid = Held("wallet", <<Amount("STX", Available(w))>>, <<>>, StxState(w), TRUE)
          OBVIOUS
    <2>2. PICK locked : locked = Held("wallet", <<Amount("STX", w.stx.locked)>>, <<>>, StxState(w), FALSE)
          OBVIOUS
    <2>3. PICK tokens : tokens = {TokenPosition(w, t) : t \in Tokens(w)}
          OBVIOUS
    <2>4. /\ w.stx.total # Unreported
          /\ a.positions = {liquid} \cup (IF w.stx.locked > 0 THEN {locked} ELSE {}) \cup tokens
          BY <1>1, <1>4, <2>1, <2>2, <2>3 DEF WalletPositions, Listed
    <2>5. /\ liquid.own[1].asset = "STX" /\ liquid.own[1].n = Available(w)
          /\ liquid.state = StxState(w) /\ liquid.spendable = TRUE
          BY <2>1 DEF Held, Amount
    <2>6. /\ locked.own[1].asset = "STX" /\ locked.own[1].n = w.stx.locked
          /\ locked.state = StxState(w) /\ locked.spendable = FALSE
          BY <2>2 DEF Held, Amount
    <2>7. \A p \in tokens : \E t \in Tokens(w) :
            /\ p.own[1].asset = t.name /\ p.own[1].n = t.balance /\ p.state = TokenState(w, t)
          BY <2>3 DEF TokenPosition, Held, Amount
    <2>8. \A p \in tokens : p.own[1].asset # "STX"
          BY <2>7 DEF WalletFits
    <2>9. stx = IF StxState(w) = "verified"
                THEN {liquid} \cup (IF w.stx.locked > 0 THEN {locked} ELSE {})
                ELSE {}
          BY <1>2, <2>4, <2>5, <2>6, <2>8
    <2>10. stx # {} => StxReconciled(w)
           BY <2>9 DEF StxState
    <2>11. ASSUME NEW p \in stx, p.spendable
           PROVE  p.own[1].n = w.liquid
           BY <2>5, <2>6, <2>9, <2>10, <2>11 DEF StxReconciled
    <2>12. ASSUME stx # {}, w.stx.available # Unreported
           PROVE  HeldInAll(stx) = w.stx.total
      <3>1. PICK n, m, total : n = Available(w) /\ m = w.stx.locked /\ total = w.stx.total
            OBVIOUS
      <3>2. n \in Nat /\ m \in Nat /\ n + m = total /\ total \in Nat
            BY <2>4, <2>10, <2>12, <3>1 DEF StxReconciled, BreakdownReconciled, Available, WalletFits
      <3>3. liquid.own[1].n = n /\ locked.own[1].n = m
            BY <2>5, <2>6, <3>1
      <3>4. HeldInAll({liquid}) = n
            BY <3>2, <3>3, HeldByFew
      <3>5. liquid # locked
            BY <2>5, <2>6
      <3>6. HeldInAll({liquid, locked}) = n + m
            BY <3>2, <3>3, <3>5, HeldByFew
      <3>7. CASE m > 0
        <4>1. stx = {liquid, locked}
              BY <2>9, <2>12, <3>1, <3>7
        <4> QED
            BY <3>1, <3>2, <3>6, <4>1
      <3>8. CASE ~(m > 0)
        <4>1. stx = {liquid} /\ m = 0
              BY <2>9, <2>12, <3>1, <3>2, <3>8
        <4> QED
            BY <3>1, <3>2, <3>4, <4>1
      <3> QED
          BY <3>7, <3>8
    <2>13. ASSUME NEW p \in a.positions \ stx, p.state = "verified"
           PROVE  \E t \in Tokens(w) : t.name = p.own[1].asset /\ t.onChain = p.own[1].n
      <3>1. p \in tokens
            BY <1>2, <2>4, <2>5, <2>6, <2>13
      <3>2. PICK t \in Tokens(w) : /\ p.own[1].asset = t.name /\ p.own[1].n = t.balance
                                   /\ p.state = TokenState(w, t)
            BY <2>7, <3>1
      <3>3. t.onChain = t.balance
            BY <2>13, <3>2 DEF TokenState
      <3> QED
          BY <3>2, <3>3
    <2> QED
        BY <1>1, <1>2, <2>11, <2>12, <2>13 DEF WalletIsSound
  <1> QED
      BY <1>3, <1>4

-----------------------------------------------------------------------------
(* ProtocolProjection.  What is joined has the elements of what it is       *)
(* joined of, and what is kept of a sequence is what is to be kept.         *)
JoinsUp(r, ss, T) ==
    /\ r \in [0..Len(ss) -> Seq(T)] /\ r[0] = <<>>
    /\ \A k \in 1..Len(ss) : r[k] = r[k - 1] \o ss[k]

LEMMA JoinRuns ==
  ASSUME NEW T, NEW ss \in Seq(Seq(T))
  PROVE  \E r : JoinsUp(r, ss, T) /\ Joined(ss) = r[Len(ss)]
  <1> DEFINE D == DOMAIN ss
             iter[t \in SUBSET D] ==
                IF t = {} THEN <<>>
                ELSE LET x == Max(t) IN iter[t \ {x}] \o ss[x]
             step == [q \in (1..Len(ss)) \X Seq(T) |-> q[2] \o ss[q[1]]]
  <1>1. Joined(ss) = iter[D]
        BY Zenon DEF Joined, FoldLeft, MapThenFoldSet
  <1>2. D = 1..Len(ss) /\ Len(ss) \in Nat /\ \A i \in D : ss[i] \in Seq(T)
        BY LenProperties
  <1>3. StepsOn(step, Len(ss), Seq(T)) /\ <<>> \in Seq(T)
        BY <1>2, SMTT(30) DEF StepsOn
  <1>4. iter = [t \in SUBSET D |->
                IF t = {} THEN <<>>
                ELSE LET x == Max(t) IN iter[t \ {x}] \o ss[x]]
    <2>1. PICK g \in [SUBSET D -> Seq(T)] : \A t \in SUBSET D :
            g[t] = IF t = {} THEN <<>> ELSE step[<<Max(t), g[t \ {Max(t)}]>>]
      <3> HIDE DEF step, iter
      <3>1. PICK g \in [SUBSET (1..Len(ss)) -> Seq(T)] : FoldedOver(g, Len(ss), <<>>, step)
            BY <1>2, <1>3, FoldsOverPositions
      <3> HIDE DEF D
      <3> QED
          BY <1>2, <3>1 DEF FoldedOver
    <2>2. \A t \in SUBSET D : t # {} => Max(t) \in D
      <3> HIDE DEF step, iter
      <3>1. IsFiniteSet(D) /\ D \subseteq Nat
            BY <1>2, FS_Interval
      <3> HIDE DEF D
      <3> QED
          BY <3>1, FS_Subset, GreatestOfFinite
    <2>3. \A t \in SUBSET D : t # {} =>
            step[<<Max(t), g[t \ {Max(t)}]>>] = g[t \ {Max(t)}] \o ss[Max(t)]
          BY <1>2, <2>1, <2>2
    <2>4. g = [t \in SUBSET D |->
                IF t = {} THEN <<>>
                ELSE LET x == Max(t) IN g[t \ {x}] \o ss[x]]
      <3> HIDE DEF step
      <3> QED
          BY <2>1, <2>3
    <2> QED
        BY <2>4
  <1> HIDE DEF iter
  <1>5. iter[1..0] = <<>>
        BY <1>4
  <1>6. ASSUME NEW k \in 1..Len(ss), iter[1..(k - 1)] \in Seq(T)
        PROVE  /\ iter[1..k] = iter[1..(k - 1)] \o ss[k]
               /\ iter[1..k] = step[<<k, iter[1..(k - 1)]>>]
    <2>1. k \in Nat \ {0} /\ k <= Len(ss)
          BY <1>2
    <2>2. 1..k \in SUBSET D
          BY <1>2, <2>1
    <2>3. 1..k # {} /\ (1..k) \ {k} = 1..(k - 1)
          BY <2>1, AllButLast
    <2>4. Max(1..k) = k
          BY <2>1, LastOfInterval
    <2>5. iter[1..k] = iter[1..(k - 1)] \o ss[k]
          BY <1>4, <2>2, <2>3, <2>4
    <2> QED
        BY <1>6, <2>5
  <1>7. StepsIn(iter, Len(ss), Seq(T), <<>>, step)
    <2> HIDE DEF step
    <2> QED
        BY <1>5, <1>6 DEF StepsIn
  <1>8. PICK r : RunsFrom(r, Len(ss), Seq(T), <<>>, step) /\ r[Len(ss)] = iter[1..Len(ss)]
    <2> HIDE DEF step, D
    <2>1. PICK n, U, b : n = Len(ss) /\ U = Seq(T) /\ b = <<>>
          OBVIOUS
    <2>2. n \in Nat /\ b \in U /\ StepsOn(step, n, U) /\ StepsIn(iter, n, U, b, step)
          BY <1>2, <1>3, <1>7, <2>1
    <2>3. PICK r : RunsFrom(r, n, U, b, step) /\ r[n] = iter[1..n]
          BY <2>2, RunOfFold
    <2> QED
        BY <2>1, <2>3
  <1>9. \A k \in 1..Len(ss) : k - 1 \in 0..Len(ss)
        BY <1>2
  <1>10. r \in [0..Len(ss) -> Seq(T)] /\ r[0] = <<>>
         BY <1>8 DEF RunsFrom
  <1>11. \A k \in 1..Len(ss) : r[k] = r[k - 1] \o ss[k]
         BY <1>8, <1>9, <1>10 DEF RunsFrom
  <1> HIDE DEF step
  <1> QED
      BY <1>1, <1>2, <1>8, <1>10, <1>11 DEF JoinsUp

LEMMA RangeOfBoth ==
  ASSUME NEW T, NEW s \in Seq(T), NEW t \in Seq(T), NEW x
  PROVE  x \in Range(s \o t) <=> x \in Range(s) \/ x \in Range(t)
  <1>1. /\ Len(s) \in Nat /\ Len(t) \in Nat
        /\ DOMAIN s = 1..Len(s) /\ DOMAIN t = 1..Len(t)
        BY LenProperties
  <1>2. /\ DOMAIN (s \o t) = 1..(Len(s) + Len(t))
        /\ \A i \in 1..Len(s) : (s \o t)[i] = s[i]
        /\ \A i \in 1..Len(t) : (s \o t)[Len(s) + i] = t[i]
        BY <1>1
  <1>3. ASSUME x \in Range(s \o t) PROVE x \in Range(s) \/ x \in Range(t)
    <2>1. PICK i \in 1..(Len(s) + Len(t)) : (s \o t)[i] = x
          BY <1>2, <1>3 DEF Range
    <2>2. i <= Len(s) \/ (i - Len(s) \in 1..Len(t) /\ Len(s) + (i - Len(s)) = i)
          BY <1>1
    <2> QED
        BY <1>1, <1>2, <2>1, <2>2 DEF Range
  <1>4. ASSUME x \in Range(s) PROVE x \in Range(s \o t)
    <2>1. PICK i \in 1..Len(s) : s[i] = x
          BY <1>1, <1>4 DEF Range
    <2>2. i \in 1..(Len(s) + Len(t))
          BY <1>1
    <2> QED
        BY <1>2, <2>1, <2>2 DEF Range
  <1>5. ASSUME x \in Range(t) PROVE x \in Range(s \o t)
    <2>1. PICK i \in 1..Len(t) : t[i] = x
          BY <1>1, <1>5 DEF Range
    <2>2. Len(s) + i \in 1..(Len(s) + Len(t))
          BY <1>1
    <2> QED
        BY <1>2, <2>1, <2>2 DEF Range
  <1> QED
      BY <1>3, <1>4, <1>5

LEMMA JoinedHolds ==
  ASSUME NEW T, NEW ss \in Seq(Seq(T))
  PROVE  /\ Joined(ss) \in Seq(T)
         /\ \A x : x \in Range(Joined(ss)) <=> \E i \in 1..Len(ss) : x \in Range(ss[i])
  <1>1. PICK n : n = Len(ss)
        OBVIOUS
  <1>2. n \in Nat /\ \A i \in 1..n : ss[i] \in Seq(T)
        BY <1>1, LenProperties
  <1>3. PICK r : JoinsUp(r, ss, T) /\ Joined(ss) = r[n]
        BY <1>1, JoinRuns
  <1>4. r[0] = <<>> /\ \A k \in 0..n : r[k] \in Seq(T)
        BY <1>1, <1>3 DEF JoinsUp
  <1> DEFINE Holds(k) == \A x : x \in Range(r[k]) <=> \E i \in 1..k : x \in Range(ss[i])
             Upto == {k \in Nat : k <= n => Holds(k)}
  <1>5. 0 \in Upto
        BY <1>4 DEF Range
  <1>6. ASSUME NEW k \in Nat, k \in Upto PROVE k + 1 \in Upto
    <2>1. SUFFICES ASSUME k + 1 <= n, NEW x
                   PROVE  x \in Range(r[k + 1]) <=> \E i \in 1..(k + 1) : x \in Range(ss[i])
          OBVIOUS
    <2>2. k + 1 \in 1..n /\ (k + 1) - 1 = k /\ k \in 0..n
          BY <1>2, <2>1
    <2>3. r[k + 1] = r[k] \o ss[k + 1]
          BY <1>1, <1>3, <2>2 DEF JoinsUp
    <2>4. r[k] \in Seq(T) /\ ss[k + 1] \in Seq(T)
          BY <1>2, <1>4, <2>2
    <2>5. x \in Range(r[k + 1]) <=> x \in Range(r[k]) \/ x \in Range(ss[k + 1])
          BY <2>3, <2>4, RangeOfBoth
    <2>6. x \in Range(r[k]) <=> \E i \in 1..k : x \in Range(ss[i])
      <3>1. Holds(k)
        <4> HIDE DEF Holds
        <4> QED
            BY <1>2, <1>6, <2>1
      <3> QED
          BY <3>1
    <2>7. \A i : i \in 1..(k + 1) <=> i \in 1..k \/ i = k + 1
          OBVIOUS
    <2> QED
        BY <2>5, <2>6, <2>7
  <1>7. Nat \subseteq Upto
    <2> HIDE DEF Upto
    <2> QED
        BY <1>5, <1>6, NatSetInduction
  <1>8. r[n] \in Seq(T)
        BY <1>2, <1>4
  <1>9. Holds(n)
    <2> HIDE DEF Holds
    <2> QED
        BY <1>2, <1>7
  <1> QED
      BY <1>1, <1>3, <1>8, <1>9

LEMMA KeepingKeeps ==
  ASSUME NEW T, NEW s \in Seq(T), NEW S
  PROVE  /\ Keeping(s, S) \in Seq(T)
         /\ \A x : x \in Range(Keeping(s, S)) <=> x \in Range(s) /\ x \in S
  <1>1. PICK n : n = Len(s)
        OBVIOUS
  <1>2. n \in Nat /\ DOMAIN s = 1..n /\ \A i \in 1..n : s[i] \in T
        BY <1>1, LenProperties
  <1>3. PICK ss : ss = [i \in 1..n |-> IF s[i] \in S THEN <<s[i]>> ELSE <<>>]
        OBVIOUS
  <1>4. PICK U : U = Seq(T)
        OBVIOUS
  <1>5. \A i \in 1..n : ss[i] \in U
        BY <1>2, <1>3, <1>4
  <1>6. ss \in Seq(U) /\ Len(ss) = n
    <2>1. ss = [i \in 1..n |-> ss[i]]
          BY <1>3
    <2> QED
        BY <1>2, <1>5, <2>1
  <1>7. Keeping(s, S) = Joined(ss)
        BY <1>2, <1>3 DEF Keeping
  <1>8. /\ Joined(ss) \in Seq(T)
        /\ \A x : x \in Range(Joined(ss)) <=> \E i \in 1..n : x \in Range(ss[i])
        BY <1>4, <1>6, JoinedHolds
  <1>9. ASSUME NEW x, NEW i \in 1..n
        PROVE  x \in Range(ss[i]) <=> x = s[i] /\ x \in S
    <2>1. CASE s[i] \in S
      <3>1. ss[i] = <<s[i]>>
            BY <1>3, <2>1
      <3>2. DOMAIN <<s[i]>> = {1} /\ <<s[i]>>[1] = s[i]
            OBVIOUS
      <3> QED
          BY <2>1, <3>1, <3>2 DEF Range
    <2>2. CASE s[i] \notin S
      <3>1. ss[i] = <<>>
            BY <1>3, <2>2
      <3> QED
          BY <2>2, <3>1 DEF Range
    <2> QED
        BY <2>1, <2>2
  <1>10. \A x : x \in Range(s) <=> \E i \in 1..n : x = s[i]
         BY <1>2 DEF Range
  <1> QED
      BY <1>7, <1>8, <1>9, <1>10

(* An event of the chain is a contract's print or a token's; a role goes    *)
(* with its protocol; a transaction has events of this kind.                *)
EventFits(e) ==
    /\ e = Parsed(e.kind, e.contract, e.asset, e.print, e.amount, e.to)
    /\ \/ /\ e.kind = "contract_log" /\ e.asset = NoAsset
          /\ e.amount = NoAmount /\ e.to = Nothing
       \/ e.kind \in TokenKinds /\ e.contract = Nothing
ManifestFits(manifest) ==
    /\ Nothing \notin DOMAIN manifest
    /\ \A c \in DOMAIN manifest :
         /\ manifest[c].role \in ZestRoles => manifest[c].protocol = "zest"
         /\ manifest[c].role = "pool" => manifest[c].protocol = "bitflow"
         /\ manifest[c].role = "registry" => manifest[c].protocol = "sbtc"
TransactionFits(tx) ==
    /\ tx = [success |-> tx.success, events |-> tx.events]
    /\ tx.events \in Seq(Range(tx.events))
    /\ \A e \in Range(tx.events) : EventFits(e)
BlockFits(txs) ==
    /\ txs \in Seq(Range(txs))
    /\ \A tx \in Range(txs) : TransactionFits(tx)

(* Whatever the envelope, the same event is read out of it.                 *)
LEMMA EventsReadBack ==
  ASSUME NEW e, EventFits(e), NEW form \in Envelopes
  PROVE  ParseEvent(Envelope(e, form)) = e
  <1>1. PICK k, c, a, p, n, to :
          /\ k = e.kind /\ c = e.contract /\ a = e.asset /\ p = e.print
          /\ n = e.amount /\ to = e.to
        OBVIOUS
  <1>2. e = Parsed(k, c, a, p, n, to)
        BY <1>1 DEF EventFits
  <1>3. CASE form = "data"
    <2>1. PICK f : f = [contract_identifier |-> c, asset_identifier |-> a,
                        value |-> p, amount |-> n, recipient |-> to]
          OBVIOUS
    <2>2. PICK y : y = [type |-> k, data |-> f]
          OBVIOUS
    <2>3. Envelope(e, form) = y
          BY <1>1, <1>3, <2>1, <2>2 DEF Envelope
    <2>4. "metadata" \notin DOMAIN y /\ "data" \in DOMAIN y /\ y.type = k /\ y.data = f
          BY <2>2
    <2>5. ParseEvent(y) = OfFields(k, f)
          BY <2>4 DEF ParseEvent
    <2> QED
        BY <1>2, <2>1, <2>3, <2>5 DEF OfFields
  <1>4. CASE form = "operation"
    <2>1. PICK f : f = [contract_identifier |-> c, asset_identifier |-> a,
                        value |-> p, amount |-> n, recipient |-> to]
          OBVIOUS
    <2>2. PICK y, z : y = [type |-> k, metadata |-> f] /\ z = [type |-> k, data |-> f]
          OBVIOUS
    <2>3. Envelope(e, form) = y
          BY <1>1, <1>4, <2>1, <2>2 DEF Envelope
    <2>4. "metadata" \in DOMAIN y /\ V2OperationEvent(y) = z
          BY <2>2 DEF V2OperationEvent
    <2>5. "data" \in DOMAIN z /\ z.type = k /\ z.data = f
          BY <2>2
    <2>6. ParseEvent(y) = OfFields(k, f)
          BY <2>4, <2>5 DEF ParseEvent
    <2> QED
        BY <1>2, <2>1, <2>3, <2>6 DEF OfFields
  <1>5. CASE form = "typed" /\ k \in TokenKinds
    <2>1. PICK f, t : /\ f = [action |-> k, asset_id |-> a, value |-> p,
                              amount |-> n, recipient |-> to]
                      /\ t = IF k \in {"ft_mint", "ft_transfer"} THEN "fungible_token_asset"
                             ELSE "non_fungible_token_asset"
          OBVIOUS
    <2>2. PICK y : y = [type |-> t, asset |-> f]
          OBVIOUS
    <2>3. Envelope(e, form) = y
          BY <1>1, <1>5, <2>1, <2>2 DEF Envelope
    <2>4. /\ "metadata" \notin DOMAIN y /\ "data" \notin DOMAIN y
          /\ "contract_log" \notin DOMAIN y /\ y.asset = f
          BY <2>2
    <2>5. /\ f.action = k /\ f.asset_id = a /\ f.value = p /\ f.amount = n /\ f.recipient = to
          BY <2>1
    <2>6. ParseEvent(y) = Parsed(k, Nothing, a, p, n, to)
          BY <2>4, <2>5 DEF ParseEvent, AssetType
    <2>7. c = Nothing
          BY <1>1, <1>5 DEF EventFits, TokenKinds
    <2> QED
        BY <1>2, <2>3, <2>6, <2>7
  <1>6. CASE form = "typed" /\ k \notin TokenKinds
    <2>1. PICK f : f = [contract_id |-> c, value |-> p]
          OBVIOUS
    <2>2. PICK y : y = [type |-> "contract_log", contract_log |-> f]
          OBVIOUS
    <2>3. Envelope(e, form) = y
          BY <1>1, <1>6, <2>1, <2>2 DEF Envelope
    <2>4. /\ "metadata" \notin DOMAIN y /\ "data" \notin DOMAIN y
          /\ "contract_log" \in DOMAIN y /\ y.contract_log = f /\ y.type = "contract_log"
          BY <2>2
    <2>5. f.contract_id = c /\ f.value = p
          BY <2>1
    <2>6. ParseEvent(y) = Parsed("contract_log", c, NoAsset, p, NoAmount, Nothing)
          BY <2>4, <2>5 DEF ParseEvent
    <2>7. k = "contract_log" /\ a = NoAsset /\ n = NoAmount /\ to = Nothing
          BY <1>1, <1>6 DEF EventFits
    <2> QED
        BY <1>2, <2>3, <2>6, <2>7
  <1> QED
      BY <1>3, <1>4, <1>5, <1>6 DEF Envelopes

LEMMA BlocksReadBack ==
  ASSUME NEW txs, BlockFits(txs), NEW form \in Envelopes
  PROVE  [i \in DOMAIN txs |-> ParseTransaction(Delivered(txs, form)[i])] = txs
  <1>1. ASSUME NEW tx, TransactionFits(tx)
        PROVE  ParseTransaction([tx EXCEPT !.events =
                   [j \in DOMAIN tx.events |-> Envelope(tx.events[j], form)]]) = tx
    <2>1. PICK s, es : s = tx.success /\ es = tx.events
          OBVIOUS
    <2>2. tx = [success |-> s, events |-> es] /\ es \in Seq(Range(es))
          BY <1>1, <2>1 DEF TransactionFits
    <2>3. \A j \in DOMAIN es : ParseEvent(Envelope(es[j], form)) = es[j]
      <3>1. \A j \in DOMAIN es : EventFits(es[j])
            BY <1>1, <2>1 DEF TransactionFits, Range
      <3> QED
          BY <3>1, EventsReadBack
    <2>4. PICK fs : fs = [j \in DOMAIN es |-> Envelope(es[j], form)]
          OBVIOUS
    <2>5. PICK d : d = [tx EXCEPT !.events = fs]
          OBVIOUS
    <2>6. d = [success |-> s, events |-> fs]
          BY <2>2, <2>5
    <2>7. PICK gs : gs = [j \in DOMAIN fs |-> ParseEvent(fs[j])]
          OBVIOUS
    <2>8. gs = es
      <3>1. DOMAIN fs = DOMAIN es /\ \A j \in DOMAIN es : fs[j] = Envelope(es[j], form)
            BY <2>4
      <3>2. gs = [j \in DOMAIN es |-> es[j]]
            BY <2>3, <2>7, <3>1
      <3>3. es = [j \in DOMAIN es |-> es[j]]
            BY <2>2
      <3> QED
          BY <3>2, <3>3
    <2>9. ParseTransaction(d) = [d EXCEPT !.events = gs]
          BY <2>6, <2>7 DEF ParseTransaction
    <2>10. ParseTransaction(d) = [success |-> s, events |-> gs]
           BY <2>6, <2>9
    <2> QED
        BY <2>1, <2>2, <2>4, <2>5, <2>8, <2>10
  <1>2. \A i \in DOMAIN txs : TransactionFits(txs[i])
        BY DEF BlockFits, Range
  <1>3. \A i \in DOMAIN txs : ParseTransaction(Delivered(txs, form)[i]) = txs[i]
        BY <1>1, <1>2 DEF Delivered
  <1>4. txs = [i \in DOMAIN txs |-> txs[i]]
        BY DEF BlockFits
  <1> QED
      BY <1>3, <1>4

(* What the projection of a transaction and of a block contains.            *)
LEMMA RowsOfTransaction ==
  ASSUME NEW manifest, NEW height, NEW tx, tx.events \in Seq(Range(tx.events)), NEW T,
         \A e \in Range(tx.events) : ProjectEvent(manifest, height, tx, e) \in T
  PROVE  /\ ProjectTransaction(manifest, height, tx) \in Seq(T)
         /\ \A r : r \in Range(ProjectTransaction(manifest, height, tx)) <=>
              /\ tx.success = "yes" /\ r # NoRow
              /\ \E e \in Range(tx.events) : r = ProjectEvent(manifest, height, tx, e)
  <1>1. CASE tx.success # "yes"
    <2>1. ProjectTransaction(manifest, height, tx) = <<>>
          BY <1>1 DEF ProjectTransaction
    <2> QED
        BY <1>1, <2>1 DEF Range
  <1>2. CASE tx.success = "yes"
    <2>1. PICK es, n : es = tx.events /\ n = Len(es)
          OBVIOUS
    <2>2. n \in Nat /\ DOMAIN es = 1..n
          BY <2>1, LenProperties
    <2>3. PICK rows : rows = [i \in 1..n |-> ProjectEvent(manifest, height, tx, es[i])]
          OBVIOUS
    <2>4. \A i \in 1..n : rows[i] \in T
          BY <2>1, <2>2, <2>3 DEF Range
    <2>5. rows \in Seq(T)
          BY <2>2, <2>3, <2>4
    <2>6. ProjectTransaction(manifest, height, tx) = Keeping(rows, Range(rows) \ {NoRow})
          BY <1>2, <2>1, <2>2, <2>3 DEF ProjectTransaction
    <2>7. PICK S : S = Range(rows) \ {NoRow}
          OBVIOUS
    <2>8. /\ Keeping(rows, S) \in Seq(T)
          /\ \A r : r \in Range(Keeping(rows, S)) <=> r \in Range(rows) /\ r \in S
          BY <2>5, KeepingKeeps
    <2>9. \A r : r \in Range(rows) <=>
            \E e \in Range(es) : r = ProjectEvent(manifest, height, tx, e)
          BY <2>2, <2>3 DEF Range
    <2> QED
        BY <1>2, <2>1, <2>6, <2>7, <2>8, <2>9
  <1> QED
      BY <1>1, <1>2

LEMMA RowsOfBlock ==
  ASSUME NEW manifest, NEW height, NEW txs, txs \in Seq(Range(txs)),
         \A tx \in Range(txs) : tx.events \in Seq(Range(tx.events))
  PROVE  \A r : r \in Range(ProjectProtocolEvents(manifest, height, txs)) <=>
           \E tx \in Range(txs) :
             /\ tx.success = "yes" /\ r # NoRow
             /\ \E e \in Range(tx.events) : r = ProjectEvent(manifest, height, tx, e)
  <1>1. PICK n : n = Len(txs)
        OBVIOUS
  <1>2. n \in Nat /\ DOMAIN txs = 1..n
        BY <1>1, LenProperties
  <1>3. PICK T : T = UNION {{ProjectEvent(manifest, height, tx, e) : e \in Range(tx.events)} :
                              tx \in Range(txs)}
        OBVIOUS
  <1>4. \A tx \in Range(txs) : \A e \in Range(tx.events) :
          ProjectEvent(manifest, height, tx, e) \in T
    <2> TAKE tx \in Range(txs)
    <2> TAKE e \in Range(tx.events)
    <2>1. PICK r : r = ProjectEvent(manifest, height, tx, e)
          OBVIOUS
    <2>2. r \in {ProjectEvent(manifest, height, tx, f) : f \in Range(tx.events)}
          BY <2>1
    <2> QED
        BY Zenon, <1>3, <2>1, <2>2
  <1>5. \A tx \in Range(txs) :
          /\ ProjectTransaction(manifest, height, tx) \in Seq(T)
          /\ \A r : r \in Range(ProjectTransaction(manifest, height, tx)) <=>
               /\ tx.success = "yes" /\ r # NoRow
               /\ \E e \in Range(tx.events) : r = ProjectEvent(manifest, height, tx, e)
        BY <1>4, RowsOfTransaction
  <1>6. PICK ss, U : /\ ss = [i \in 1..n |-> ProjectTransaction(manifest, height, txs[i])]
                     /\ U = Seq(T)
        OBVIOUS
  <1>7. \A i \in 1..n : txs[i] \in Range(txs)
        BY <1>2 DEF Range
  <1>8. \A i \in 1..n : ss[i] \in U
        BY <1>5, <1>6, <1>7
  <1>9. ss \in Seq(U) /\ Len(ss) = n
    <2>1. ss = [i \in 1..n |-> ss[i]] /\ DOMAIN ss = 1..n
          BY <1>6
    <2>2. ss \in [1..n -> U]
          BY Zenon, <1>8, <2>1
    <2> QED
        BY <1>2, <2>1, <2>2
  <1>10. ProjectProtocolEvents(manifest, height, txs) = Joined(ss)
         BY <1>2, <1>6 DEF ProjectProtocolEvents
  <1>11. \A r : r \in Range(Joined(ss)) <=> \E i \in 1..n : r \in Range(ss[i])
         BY <1>6, <1>9, JoinedHolds
  <1>12. \A tx : tx \in Range(txs) <=> \E i \in 1..n : tx = txs[i]
         BY <1>2 DEF Range
  <1>13. \A i \in 1..n : ss[i] = ProjectTransaction(manifest, height, txs[i])
         BY <1>6
  <1>14. \A r : r \in Range(Joined(ss)) <=>
           \E tx \in Range(txs) : r \in Range(ProjectTransaction(manifest, height, tx))
         BY <1>11, <1>12, <1>13
  <1> QED
      BY <1>5, <1>10, <1>14

(* Compaction keeps the relevant events, and the transactions with any.     *)
LEMMA CompactedTransaction ==
  ASSUME NEW manifest, NEW tx, TransactionFits(tx)
  PROVE  LET c == CompactTransaction(manifest, tx) IN
         /\ c.success = tx.success
         /\ c.events \in Seq(Range(c.events))
         /\ \A e : e \in Range(c.events) <=> e \in Range(tx.events) /\ Relevant(manifest, e)
  <1>1. PICK s, es, S : /\ s = tx.success /\ es = tx.events
                        /\ S = {e \in Range(es) : Relevant(manifest, e)}
        OBVIOUS
  <1>2. tx = [success |-> s, events |-> es] /\ es \in Seq(Range(es))
        BY <1>1 DEF TransactionFits
  <1>3. PICK ks : ks = Keeping(es, S)
        OBVIOUS
  <1>4. CompactTransaction(manifest, tx) = [success |-> s, events |-> ks]
        BY <1>1, <1>2, <1>3 DEF CompactTransaction
  <1>5. ks \in Seq(Range(es)) /\ \A e : e \in Range(ks) <=> e \in Range(es) /\ e \in S
        BY <1>2, <1>3, KeepingKeeps
  <1>6. ks \in Seq(Range(ks))
        BY <1>5 DEF Range
  <1> QED
      BY <1>1, <1>4, <1>5, <1>6

LEMMA CompactedBlock ==
  ASSUME NEW manifest, NEW txs, BlockFits(txs)
  PROVE  LET b == CompactChainhookBatch(manifest, txs) IN
         /\ b \in Seq(Range(b))
         /\ \A c : c \in Range(b) <=>
              /\ c.events # <<>>
              /\ \E tx \in Range(txs) : c = CompactTransaction(manifest, tx)
  <1>1. PICK n : n = Len(txs)
        OBVIOUS
  <1>2. n \in Nat /\ DOMAIN txs = 1..n
        BY <1>1, LenProperties DEF BlockFits
  <1>3. PICK cs : cs = [i \in 1..n |-> CompactTransaction(manifest, txs[i])]
        OBVIOUS
  <1>4. \A c : c \in Range(cs) <=> \E tx \in Range(txs) : c = CompactTransaction(manifest, tx)
        BY <1>2, <1>3 DEF Range
  <1>5. PICK S, R : S = {tx \in Range(cs) : tx.events # <<>>} /\ R = Range(cs)
        OBVIOUS
  <1>6. cs \in Seq(R)
    <2>1. \A i \in 1..n : cs[i] \in R
          BY <1>3, <1>5 DEF Range
    <2> QED
        BY <1>2, <1>3, <2>1
  <1>7. CompactChainhookBatch(manifest, txs) = Keeping(cs, S)
        BY <1>2, <1>3, <1>5 DEF CompactChainhookBatch
  <1>8. PICK b : b = Keeping(cs, S)
        OBVIOUS
  <1>9. b \in Seq(R) /\ \A c : c \in Range(b) <=> c \in Range(cs) /\ c \in S
        BY <1>6, <1>8, KeepingKeeps
  <1>10. b \in Seq(Range(b))
         BY <1>9 DEF Range
  <1> QED
      BY <1>4, <1>5, <1>7, <1>8, <1>9, <1>10

(* Of a completed deposit that names its recipient, a mint decides nothing  *)
(* but whether the deposit can be told from others: without the mints the   *)
(* row is the same.                                                         *)
LEMMA MintsOnlyConfirm ==
  ASSUME NEW e, NEW tx, NEW c, NEW token,
         \A f \in Range(c.events) : f.kind # "ft_mint",
         Has(e.print, {"topic"}) /\ e.print.topic = "completed-deposit"
           => "recipient" \in DOMAIN e.print,
         DecodeSbtc(e, tx, token).what = "row"
  PROVE  DecodeSbtc(e, c, token) = DecodeSbtc(e, tx, token)
  <1>1. CASE ~(Has(e.print, {"topic"}) /\ e.print.topic = "completed-deposit")
    <2>1. PICK p, t : p = e.print /\ t = p.topic
          OBVIOUS
    <2> QED
        BY <1>1, <2>1 DEF DecodeSbtc
  <1>2. CASE Has(e.print, {"topic"}) /\ e.print.topic = "completed-deposit"
    <2>1. PICK p : p = e.print
          OBVIOUS
    <2>2. "recipient" \in DOMAIN p /\ Has(p, {"topic"}) /\ p.topic = "completed-deposit"
          BY <1>2, <2>1
    <2>3. PICK who, txid, amount :
            /\ who = Recipient(e, tx, token) /\ txid = p.txid /\ amount = p.amount
          OBVIOUS
    <2>4. \A u : DecodeSbtc(e, u, token) =
            IF ~Has(p, {"txid", "amount"}) \/ Recipient(e, u, token) = Nothing
            THEN Failed("sbtc")
            ELSE Row("sbtc", "completed-deposit", Recipient(e, u, token),
                     <<"deposit", p.txid>>, p.amount)
          BY <2>1, <2>2 DEF DecodeSbtc, WithdrawalTopics
    <2>5. who # Nothing
          BY <2>3, <2>4 DEF Failed
    <2>6. who = p.recipient
          BY <2>1, <2>2, <2>3, <2>5 DEF Recipient
    <2>7. SameAmountMints(c, token, p.amount) = {}
          BY DEF SameAmountMints, Range
    <2>8. Recipient(e, c, token) = p.recipient
          BY <2>1, <2>2, <2>7, FS_EmptySet DEF Recipient
    <2> QED
        BY <2>3, <2>4, <2>6, <2>8
  <1> QED
      BY <1>1, <1>2

(* The event of a row is relevant, and its row is the same after compaction.*)
LEMMA RowsAreRelevant ==
  ASSUME NEW manifest, ManifestFits(manifest), NEW height, NEW tx, NEW e, EventFits(e),
         ProjectEvent(manifest, height, tx, e).what = "row"
  PROVE  Relevant(manifest, e)
  <1>1. PICK enabled, pools, r, C :
          /\ enabled = Enabled(manifest, height)
          /\ pools = {c \in OfRole(manifest, height, "pool") :
                        e.contract = c \/ e.asset = PoolToken(c)}
          /\ r = ProjectEvent(manifest, height, tx, e)
          /\ C = ProjectionBackfillContracts(manifest)
        OBVIOUS
  <1>2. enabled \subseteq DOMAIN manifest
        BY <1>1 DEF Enabled
  <1>3. e.contract \in DOMAIN manifest => e.kind = "contract_log"
        BY DEF EventFits, ManifestFits
  <1>4. CASE e.contract \in enabled /\ manifest[e.contract].role \in ZestRoles
    <2>1. e.contract \in C
          BY <1>1, <1>2, <1>4
             DEF ManifestFits, ProjectionBackfillContracts, IsProjectionBackfillContract
    <2> QED
        BY <1>1, <1>2, <1>3, <1>4, <2>1 DEF Relevant
  <1>5. CASE ~(e.contract \in enabled /\ manifest[e.contract].role \in ZestRoles) /\ pools # {}
    <2>1. PICK pool : pool = TheOne(pools)
          OBVIOUS
    <2>2. pool \in pools
          BY <1>5, <2>1 DEF TheOne
    <2>3. r = DecodeBitflow(e, pool)
          BY <1>1, <1>5, <2>1 DEF ProjectEvent
    <2>4. pool \in DOMAIN manifest /\ manifest[pool].role = "pool"
          BY <1>1, <2>2 DEF OfRole, Enabled
    <2>5. pool \in C /\ manifest[pool].protocol = "bitflow"
          BY <1>1, <2>4 DEF ManifestFits, ProjectionBackfillContracts, IsProjectionBackfillContract
    <2>6. \/ e.asset = PoolToken(pool) /\ e.kind \in {"nft_mint", "nft_burn", "nft_transfer"}
          \/ e.contract = pool
          BY <1>1, <2>3 DEF DecodeBitflow, NoRow
    <2> QED
        BY <1>1, <1>3, <2>4, <2>5, <2>6 DEF Relevant
  <1>6. CASE ~(e.contract \in enabled /\ manifest[e.contract].role \in ZestRoles) /\ pools = {}
    <2>1. e.contract \in OfRole(manifest, height, "registry")
          BY <1>1, <1>6 DEF ProjectEvent, NoRow
    <2>2. e.contract \in DOMAIN manifest /\ manifest[e.contract].role = "registry"
          BY <2>1 DEF OfRole, Enabled
    <2>3. e.contract \in C
          BY <1>1, <2>2 DEF ManifestFits, ProjectionBackfillContracts, IsProjectionBackfillContract
    <2> QED
        BY <1>1, <1>3, <2>2, <2>3 DEF Relevant
  <1> QED
      BY <1>4, <1>5, <1>6

LEMMA RowsSurvive ==
  ASSUME NEW manifest, NEW height, NEW tx, NEW c, NEW e,
         \A f \in Range(c.events) : f.kind # "ft_mint",
         Has(e.print, {"topic"}) /\ e.print.topic = "completed-deposit"
           => "recipient" \in DOMAIN e.print,
         ProjectEvent(manifest, height, tx, e).what = "row"
  PROVE  ProjectEvent(manifest, height, c, e) = ProjectEvent(manifest, height, tx, e)
  <1>1. PICK pools, enabled, registries, token :
          /\ enabled = Enabled(manifest, height)
          /\ pools = {p \in OfRole(manifest, height, "pool") :
                        e.contract = p \/ e.asset = PoolToken(p)}
          /\ registries = OfRole(manifest, height, "registry")
          /\ token = TheOne(OfRole(manifest, height, "token"))
        OBVIOUS
  <1>2. \A u : ProjectEvent(manifest, height, u, e) =
          IF e.contract \in enabled /\ manifest[e.contract].role \in ZestRoles THEN DecodeZest(e)
          ELSE IF pools # {} THEN DecodeBitflow(e, TheOne(pools))
          ELSE IF e.contract \in registries THEN DecodeSbtc(e, u, token)
          ELSE NoRow
        BY <1>1 DEF ProjectEvent
  <1>3. CASE /\ ~(e.contract \in enabled /\ manifest[e.contract].role \in ZestRoles)
             /\ pools = {} /\ e.contract \in registries
    <2>1. \A u : ProjectEvent(manifest, height, u, e) = DecodeSbtc(e, u, token)
          BY <1>2, <1>3
    <2>2. DecodeSbtc(e, tx, token).what = "row"
          BY <2>1
    <2>3. DecodeSbtc(e, c, token) = DecodeSbtc(e, tx, token)
          BY <2>2, MintsOnlyConfirm
    <2> QED
        BY <2>1, <2>3
  <1>4. CASE ~(/\ ~(e.contract \in enabled /\ manifest[e.contract].role \in ZestRoles)
               /\ pools = {} /\ e.contract \in registries)
        BY <1>2, <1>4
  <1> QED
      BY <1>3, <1>4

LEMMA KindsOfTheRelevant ==
  ASSUME NEW manifest, NEW e, Relevant(manifest, e)
  PROVE  e.kind # "ft_mint"
  BY DEF Relevant

(* From a provider's envelope to a stored row: whatever the manifest and    *)
(* the transactions of a block, its rows do not depend on the envelope its  *)
(* events come in, and compaction discards none of them, provided every     *)
(* completed deposit names its recipient.                                   *)
THEOREM RowsSurviveDelivery ==
  ASSUME NEW manifest, ManifestFits(manifest), NEW height, NEW txs, BlockFits(txs)
  PROVE  ProjectionIsSound(manifest, height, txs)
  <1>1. PICK b, left : /\ b = CompactChainhookBatch(manifest, txs)
                         /\ left = Rows(ProjectProtocolEvents(manifest, height, b))
        OBVIOUS
  <1>2. \A form \in Envelopes : StoredRows(manifest, height, txs, form) = left
        BY <1>1, BlocksReadBack DEF StoredRows
  <1>3. "data" \in Envelopes
        BY DEF Envelopes
  <1>4. ASSUME \A tx \in Range(txs) : NamesItsRecipient(tx)
        PROVE  AllRows(manifest, height, txs) \subseteq left
    <2>1. b \in Seq(Range(b))
          BY <1>1, CompactedBlock
    <2>2. \A tx \in Range(txs) :
            LET c == CompactTransaction(manifest, tx) IN
            /\ c.success = tx.success /\ c.events \in Seq(Range(c.events))
            /\ \A e : e \in Range(c.events) <=> e \in Range(tx.events) /\ Relevant(manifest, e)
          BY CompactedTransaction DEF BlockFits
    <2>3. \A c : c \in Range(b) <=>
            c.events # <<>> /\ \E tx \in Range(txs) : c = CompactTransaction(manifest, tx)
          BY <1>1, CompactedBlock
    <2>4. \A c \in Range(b) : c.events \in Seq(Range(c.events))
          BY <2>2, <2>3
    <2>5. \A r : r \in Range(ProjectProtocolEvents(manifest, height, b)) <=>
            \E c \in Range(b) :
              /\ c.success = "yes" /\ r # NoRow
              /\ \E e \in Range(c.events) : r = ProjectEvent(manifest, height, c, e)
          BY <2>1, <2>4, RowsOfBlock
    <2>6. \A r : r \in Range(ProjectProtocolEvents(manifest, height, txs)) <=>
            \E tx \in Range(txs) :
              /\ tx.success = "yes" /\ r # NoRow
              /\ \E e \in Range(tx.events) : r = ProjectEvent(manifest, height, tx, e)
      <3>1. txs \in Seq(Range(txs)) /\ \A tx \in Range(txs) : tx.events \in Seq(Range(tx.events))
            BY DEF BlockFits, TransactionFits
      <3> QED
          BY <3>1, RowsOfBlock
    <2>7. SUFFICES ASSUME NEW r, r \in Range(ProjectProtocolEvents(manifest, height, txs)),
                          r.what = "row"
                   PROVE  r \in Range(ProjectProtocolEvents(manifest, height, b))
          BY <1>1 DEF AllRows, Rows
    <2>8. r # NoRow
          BY <2>7 DEF NoRow
    <2>9. PICK tx \in Range(txs) :
            /\ tx.success = "yes"
            /\ \E e \in Range(tx.events) : r = ProjectEvent(manifest, height, tx, e)
          BY <2>6, <2>7
    <2>10. PICK e \in Range(tx.events) : r = ProjectEvent(manifest, height, tx, e)
           BY <2>9
    <2>11. PICK c : c = CompactTransaction(manifest, tx)
           OBVIOUS
    <2>12. EventFits(e)
           BY DEF BlockFits, TransactionFits
    <2>13. Relevant(manifest, e)
           BY <2>7, <2>10, <2>12, RowsAreRelevant
    <2>14. /\ c.success = "yes" /\ e \in Range(c.events)
           /\ \A f \in Range(c.events) : Relevant(manifest, f)
           BY <2>2, <2>9, <2>11, <2>13
    <2>15. \A f \in Range(c.events) : f.kind # "ft_mint"
           BY <2>14, KindsOfTheRelevant
    <2>16. Has(e.print, {"topic"}) /\ e.print.topic = "completed-deposit"
             => "recipient" \in DOMAIN e.print
           BY <1>4 DEF NamesItsRecipient
    <2>17. ProjectEvent(manifest, height, c, e) = r
           BY <2>7, <2>10, <2>15, <2>16, RowsSurvive
    <2>18. c \in Range(b)
      <3>1. c.events # <<>>
            BY <2>14 DEF Range
      <3> QED
          BY <2>3, <2>11, <3>1
    <2> QED
        BY <2>5, <2>8, <2>14, <2>17, <2>18
  <1> QED
      BY <1>2, <1>3, <1>4 DEF ProjectionIsSound

-----------------------------------------------------------------------------
(* Sums over a finite set, of what a function says of its elements.         *)
LEMMA SubsetInduction ==
  ASSUME NEW D, IsFiniteSet(D), NEW S, {} \in S,
         \A T \in SUBSET D : \A x \in D \ T : T \in S => T \cup {x} \in S
  PROVE  SUBSET D \subseteq S
  <1> DEFINE Upto == {n \in Nat : \A T \in SUBSET D : Cardinality(T) = n => T \in S}
  <1>1. \A T \in SUBSET D : IsFiniteSet(T) /\ Cardinality(T) \in Nat
        BY FS_Subset, FS_CardinalityType
  <1>2. 0 \in Upto
        BY <1>1, FS_EmptySet
  <1>3. ASSUME NEW n \in Nat, n \in Upto PROVE n + 1 \in Upto
    <2>1. SUFFICES ASSUME NEW T \in SUBSET D, Cardinality(T) = n + 1 PROVE T \in S
          OBVIOUS
    <2>2. T # {}
          BY <2>1, FS_EmptySet
    <2>3. PICK x \in T : TRUE
          BY <2>2
    <2>4. Cardinality(T \ {x}) = n
      <3>1. IsFiniteSet(T)
            BY <1>1
      <3>2. Cardinality(T \ {x}) = Cardinality(T) - 1
            BY <2>3, <3>1, FS_RemoveElement
      <3> QED
          BY <2>1, <3>2
    <2>5. T \ {x} \in SUBSET D /\ x \in D \ (T \ {x}) /\ (T \ {x}) \cup {x} = T
          BY <2>3
    <2>6. T \ {x} \in S
          BY <1>3, <2>4, <2>5
    <2> QED
        BY <2>5, <2>6
  <1>4. Nat \subseteq Upto
    <2> HIDE DEF Upto
    <2> QED
        BY <1>2, <1>3, NatSetInduction
  <1> QED
      BY <1>1, <1>4

Additive(g, v, D) ==
    /\ g \in [SUBSET D -> Int] /\ g[{}] = 0
    /\ \A s \in SUBSET D : \A x \in s : g[s] = g[s \ {x}] + v[x]

LEMMA AdditiveExists ==
  ASSUME NEW D, IsFiniteSet(D), NEW v \in [D -> Int]
  PROVE  \E g : Additive(g, v, D)
  <1> DEFINE pick == [s \in SUBSET D |-> CHOOSE x \in s : TRUE]
             step == [q \in D \X Int |-> v[q[1]] + q[2]]
  <1>1. Picks(pick, D)
        BY DEF Picks
  <1>2. step \in [D \X Int -> Int]
        OBVIOUS
  <1>3. PICK g \in [SUBSET D -> Int] : FoldedBy(g, D, 0, step, pick)
    <2> HIDE DEF pick, step
    <2>1. PICK V, base : V = Int /\ base = 0
          OBVIOUS
    <2>2. base \in V /\ step \in [D \X V -> V]
          BY <1>2, <2>1
    <2> QED
        BY <1>1, <2>1, <2>2, FoldExists
  <1>4. g[{}] = 0
        BY <1>3 DEF FoldedBy
  <1>5. \A s \in SUBSET D : s # {} =>
          /\ pick[s] \in s
          /\ g[s] = v[pick[s]] + g[s \ {pick[s]}]
    <2> HIDE DEF pick
    <2>1. \A s \in SUBSET D : s # {} => pick[s] \in s
          BY <1>1 DEF Picks
    <2>2. \A s \in SUBSET D : s # {} => g[s] = step[<<pick[s], g[s \ {pick[s]}]>>]
          BY <1>3 DEF FoldedBy
    <2>3. \A s \in SUBSET D : g[s] \in Int
          OBVIOUS
    <2> QED
        BY <2>1, <2>2, <2>3
  <1> HIDE DEF pick, step
  <1> DEFINE Upto == {n \in Nat : \A s \in SUBSET D :
                Cardinality(s) = n => \A x \in s : g[s] = g[s \ {x}] + v[x]}
  <1>6. \A s \in SUBSET D : IsFiniteSet(s) /\ Cardinality(s) \in Nat
        BY FS_Subset, FS_CardinalityType
  <1>7. 0 \in Upto
        BY <1>6, FS_EmptySet
  <1>8. ASSUME NEW n \in Nat, n \in Upto PROVE n + 1 \in Upto
    <2>1. SUFFICES ASSUME NEW s \in SUBSET D, Cardinality(s) = n + 1, NEW x \in s
                   PROVE  g[s] = g[s \ {x}] + v[x]
          OBVIOUS
    <2>2. PICK p : p = pick[s]
          OBVIOUS
    <2>3. p \in s /\ g[s] = v[p] + g[s \ {p}]
          BY <1>5, <2>2
    <2>4. v[x] \in Int /\ v[p] \in Int /\ g[s \ {p}] \in Int /\ g[s \ {x}] \in Int
          BY <2>3
    <2>5. CASE x = p
          BY <2>3, <2>4, <2>5
    <2>6. CASE x # p
      <3>1. PICK a, b, c : a = s \ {p} /\ b = s \ {x} /\ c = (s \ {p}) \ {x}
            OBVIOUS
      <3>2. /\ a \in SUBSET D /\ b \in SUBSET D /\ x \in a /\ p \in b
            /\ a \ {x} = c /\ b \ {p} = c /\ c \in SUBSET D
            BY <2>3, <2>6, <3>1
      <3>3. Cardinality(a) = n /\ Cardinality(b) = n
        <4>1. IsFiniteSet(s)
              BY <1>6
        <4>2. \A y \in s : Cardinality(s \ {y}) = Cardinality(s) - 1
              BY <4>1, FS_RemoveElement
        <4> QED
            BY <2>1, <2>3, <3>1, <4>2
      <3>4. g[a] = g[c] + v[x] /\ g[b] = g[c] + v[p]
            BY <1>8, <3>2, <3>3
      <3>5. g[c] \in Int
            BY <3>2
      <3> QED
          BY <2>3, <2>4, <3>1, <3>4, <3>5
    <2> QED
        BY <2>5, <2>6
  <1>9. Nat \subseteq Upto
    <2> HIDE DEF Upto
    <2> QED
        BY <1>7, <1>8, NatSetInduction
  <1>10. \A s \in SUBSET D : \A x \in s : g[s] = g[s \ {x}] + v[x]
         BY <1>6, <1>9
  <1> QED
      BY <1>3, <1>4, <1>10 DEF Additive

LEMMA SumIsAdditive ==
  ASSUME NEW D, IsFiniteSet(D), NEW v \in [D -> Int], NEW g, Additive(g, v, D),
         NEW T \in SUBSET D
  PROVE  SumFunctionOnSet(v, T) = g[T]
  <1> DEFINE iter[t \in SUBSET T] ==
                IF t = {} THEN 0
                ELSE LET x == CHOOSE x \in t : TRUE IN v[x] + iter[t \ {x}]
  <1>1. SumFunctionOnSet(v, T) = iter[T]
        BY Zenon DEF SumFunctionOnSet, FoldFunctionOnSet, MapThenFoldSet
  <1>2. PICK h : h = [t \in SUBSET T |-> g[t]]
        OBVIOUS
  <1>3. ASSUME NEW t \in SUBSET T, NEW x \in t
        PROVE  h[t] = v[x] + h[t \ {x}]
    <2>1. t \in SUBSET D /\ t \ {x} \in SUBSET T /\ t \ {x} \in SUBSET D /\ x \in D
          OBVIOUS
    <2>2. g[t] = g[t \ {x}] + v[x]
          BY <2>1 DEF Additive
    <2>3. v[x] \in Int /\ g[t \ {x}] \in Int
          BY <2>1 DEF Additive
    <2>4. h[t] = g[t] /\ h[t \ {x}] = g[t \ {x}]
          BY <1>2, <2>1
    <2> QED
        BY <2>2, <2>3, <2>4
  <1>4. h = [t \in SUBSET T |->
               IF t = {} THEN 0
               ELSE LET x == CHOOSE x \in t : TRUE IN v[x] + h[t \ {x}]]
    <2>1. h[{}] = 0
          BY <1>2 DEF Additive
    <2>2. \A t \in SUBSET T : t # {} => (CHOOSE x \in t : TRUE) \in t
          OBVIOUS
    <2>3. \A t \in SUBSET T :
            h[t] = IF t = {} THEN 0
                   ELSE LET x == CHOOSE x \in t : TRUE IN v[x] + h[t \ {x}]
          BY <1>3, <2>1, <2>2
    <2>4. h = [t \in SUBSET T |-> h[t]]
          BY <1>2
    <2> QED
        BY <2>3, <2>4
  <1>5. iter = [t \in SUBSET T |->
               IF t = {} THEN 0
               ELSE LET x == CHOOSE x \in t : TRUE IN v[x] + iter[t \ {x}]]
        BY <1>4
  <1> HIDE DEF iter
  <1> DEFINE Upto == {n \in Nat : \A t \in SUBSET T : Cardinality(t) = n => iter[t] = h[t]}
  <1>6. \A t \in SUBSET T : IsFiniteSet(t) /\ Cardinality(t) \in Nat
        BY FS_Subset, FS_CardinalityType
  <1>7. 0 \in Upto
    <2>1. iter[{}] = 0 /\ h[{}] = 0
          BY <1>4, <1>5
    <2> QED
        BY <1>6, <2>1, FS_EmptySet
  <1>8. ASSUME NEW n \in Nat, n \in Upto PROVE n + 1 \in Upto
    <2>1. SUFFICES ASSUME NEW t \in SUBSET T, Cardinality(t) = n + 1 PROVE iter[t] = h[t]
          OBVIOUS
    <2>2. t # {}
          BY <2>1, FS_EmptySet
    <2>3. PICK x : x = CHOOSE y \in t : TRUE
          OBVIOUS
    <2>4. x \in t
          BY <2>2, <2>3
    <2>5. iter[t] = v[x] + iter[t \ {x}]
          BY <1>5, <2>2, <2>3
    <2>6. h[t] = v[x] + h[t \ {x}]
          BY <1>3, <2>4
    <2>7. Cardinality(t \ {x}) = n
          BY <1>6, <2>1, <2>4, FS_RemoveElement
    <2>8. iter[t \ {x}] = h[t \ {x}]
          BY <1>8, <2>7
    <2> QED
        BY <2>5, <2>6, <2>8
  <1>9. Nat \subseteq Upto
    <2> HIDE DEF Upto
    <2> QED
        BY <1>7, <1>8, NatSetInduction
  <1>10. iter[T] = h[T] /\ h[T] = g[T]
         BY <1>2, <1>6, <1>9
  <1> QED
      BY <1>1, <1>10

LEMMA SumStep ==
  ASSUME NEW D, IsFiniteSet(D), NEW v \in [D -> Int]
  PROVE  /\ SumFunctionOnSet(v, {}) = 0
         /\ \A T \in SUBSET D :
              /\ SumFunctionOnSet(v, T) \in Int
              /\ \A x \in D \ T :
                   SumFunctionOnSet(v, T \cup {x}) = SumFunctionOnSet(v, T) + v[x]
  <1>1. PICK g : Additive(g, v, D)
        BY AdditiveExists
  <1>2. \A T \in SUBSET D : SumFunctionOnSet(v, T) = g[T]
        BY <1>1, SumIsAdditive
  <1>3. g[{}] = 0 /\ \A T \in SUBSET D : g[T] \in Int
        BY <1>1 DEF Additive
  <1>4. ASSUME NEW T \in SUBSET D, NEW x \in D \ T
        PROVE  g[T \cup {x}] = g[T] + v[x]
    <2>1. T \cup {x} \in SUBSET D /\ x \in T \cup {x} /\ (T \cup {x}) \ {x} = T
          OBVIOUS
    <2>2. g[T \cup {x}] = g[(T \cup {x}) \ {x}] + v[x]
          BY <1>1, <2>1 DEF Additive
    <2> QED
        BY <2>1, <2>2
  <1> QED
      BY <1>2, <1>3, <1>4, ZenonT(40)

LEMMA TotalsAreNatural ==
  ASSUME NEW D, IsFiniteSet(D), NEW v \in [D -> Int], NEW T \in SUBSET D,
         \A i \in T : v[i] >= 0
  PROVE  SumFunctionOnSet(v, T) \in Nat
  <1> DEFINE S == {U \in SUBSET D : (\A i \in U : v[i] >= 0) => SumFunctionOnSet(v, U) >= 0}
  <1>1. {} \in S
        BY SumStep
  <1>2. ASSUME NEW U \in SUBSET D, NEW x \in D \ U, U \in S PROVE U \cup {x} \in S
    <2>1. SUFFICES ASSUME \A i \in U \cup {x} : v[i] >= 0
                   PROVE  SumFunctionOnSet(v, U \cup {x}) >= 0
          OBVIOUS
    <2>2. PICK a, b, c : /\ a = SumFunctionOnSet(v, U) /\ b = v[x]
                         /\ c = SumFunctionOnSet(v, U \cup {x})
          OBVIOUS
    <2>3. a \in Int /\ b \in Int /\ c = a + b
          BY <2>2, SumStep
    <2>4. a >= 0 /\ b >= 0
          BY <1>2, <2>1, <2>2
    <2> QED
        BY <2>2, <2>3, <2>4
  <1>3. SUBSET D \subseteq S
    <2> HIDE DEF S
    <2> QED
        BY <1>1, <1>2, SubsetInduction
  <1>4. SumFunctionOnSet(v, T) \in Int
        BY SumStep
  <1> QED
      BY <1>3, <1>4

LEMMA TotalsCompare ==
  ASSUME NEW D, IsFiniteSet(D), NEW v \in [D -> Int], NEW w \in [D -> Int], NEW k \in {1, 2},
         NEW T \in SUBSET D, \A i \in T : k * v[i] <= w[i]
  PROVE  k * SumFunctionOnSet(v, T) <= SumFunctionOnSet(w, T)
  <1> DEFINE S == {U \in SUBSET D : (\A i \in U : k * v[i] <= w[i]) =>
                      k * SumFunctionOnSet(v, U) <= SumFunctionOnSet(w, U)}
  <1>1. {} \in S
        BY SumStep
  <1>2. ASSUME NEW U \in SUBSET D, NEW x \in D \ U, U \in S PROVE U \cup {x} \in S
    <2>1. SUFFICES ASSUME \A i \in U \cup {x} : k * v[i] <= w[i]
                   PROVE  k * SumFunctionOnSet(v, U \cup {x}) <= SumFunctionOnSet(w, U \cup {x})
          OBVIOUS
    <2>2. PICK a, b, c : /\ a = SumFunctionOnSet(v, U) /\ b = v[x]
                         /\ c = SumFunctionOnSet(v, U \cup {x})
          OBVIOUS
    <2>3. PICK d, e, f : /\ d = SumFunctionOnSet(w, U) /\ e = w[x]
                         /\ f = SumFunctionOnSet(w, U \cup {x})
          OBVIOUS
    <2>4. a \in Int /\ b \in Int /\ c = a + b
          BY <2>2, SumStep
    <2>5. d \in Int /\ e \in Int /\ f = d + e
          BY <2>3, SumStep
    <2>6. k * a <= d /\ k * b <= e
          BY <1>2, <2>1, <2>2, <2>3
    <2>7. k = 1 \/ k = 2
          OBVIOUS
    <2>8. k * c <= f
          BY <2>4, <2>5, <2>6, <2>7
    <2> QED
        BY <2>2, <2>3, <2>8
  <1>3. SUBSET D \subseteq S
    <2> HIDE DEF S
    <2> QED
        BY <1>1, <1>2, SubsetInduction
  <1>4. T \in S
    <2> HIDE DEF S
    <2> QED
        BY <1>3
  <1> QED
      BY <1>4

LEMMA TotalsJoin ==
  ASSUME NEW D, IsFiniteSet(D), NEW v \in [D -> Int], NEW T \in SUBSET D, NEW U \in SUBSET D,
         T \cap U = {}
  PROVE  SumFunctionOnSet(v, T \cup U) = SumFunctionOnSet(v, T) + SumFunctionOnSet(v, U)
  <1> DEFINE S == {X \in SUBSET D : T \cap X = {} =>
                      SumFunctionOnSet(v, T \cup X)
                        = SumFunctionOnSet(v, T) + SumFunctionOnSet(v, X)}
  <1>1. {} \in S
    <2>1. T \cup {} = T /\ SumFunctionOnSet(v, T) \in Int /\ SumFunctionOnSet(v, {}) = 0
          BY SumStep
    <2> QED
        BY <2>1
  <1>2. ASSUME NEW X \in SUBSET D, NEW x \in D \ X, X \in S PROVE X \cup {x} \in S
    <2>1. SUFFICES ASSUME T \cap (X \cup {x}) = {}
                   PROVE  SumFunctionOnSet(v, T \cup (X \cup {x}))
                            = SumFunctionOnSet(v, T) + SumFunctionOnSet(v, X \cup {x})
          OBVIOUS
    <2>2. PICK Y : Y = T \cup X
          OBVIOUS
    <2>3. Y \in SUBSET D /\ x \in D \ Y /\ T \cup (X \cup {x}) = Y \cup {x} /\ T \cap X = {}
          BY <2>1, <2>2
    <2>4. PICK a, b, c, n, d : /\ a = SumFunctionOnSet(v, T) /\ b = SumFunctionOnSet(v, X)
                               /\ c = SumFunctionOnSet(v, Y) /\ n = v[x]
                               /\ d = SumFunctionOnSet(v, X \cup {x})
          OBVIOUS
    <2>5. c = a + b
          BY <1>2, <2>2, <2>3, <2>4
    <2>6. d = b + n /\ SumFunctionOnSet(v, Y \cup {x}) = c + n
          BY <2>3, <2>4, SumStep
    <2>7. a \in Int /\ b \in Int /\ n \in Int
          BY <2>4, SumStep
    <2>8. PICK e, f : /\ e = SumFunctionOnSet(v, Y \cup {x})
                      /\ f = SumFunctionOnSet(v, T \cup (X \cup {x}))
          OBVIOUS
    <2>9. f = e
          BY <2>3, <2>8
    <2>10. f = a + d
           BY <2>5, <2>6, <2>7, <2>8, <2>9
    <2> QED
        BY <2>4, <2>8, <2>10
  <1>3. SUBSET D \subseteq S
    <2> HIDE DEF S
    <2> QED
        BY <1>1, <1>2, SubsetInduction
  <1> QED
      BY <1>3

LEMMA TotalsOfPart ==
  ASSUME NEW D, IsFiniteSet(D), NEW v \in [D -> Int], NEW T \in SUBSET D, NEW U \in SUBSET D,
         T \subseteq U, \A i \in U : v[i] >= 0
  PROVE  SumFunctionOnSet(v, T) <= SumFunctionOnSet(v, U)
  <1>1. PICK R : R = U \ T
        OBVIOUS
  <1>2. R \in SUBSET D /\ T \cap R = {} /\ T \cup R = U /\ \A i \in R : v[i] >= 0
        BY <1>1
  <1>3. PICK a, b, c : /\ a = SumFunctionOnSet(v, T) /\ b = SumFunctionOnSet(v, R)
                       /\ c = SumFunctionOnSet(v, U)
        OBVIOUS
  <1>4. c = a + b
        BY <1>2, <1>3, TotalsJoin
  <1>5. a \in Int
        BY <1>3, SumStep
  <1>6. b \in Nat
        BY <1>2, <1>3, TotalsAreNatural
  <1> QED
      BY <1>3, <1>4, <1>5, <1>6

(* Valuation.  A leg has a value in fixed point or none, before and after   *)
(* it is priced; a position is a record with finitely many legs.            *)
ValueFits(l) == l.value \in Nat \/ l.value = NoValue
MoneyFits(l) ==
    /\ l = [asset |-> l.asset, amount |-> l.amount, value |-> l.value, trust |-> l.trust]
    /\ l.amount \in Nat /\ ValueFits(l)
MoneysFit(legs) == IsFiniteSet(DOMAIN legs) /\ \A i \in DOMAIN legs : MoneyFits(legs[i])
PositionFits(p) ==
    /\ p = [kind |-> p.kind, own |-> p.own, owed |-> p.owed,
            spendable |-> p.spendable, state |-> p.state]
    /\ MoneysFit(p.own) /\ MoneysFit(p.owed)
QuotesFit(quotes) == \A a \in DOMAIN quotes : quotes[a].price \in Int

IsWhole(p) == \A l \in LegsOf(p) : l.value # NoValue
ValuedFits(p) ==
    /\ \A legs \in {p.own, p.owed} :
         IsFiniteSet(DOMAIN legs) /\ \A i \in DOMAIN legs : ValueFits(legs[i])
    /\ IsWhole(p) \/ p.state \in {"degraded", "unsupported"}
ValuedAll(ps) == IsFiniteSet(DOMAIN ps) /\ \A i \in DOMAIN ps : ValuedFits(ps[i])

LEMMA PricedLegFits ==
  ASSUME NEW l, MoneyFits(l), NEW quotes, QuotesFit(quotes)
  PROVE  ValueFits(Priced(l, quotes))
  <1>1. PICK a, n, v, t : a = l.asset /\ n = l.amount /\ v = l.value /\ t = l.trust
        OBVIOUS
  <1>2. l = [asset |-> a, amount |-> n, value |-> v, trust |-> t] /\ n \in Nat
        BY <1>1 DEF MoneyFits
  <1>3. PICK q : q = PriceOf(quotes, a)
        OBVIOUS
  <1>4. CASE q = NoPrice
        BY <1>1, <1>3, <1>4 DEF Priced, MoneyFits
  <1>5. CASE q # NoPrice
    <2>1. a \in DOMAIN quotes /\ Accepted(quotes[a]) /\ q.price = quotes[a].price
          BY <1>3, <1>5 DEF PriceOf
    <2>2. q.price \in Nat
          BY <2>1 DEF Accepted, QuotesFit
    <2>3. PICK w : w = n * q.price
          OBVIOUS
    <2>4. Priced(l, quotes) = [l EXCEPT !.value = w, !.trust = q.confidence]
          BY <1>1, <1>3, <1>5, <2>3 DEF Priced
    <2>5. Priced(l, quotes).value = w
          BY <1>2, <2>4
    <2>6. w \in Nat
          BY <1>2, <2>2, <2>3, Products
    <2> QED
        BY <2>5, <2>6 DEF ValueFits
  <1> QED
      BY <1>4, <1>5

LEMMA EnrichedIsValued ==
  ASSUME NEW p, PositionFits(p), NEW quotes, QuotesFit(quotes)
  PROVE  ValuedFits(Enriched(p, quotes))
  <1>1. PICK own, owed : own = PricedLegs(p.own, quotes) /\ owed = PricedLegs(p.owed, quotes)
        OBVIOUS
  <1>2. PICK q, s : /\ q = [p EXCEPT !.own = own, !.owed = owed]
                    /\ s = EvidenceState(p, LegsOf(q))
        OBVIOUS
  <1>3. PICK k, sp, st, r : /\ k = p.kind /\ sp = p.spendable /\ st = p.state
                            /\ r = [q EXCEPT !.state = s]
        OBVIOUS
  <1>4. q = [kind |-> k, own |-> own, owed |-> owed, spendable |-> sp, state |-> st]
        BY <1>2, <1>3 DEF PositionFits
  <1>5. r = [kind |-> k, own |-> own, owed |-> owed, spendable |-> sp, state |-> s]
        BY <1>3, <1>4
  <1>6. Enriched(p, quotes) = r
        BY <1>1, <1>2, <1>3 DEF Enriched
  <1>7. LegsOf(r) = LegsOf(q)
        BY <1>4, <1>5 DEF LegsOf
  <1>8. ASSUME NEW legs, MoneysFit(legs), NEW priced, priced = PricedLegs(legs, quotes)
        PROVE  IsFiniteSet(DOMAIN priced) /\ \A i \in DOMAIN priced : ValueFits(priced[i])
        BY <1>8, PricedLegFits DEF PricedLegs, MoneysFit
  <1>9. /\ IsFiniteSet(DOMAIN own) /\ \A i \in DOMAIN own : ValueFits(own[i])
        /\ IsFiniteSet(DOMAIN owed) /\ \A i \in DOMAIN owed : ValueFits(owed[i])
        BY <1>1, <1>8 DEF PositionFits
  <1>10. IsWhole(q) \/ s \in {"degraded", "unsupported"}
    <2>1. SUFFICES ASSUME ~IsWhole(q) PROVE s \in {"degraded", "unsupported"}
          OBVIOUS
    <2>2. PICK missing, weak, of :
            /\ missing = {l \in LegsOf(q) : l.value = NoValue}
            /\ weak = (\E l \in LegsOf(q) \ missing : l.trust < 80)
            /\ of = IF weak THEN "estimated" ELSE p.state
          OBVIOUS
    <2>3. missing # {}
          BY <2>1, <2>2 DEF IsWhole
    <2>4. s = IF \E l \in missing : l.asset \notin SupportedAssets THEN "unsupported"
              ELSE IF missing # {} /\ (p.kind = "lending" \/ of # "unsupported") THEN "degraded"
              ELSE of
          BY <1>2, <2>2 DEF EvidenceState
    <2> QED
        BY <2>3, <2>4
  <1>11. r.own = own /\ r.owed = owed /\ r.state = s /\ IsWhole(r) = IsWhole(q)
         BY <1>5, <1>7 DEF IsWhole
  <1> QED
      BY <1>6, <1>9, <1>10, <1>11 DEF ValuedFits

(* The value of a position, and what it loses with bitcoin.                 *)
Values(legs) == [i \in DOMAIN legs |-> legs[i].value]

LEMMA LegsAddUp ==
  ASSUME NEW legs, IsFiniteSet(DOMAIN legs), \A i \in DOMAIN legs : ValueFits(legs[i])
  PROVE  /\ SumOf(legs) \in Nat \/ SumOf(legs) = NoValue
         /\ SumOf(legs) # NoValue =>
              /\ SumOf(legs) = SumFunctionOnSet(Values(legs), DOMAIN legs)
              /\ \A i \in DOMAIN legs : legs[i].value # NoValue
         /\ (\A i \in DOMAIN legs : legs[i].value # NoValue) => SumOf(legs) # NoValue
  <1>1. PICK D, v : D = DOMAIN legs /\ v = Values(legs)
        OBVIOUS
  <1>2. v \in [D -> Int]
        BY <1>1 DEF Values, ValueFits, NoValue
  <1>3. CASE \E i \in D : legs[i].value = NoValue
        BY <1>1, <1>3 DEF SumOf
  <1>4. CASE ~ \E i \in D : legs[i].value = NoValue
    <2>1. \A i \in D : v[i] >= 0
          BY <1>1, <1>4 DEF Values, ValueFits
    <2>2. SumFunctionOnSet(v, D) \in Nat
          BY <1>1, <1>2, <2>1, TotalsAreNatural
    <2>3. DOMAIN v = D
          BY <1>2
    <2>4. SumOf(legs) = SumFunctionOnSet(v, D)
          BY <1>1, <1>4, <2>3 DEF SumOf, SumFunction, Values
    <2> QED
        BY <1>1, <1>4, <2>2, <2>4 DEF NoValue
  <1> QED
      BY <1>3, <1>4

LEMMA PercentGrows ==
  ASSUME NEW n \in Nat
  PROVE  /\ 1 * ((n * 10) \div 100) <= (n * 20) \div 100
         /\ 1 * ((n * 20) \div 100) <= (n * 50) \div 100
         /\ 2 * ((n * 50) \div 100) <= n
  OBVIOUS

LEMMA LossesGrow ==
  ASSUME NEW p, IsFiniteSet(DOMAIN p.own), \A k \in DOMAIN p.own : ValueFits(p.own[k])
  PROVE  /\ \A x \in {10, 20, 50} : LossOf(p, x) \in Int
         /\ 1 * LossOf(p, 10) <= LossOf(p, 20) /\ 1 * LossOf(p, 20) <= LossOf(p, 50)
         /\ Value(p) # NoValue => 2 * LossOf(p, 50) <= Value(p)
  <1>1. PICK D, v, K :
          /\ D = DOMAIN p.own /\ v = Values(p.own)
          /\ K = {k \in D : p.own[k].asset \in BitcoinAssets /\ p.own[k].value # NoValue}
        OBVIOUS
  <1>2. K \in SUBSET D /\ v \in [D -> Int]
        BY <1>1 DEF Values, ValueFits, NoValue
  <1>3. \A k \in D : v[k] = p.own[k].value
        BY <1>1 DEF Values
  <1>4. PICK f : f = [x \in {10, 20, 50} |-> [k \in D |-> (p.own[k].value * x) \div 100]]
        OBVIOUS
  <1>5. \A x \in {10, 20, 50} :
          f[x] \in [D -> Int] /\ \A k \in D : f[x][k] = (v[k] * x) \div 100
    <2> TAKE x \in {10, 20, 50}
    <2>1. f[x] = [k \in D |-> (p.own[k].value * x) \div 100]
          BY <1>4
    <2>2. \A k \in D : p.own[k].value \in Int
          BY <1>2, <1>3
    <2>3. \A n \in Int : (n * x) \div 100 \in Int
          OBVIOUS
    <2>4. \A k \in D : f[x][k] = (v[k] * x) \div 100
          BY <1>3, <2>1
    <2>5. \A k \in D : (p.own[k].value * x) \div 100 \in Int
          BY Zenon, <2>2, <2>3
    <2>6. f[x] \in [D -> Int]
          BY <2>1, <2>5
    <2> QED
        BY <2>4, <2>6
  <1>6. \A x \in {10, 20, 50} : LossOf(p, x) = SumFunctionOnSet(f[x], K)
        BY <1>1, <1>4 DEF LossOf
  <1>7. \A x \in {10, 20, 50} : LossOf(p, x) \in Int
        BY <1>1, <1>2, <1>5, <1>6, SumStep
  <1>8. \A k \in K : v[k] \in Nat
        BY <1>1, <1>2, <1>3 DEF ValueFits
  <1>9. PICK a, b, c : a = f[10] /\ b = f[20] /\ c = f[50]
        OBVIOUS
  <1>10. /\ a \in [D -> Int] /\ b \in [D -> Int] /\ c \in [D -> Int]
         /\ \A k \in D : /\ a[k] = (v[k] * 10) \div 100 /\ b[k] = (v[k] * 20) \div 100
                         /\ c[k] = (v[k] * 50) \div 100
         BY <1>5, <1>9
  <1>11. \A k \in K : 1 * a[k] <= b[k] /\ 1 * b[k] <= c[k] /\ 2 * c[k] <= v[k]
         BY <1>2, <1>8, <1>10, PercentGrows
  <1>12. 1 * SumFunctionOnSet(a, K) <= SumFunctionOnSet(b, K)
         BY <1>1, <1>2, <1>10, <1>11, TotalsCompare
  <1>13. 1 * SumFunctionOnSet(b, K) <= SumFunctionOnSet(c, K)
         BY <1>1, <1>2, <1>10, <1>11, TotalsCompare
  <1>14. 2 * SumFunctionOnSet(c, K) <= SumFunctionOnSet(v, K)
         BY <1>1, <1>2, <1>10, <1>11, TotalsCompare
  <1>15. ASSUME Value(p) # NoValue PROVE 2 * LossOf(p, 50) <= Value(p)
    <2>1. /\ Value(p) = SumFunctionOnSet(v, D)
          /\ \A k \in D : p.own[k].value # NoValue
          BY <1>1, <1>15, LegsAddUp DEF Value
    <2>2. \A k \in D : v[k] >= 0
          BY <1>1, <1>3, <2>1 DEF ValueFits
    <2>3. SumFunctionOnSet(v, K) <= SumFunctionOnSet(v, D)
          BY <1>1, <1>2, <2>2, TotalsOfPart
    <2>4. PICK x, y, z : /\ x = SumFunctionOnSet(c, K) /\ y = SumFunctionOnSet(v, K)
                         /\ z = SumFunctionOnSet(v, D)
          OBVIOUS
    <2>5. x \in Int /\ y \in Int /\ z \in Int
          BY <1>1, <1>2, <1>10, <2>4, SumStep
    <2>6. 2 * x <= z
          BY <1>14, <2>3, <2>4, <2>5
    <2> QED
        BY <1>6, <1>9, <2>1, <2>4, <2>6
  <1> QED
      BY <1>6, <1>7, <1>9, <1>12, <1>13, <1>15

(* Three shares of a whole, each rounded down, fall short by two at most.   *)
LEMMA ThreeShares ==
  ASSUME NEW a \in Nat, NEW b \in Nat, NEW c \in Nat, NEW w \in Nat \ {0}, w = a + b + c
  PROVE  Share(a, w) + Share(b, w) + Share(c, w) \in (10000 - 2) .. 10000
  <1>1. \A n \in Nat : /\ Share(n, w) = (n * 10000) \div w /\ n * 10000 \in Nat
        BY DEF Share
  <1>2. \A n \in Nat : /\ Share(n, w) \in Nat /\ w * Share(n, w) \in Nat
                       /\ w * Share(n, w) <= n * 10000
                       /\ n * 10000 < w * Share(n, w) + w
    <2>1. ASSUME NEW m \in Nat
          PROVE  /\ m \div w \in Nat /\ w * (m \div w) \in Nat
                 /\ w * (m \div w) <= m /\ m < w * (m \div w) + w
      <3>1. PICK k : k = m \div w
            OBVIOUS
      <3>2. k \in Nat /\ w * k <= m /\ m <= w * k + w - 1
            BY <3>1, RoundedDown
      <3>3. PICK j : j = w * k
            OBVIOUS
      <3>4. j \in Nat
            BY <3>2, <3>3
      <3>5. m < j + w
            BY <3>2, <3>3, <3>4
      <3> QED
          BY <3>1, <3>2, <3>3, <3>4, <3>5
    <2> TAKE n \in Nat
    <2>2. PICK m, k : m = n * 10000 /\ k = Share(n, w)
          OBVIOUS
    <2>3. m \in Nat /\ k = m \div w
          BY <1>1, <2>2
    <2>4. k \in Nat /\ w * k \in Nat /\ w * k <= m /\ m < w * k + w
          BY <2>1, <2>3
    <2> QED
        BY <2>2, <2>4
  <1>3. PICK x, y, z : x = Share(a, w) /\ y = Share(b, w) /\ z = Share(c, w)
        OBVIOUS
  <1>4. x \in Nat /\ y \in Nat /\ z \in Nat
        BY <1>2, <1>3
  <1>5. PICK p, q, r : p = w * x /\ q = w * y /\ r = w * z
        OBVIOUS
  <1>6. /\ p \in Nat /\ p <= a * 10000 /\ a * 10000 < p + w
        /\ q \in Nat /\ q <= b * 10000 /\ b * 10000 < q + w
        /\ r \in Nat /\ r <= c * 10000 /\ c * 10000 < r + w
        BY <1>2, <1>3, <1>5
  <1>7. p + q + r <= w * 10000 /\ w * 10000 < p + q + r + 3 * w
        BY <1>6
  <1>8. PICK s : s = x + y + z
        OBVIOUS
  <1>9. s \in Nat /\ w * s = p + q + r
        BY <1>4, <1>5, <1>8
  <1>10. ASSUME s > 10000 PROVE FALSE
    <2>1. PICK d \in Nat : s = 10001 + d
          BY <1>9, <1>10
    <2>2. w * s = w * 10001 + w * d /\ w * d \in Nat
          BY <2>1
    <2> QED
        BY <1>7, <1>9, <2>2
  <1>11. ASSUME s < 9998 PROVE FALSE
    <2>1. PICK d \in Nat : 9997 = s + d
          BY <1>9, <1>11
    <2>2. w * 9997 = w * s + w * d /\ w * d \in Nat
          BY <1>9, <2>1
    <2> QED
        BY <1>7, <1>9, <2>2
  <1> QED
      BY <1>3, <1>8, <1>9, <1>10, <1>11

LEMMA WholePositions ==
  ASSUME NEW p, ValuedFits(p)
  PROVE  /\ Value(p) \in Nat \/ Value(p) = NoValue
         /\ IsWhole(p) <=> Value(p) # NoValue /\ Debt(p) # NoValue
         /\ \A t : PricedBy(p, t) => IsWhole(p)
  <1>1. /\ IsFiniteSet(DOMAIN p.own) /\ \A i \in DOMAIN p.own : ValueFits(p.own[i])
        /\ IsFiniteSet(DOMAIN p.owed) /\ \A i \in DOMAIN p.owed : ValueFits(p.owed[i])
        BY DEF ValuedFits
  <1>2. /\ Value(p) \in Nat \/ Value(p) = NoValue
        /\ Value(p) # NoValue <=> \A i \in DOMAIN p.own : p.own[i].value # NoValue
        BY <1>1, LegsAddUp DEF Value
  <1>3. Debt(p) # NoValue <=> \A i \in DOMAIN p.owed : p.owed[i].value # NoValue
        BY <1>1, LegsAddUp DEF Debt
  <1>4. IsWhole(p) <=> /\ \A i \in DOMAIN p.own : p.own[i].value # NoValue
                       /\ \A i \in DOMAIN p.owed : p.owed[i].value # NoValue
        BY DEF IsWhole, LegsOf
  <1>5. \A t : PricedBy(p, t) => IsWhole(p)
        BY DEF PricedBy, IsWhole
  <1> QED
      BY <1>2, <1>3, <1>4, <1>5

(* Whatever positions are summed up: one with a leg that has no price says  *)
(* so, a subtotal rests on positions priced in every leg, shares add up,    *)
(* and of what is valued bitcoin's halving takes at most half.              *)
THEOREM SummariesAddUp ==
  ASSUME NEW ps, ValuedAll(ps)
  PROVE  SummaryIsSound(ps)
  <1>1. PICK D, v, S : /\ D = DOMAIN ps /\ v = [i \in D |-> Value(ps[i])]
                       /\ S = IF Complete(ps) THEN DOMAIN ps ELSE AcceptedOnes(ps)
        OBVIOUS
  <1>2. IsFiniteSet(D) /\ S \subseteq D
        BY <1>1 DEF ValuedAll, AcceptedOnes
  <1>3. \A i \in D : ValuedFits(ps[i])
        BY <1>1 DEF ValuedAll
  <1>4. \A i \in D : /\ Value(ps[i]) \in Nat \/ Value(ps[i]) = NoValue
                     /\ IsWhole(ps[i]) <=> Value(ps[i]) # NoValue /\ Debt(ps[i]) # NoValue
                     /\ \A t : PricedBy(ps[i], t) => IsWhole(ps[i])
        BY <1>3, WholePositions
  <1>5. v \in [D -> Int] /\ \A i \in D : v[i] = Value(ps[i])
        BY <1>1, <1>4 DEF NoValue
  <1>6. \A i \in D : IsWhole(ps[i]) \/ ps[i].state \in {"degraded", "unsupported"}
        BY <1>3 DEF ValuedFits
  <1>7. Complete(ps) => \A i \in D : \/ ps[i].state = "unsupported"
                                     \/ ps[i].state = "verified" /\ IsWhole(ps[i])
        BY <1>1, <1>4 DEF Complete, Incomplete, Supported, VerifiedValue
  <1>8. ~Complete(ps) => \A i \in S : IsWhole(ps[i])
        BY <1>1, <1>2, <1>4 DEF AcceptedOnes, AcceptedValue
  <1>9. \A T \in SUBSET D :
          Valued(ps, T) = SumFunctionOnSet(v, {i \in T : Value(ps[i]) # NoValue})
        BY <1>1 DEF Valued
  <1>10. PICK A, dep, idle, lock :
           /\ A = {i \in S : Value(ps[i]) # NoValue}
           /\ dep = {i \in A : ps[i].kind # "wallet"}
           /\ idle = {i \in A : ps[i].kind = "wallet" /\ ps[i].spendable}
           /\ lock = {i \in A : ps[i].kind = "wallet" /\ ~ps[i].spendable}
         OBVIOUS
  <1>11. /\ A \in SUBSET D /\ dep \in SUBSET D /\ idle \in SUBSET D /\ lock \in SUBSET D
         /\ dep \cup idle \in SUBSET D /\ dep \cap idle = {} /\ (dep \cup idle) \cap lock = {}
         /\ (dep \cup idle) \cup lock = A
         BY <1>2, <1>10
  <1>12. \A i \in A : v[i] >= 0
         BY <1>2, <1>4, <1>5, <1>10
  <1>13. PICK assets, a, b, c :
           /\ assets = SumFunctionOnSet(v, A) /\ a = SumFunctionOnSet(v, dep)
           /\ b = SumFunctionOnSet(v, idle) /\ c = SumFunctionOnSet(v, lock)
         OBVIOUS
  <1>14. /\ Valued(ps, S) = assets /\ Deployed(ps, S) = a
         /\ IdleValue(ps, S) = b /\ Locked(ps, S) = c
    <2>1. /\ {i \in {j \in S : ps[j].kind # "wallet"} : Value(ps[i]) # NoValue} = dep
          /\ {i \in {j \in S : ps[j].kind = "wallet" /\ ps[j].spendable} :
                Value(ps[i]) # NoValue} = idle
          /\ {i \in {j \in S : ps[j].kind = "wallet" /\ ~ps[j].spendable} :
                Value(ps[i]) # NoValue} = lock
          BY <1>10
    <2> QED
        BY <1>2, <1>9, <1>10, <1>13, <2>1 DEF Deployed, IdleValue, Locked
  <1>15. a \in Nat /\ b \in Nat /\ c \in Nat /\ assets = a + b + c
    <2>1. a \in Nat /\ b \in Nat /\ c \in Nat
          BY <1>2, <1>5, <1>10, <1>11, <1>12, <1>13, TotalsAreNatural
    <2>2. PICK e : e = SumFunctionOnSet(v, dep \cup idle)
          OBVIOUS
    <2>3. e = a + b
          BY <1>2, <1>5, <1>11, <1>13, <2>2, TotalsJoin
    <2>4. assets = e + c
          BY <1>2, <1>5, <1>11, <1>13, <2>2, TotalsJoin
    <2> QED
        BY <2>1, <2>3, <2>4
  <1>16. PICK s : s = Summary(ps)
         OBVIOUS
  <1>17. /\ s.complete = Complete(ps) /\ s.counted = S /\ s.assets = assets
         /\ s.shares = <<Share(a, assets), Share(b, assets), Share(c, assets)>>
         /\ s.losses = [x \in {10, 20, 30, 50} |-> BitcoinLoss(ps, S, x)]
         BY <1>1, <1>14, <1>16 DEF Summary
  <1>18. assets > 0 => s.shares[1] + s.shares[2] + s.shares[3] \in (10000 - 2) .. 10000
         BY <1>15, <1>17, ThreeShares
  <1>19. \A i \in D : /\ \A x \in {10, 20, 50} : LossOf(ps[i], x) \in Int
                      /\ 1 * LossOf(ps[i], 10) <= LossOf(ps[i], 20)
                      /\ 1 * LossOf(ps[i], 20) <= LossOf(ps[i], 50)
                      /\ Value(ps[i]) # NoValue => 2 * LossOf(ps[i], 50) <= Value(ps[i])
         BY <1>3, LossesGrow DEF ValuedFits
  <1>20. PICK f, g, h : /\ f = [i \in D |-> LossOf(ps[i], 10)]
                        /\ g = [i \in D |-> LossOf(ps[i], 20)]
                        /\ h = [i \in D |-> LossOf(ps[i], 50)]
         OBVIOUS
  <1>21. f \in [D -> Int] /\ g \in [D -> Int] /\ h \in [D -> Int]
         BY <1>19, <1>20
  <1>22. PICK x, y, z : /\ x = SumFunctionOnSet(f, S) /\ y = SumFunctionOnSet(g, S)
                        /\ z = SumFunctionOnSet(h, S)
         OBVIOUS
  <1>23. s.losses[10] = x /\ s.losses[20] = y /\ s.losses[50] = z
         BY <1>1, <1>17, <1>20, <1>22 DEF BitcoinLoss
  <1>24. x \in Int /\ y \in Int /\ z \in Int
         BY <1>2, <1>21, <1>22, SumStep
  <1>25. x <= y /\ y <= z
    <2>1. \A i \in S : 1 * f[i] <= g[i] /\ 1 * g[i] <= h[i]
          BY <1>2, <1>19, <1>20
    <2>2. 1 * x <= y
          BY <1>2, <1>21, <1>22, <2>1, TotalsCompare
    <2>3. 1 * y <= z
          BY <1>2, <1>21, <1>22, <2>1, TotalsCompare
    <2> QED
        BY <1>24, <2>2, <2>3
  <1>26. ~Complete(ps) => 2 * z <= assets
    <2>1. SUFFICES ASSUME ~Complete(ps) PROVE 2 * z <= assets
          OBVIOUS
    <2>2. \A i \in S : Value(ps[i]) # NoValue
          BY <1>2, <1>4, <1>8, <2>1
    <2>3. A = S
          BY <1>10, <2>2
    <2>4. \A i \in S : 2 * h[i] <= v[i]
          BY <1>2, <1>5, <1>19, <1>20, <2>2
    <2> QED
        BY <1>2, <1>5, <1>13, <1>21, <1>22, <2>3, <2>4, TotalsCompare
  <1>27. \A i \in S : ps[i].state = "unsupported" \/ IsWhole(ps[i])
         BY <1>2, <1>7, <1>8
  <1>28. Complete(ps) => \A i \in S : ps[i].state \in {"verified", "unsupported"}
         BY <1>2, <1>7
  <1> QED
      BY <1>1, <1>6, <1>16, <1>17, <1>18, <1>23, <1>25, <1>26, <1>27, <1>28
         DEF SummaryIsSound, IsWhole

-----------------------------------------------------------------------------
(* PriceQuorum.  A finite set that a relation orders has a first element.   *)
LEMMA FirstOfFinite ==
  ASSUME NEW C, IsFiniteSet(C), C # {}, NEW R,
         \A x, y \in C : x # y => <<x, y>> \in R \/ <<y, x>> \in R,
         \A x, y, z \in C : <<x, y>> \in R /\ <<y, z>> \in R => <<x, z>> \in R
  PROVE  \E x \in C : \A y \in C \ {x} : <<x, y>> \in R
  <1> DEFINE S == {T \in SUBSET C : T # {} => \E x \in T : \A y \in T \ {x} : <<x, y>> \in R}
  <1>1. {} \in S
        OBVIOUS
  <1>2. ASSUME NEW T \in SUBSET C, NEW x \in C \ T, T \in S PROVE T \cup {x} \in S
    <2>1. SUFFICES \E t \in T \cup {x} : \A y \in (T \cup {x}) \ {t} : <<t, y>> \in R
          OBVIOUS
    <2>2. CASE T = {}
          BY <2>2
    <2>3. CASE T # {}
      <3>1. PICK t \in T : \A y \in T \ {t} : <<t, y>> \in R
            BY <1>2, <2>3
      <3>2. CASE <<t, x>> \in R
        <4>1. \A y \in (T \cup {x}) \ {t} : <<t, y>> \in R
              BY <3>1, <3>2
        <4> QED
            BY <4>1
      <3>3. CASE <<x, t>> \in R
        <4>1. \A y \in T : <<x, y>> \in R
              BY <3>1, <3>3
        <4>2. \A y \in (T \cup {x}) \ {x} : <<x, y>> \in R
              BY <4>1
        <4> QED
            BY <4>2
      <3> QED
          BY <3>2, <3>3
    <2> QED
        BY <2>2, <2>3
  <1>3. SUBSET C \subseteq S
    <2> HIDE DEF S
    <2> QED
        BY <1>1, <1>2, SubsetInduction
  <1> QED
      BY <1>3

(* Sets listed as binary numbers are in order.                              *)
LEMMA ListingIsTotal ==
  ASSUME NEW S, NEW T, S \subseteq Nat, T \subseteq Nat, IsFiniteSet(S), IsFiniteSet(T), S # T
  PROVE  ListedBefore(S, T) \/ ListedBefore(T, S)
  <1>1. PICK X : X = (S \ T) \cup (T \ S)
        OBVIOUS
  <1>2. X # {} /\ X \subseteq Nat
        BY <1>1
  <1>3. IsFiniteSet(X)
        BY <1>1, FS_Difference, FS_Union
  <1>4. PICK m \in X : \A x \in X : x <= m
        BY <1>2, <1>3, GreatestOfFinite
  <1>5. \A x \in X : x # m => x < m
        BY <1>2, <1>4
  <1>6. CASE m \in T \ S
        BY <1>1, <1>5, <1>6 DEF ListedBefore
  <1>7. CASE m \in S \ T
        BY <1>1, <1>5, <1>7 DEF ListedBefore
  <1> QED
      BY <1>1, <1>6, <1>7

LEMMA ListingIsTransitive ==
  ASSUME NEW S, NEW T, NEW U, S \subseteq Nat, T \subseteq Nat, U \subseteq Nat,
         ListedBefore(S, T), ListedBefore(T, U)
  PROVE  ListedBefore(S, U)
  <1>1. PICK i \in T \ S : \A j \in S \ T : j < i
        BY DEF ListedBefore
  <1>2. PICK k \in U \ T : \A j \in T \ U : j < k
        BY DEF ListedBefore
  <1>3. i \in Nat /\ k \in Nat /\ i # k /\ \A j \in S : j \in Nat
        OBVIOUS
  <1>4. CASE i < k
    <2>1. k \in U \ S
          BY <1>1, <1>2, <1>3, <1>4
    <2>2. \A j \in S \ U : j < k
          BY <1>1, <1>2, <1>3, <1>4
    <2> QED
        BY <2>1, <2>2 DEF ListedBefore
  <1>5. CASE k < i
    <2>1. i \in U \ S
          BY <1>1, <1>2, <1>3, <1>5
    <2>2. \A j \in S \ U : j < i
          BY <1>1, <1>2, <1>3, <1>5
    <2> QED
        BY <2>1, <2>2 DEF ListedBefore
  <1> QED
      BY <1>3, <1>4, <1>5

(* Candidates have positive prices, natural ages and confidences.           *)
CandidatesFit(c) ==
    /\ DOMAIN c \subseteq Nat /\ IsFiniteSet(DOMAIN c)
    /\ \A i \in DOMAIN c : c[i].price \in Nat /\ c[i].age \in Nat /\ c[i].confidence \in Nat

LEMMA ClustersAreFinite ==
  ASSUME NEW c, CandidatesFit(c)
  PROVE  /\ IsFiniteSet(Clusters(c))
         /\ \A S \in Clusters(c) : /\ S \subseteq DOMAIN c /\ S \subseteq Nat
                                   /\ IsFiniteSet(S) /\ Cardinality(S) \in Nat
                                   /\ Trust(c, S) \in Int
  <1>1. \A S \in SUBSET DOMAIN c : IsFiniteSet(S) /\ Cardinality(S) \in Nat
        BY FS_Subset, FS_CardinalityType DEF CandidatesFit
  <1>2. IsFiniteSet(SUBSET DOMAIN c)
        BY FS_SUBSET DEF CandidatesFit
  <1>3. Clusters(c) \in SUBSET (SUBSET DOMAIN c)
        BY DEF Clusters
  <1>4. IsFiniteSet(Clusters(c))
        BY <1>2, <1>3, FS_Subset
  <1>5. PICK D, v : D = DOMAIN c /\ v = [i \in D |-> c[i].confidence]
        OBVIOUS
  <1>6. v \in [D -> Int] /\ IsFiniteSet(D)
        BY <1>5 DEF CandidatesFit
  <1>7. \A S \in SUBSET D : SumFunctionOnSet(v, S) \in Int
        BY <1>6, SumStep
  <1>8. \A S \in SUBSET D : Trust(c, S) \in Int
        BY <1>5, <1>7 DEF Trust
  <1> QED
      BY <1>1, <1>3, <1>4, <1>5, <1>8 DEF CandidatesFit

LEMMA SelectedIsPreferred ==
  ASSUME NEW c, CandidatesFit(c), Clusters(c) # {}
  PROVE  /\ Selected(c) \in Clusters(c)
         /\ \A T \in Clusters(c) \ {Selected(c)} : Preferred(c, Selected(c), T)
  <1>1. PICK C, R : C = Clusters(c) /\ R = {p \in C \X C : Preferred(c, p[1], p[2])}
        OBVIOUS
  <1>2. \A S \in C : /\ S \subseteq Nat /\ IsFiniteSet(S)
                     /\ Cardinality(S) \in Nat /\ Trust(c, S) \in Int
        BY <1>1, ClustersAreFinite
  <1>3. \A S, T \in C : <<S, T>> \in R <=> Preferred(c, S, T)
        BY <1>1
  <1>4. ASSUME NEW S \in C, NEW T \in C, S # T PROVE Preferred(c, S, T) \/ Preferred(c, T, S)
    <2>1. ListedBefore(S, T) \/ ListedBefore(T, S)
          BY <1>2, <1>4, ListingIsTotal
    <2> QED
        BY <1>2, <2>1 DEF Preferred
  <1>5. ASSUME NEW S \in C, NEW T \in C, NEW U \in C, Preferred(c, S, T), Preferred(c, T, U)
        PROVE  Preferred(c, S, U)
    <2>1. ListedBefore(S, T) /\ ListedBefore(T, U) => ListedBefore(S, U)
          BY <1>2, ListingIsTransitive
    <2>2. PICK a, b, d, x, y, z :
            /\ a = Cardinality(S) /\ b = Cardinality(T) /\ d = Cardinality(U)
            /\ x = Trust(c, S) /\ y = Trust(c, T) /\ z = Trust(c, U)
          OBVIOUS
    <2>3. /\ a \in Nat /\ b \in Nat /\ d \in Nat /\ x \in Int /\ y \in Int /\ z \in Int
          BY <1>2, <2>2
    <2>4. /\ a > b \/ (a = b /\ (x > y \/ (x = y /\ ListedBefore(S, T))))
          /\ b > d \/ (b = d /\ (y > z \/ (y = z /\ ListedBefore(T, U))))
          BY <1>5, <2>2 DEF Preferred
    <2>5. a > d \/ (a = d /\ (x > z \/ (x = z /\ ListedBefore(S, U))))
          BY <2>1, <2>3, <2>4
    <2> QED
        BY <2>2, <2>5 DEF Preferred
  <1>6. \E S \in C : \A T \in C \ {S} : <<S, T>> \in R
    <2>1. IsFiniteSet(C) /\ C # {}
          BY <1>1, ClustersAreFinite
    <2>2. \A x, y \in C : x # y => <<x, y>> \in R \/ <<y, x>> \in R
          BY <1>3, <1>4
    <2>3. \A x, y, z \in C : <<x, y>> \in R /\ <<y, z>> \in R => <<x, z>> \in R
          BY <1>3, <1>5
    <2> QED
        BY <2>1, <2>2, <2>3, FirstOfFinite
  <1>7. \E S \in C : \A T \in C \ {S} : Preferred(c, S, T)
        BY <1>3, <1>6
  <1> QED
      BY <1>1, <1>7 DEF Selected

(* The places of a cluster in ascending order of price, and the ranks that  *)
(* its median reads.                                                        *)
LEMMA CheaperIsOrder ==
  ASSUME NEW c, CandidatesFit(c)
  PROVE  /\ \A i \in DOMAIN c : ~Cheaper(c, i, i)
         /\ \A i, j \in DOMAIN c : i # j => Cheaper(c, i, j) \/ Cheaper(c, j, i)
         /\ \A i, j \in DOMAIN c : Cheaper(c, i, j) => c[i].price <= c[j].price
         /\ \A i, j, k \in DOMAIN c : Cheaper(c, i, j) /\ Cheaper(c, j, k) => Cheaper(c, i, k)
  <1>1. PICK D, p : D = DOMAIN c /\ p = [i \in D |-> c[i].price]
        OBVIOUS
  <1>2. D \subseteq Nat /\ \A i \in D : p[i] \in Nat /\ p[i] = c[i].price
        BY <1>1 DEF CandidatesFit
  <1>3. \A i, j \in D : Cheaper(c, i, j) <=> p[i] < p[j] \/ (p[i] = p[j] /\ i < j)
        BY <1>2 DEF Cheaper
  <1>4. ASSUME NEW i \in D PROVE ~(p[i] < p[i] \/ (p[i] = p[i] /\ i < i))
    <2>1. p[i] \in Nat /\ i \in Nat
          BY <1>2
    <2> QED
        BY <2>1
  <1>5. \A i, j \in D : i # j => \/ p[i] < p[j] \/ (p[i] = p[j] /\ i < j)
                                 \/ p[j] < p[i] \/ (p[j] = p[i] /\ j < i)
        BY <1>2
  <1>6. ASSUME NEW i \in D, NEW j \in D, NEW k \in D, Cheaper(c, i, j), Cheaper(c, j, k)
        PROVE  Cheaper(c, i, k)
        BY <1>2, <1>3, <1>6
  <1> QED
      BY <1>1, <1>2, <1>3, <1>4, <1>5, <1>6

LEMMA RankExists ==
  ASSUME NEW c, CandidatesFit(c), NEW S \in SUBSET DOMAIN c, NEW k \in 0 .. Cardinality(S) - 1
  PROVE  \E j \in S : Cardinality({i \in S : Cheaper(c, i, j)}) = k
  <1>1. IsFiniteSet(S) /\ Cardinality(S) \in Nat
        BY FS_Subset, FS_CardinalityType DEF CandidatesFit
  <1>2. PICK n : n = Cardinality(S)
        OBVIOUS
  <1>3. PICK below : below = [j \in S |-> {i \in S : Cheaper(c, i, j)}]
        OBVIOUS
  <1>4. PICK rank : rank = [j \in S |-> Cardinality(below[j])]
        OBVIOUS
  <1>5. \A j \in S : /\ below[j] \in SUBSET S /\ IsFiniteSet(below[j]) /\ j \notin below[j]
                     /\ rank[j] \in Nat
    <2>1. \A j \in S : below[j] \in SUBSET S /\ j \notin below[j]
          BY <1>3, CheaperIsOrder
    <2> QED
        BY <1>1, <1>4, <2>1, FS_Subset, FS_CardinalityType
  <1>6. \A j \in S : rank[j] \in 0 .. n - 1
    <2> SUFFICES ASSUME NEW j \in S PROVE rank[j] \in 0 .. n - 1
        OBVIOUS
    <2>1. below[j] # S
          BY <1>5
    <2>2. rank[j] <= n /\ rank[j] # n
          BY <1>1, <1>2, <1>4, <1>5, <2>1, FS_Subset
    <2> QED
        BY <1>1, <1>2, <1>5, <2>2
  <1>7. ASSUME NEW i \in S, NEW j \in S, Cheaper(c, i, j) PROVE rank[i] < rank[j]
    <2>1. below[i] \in SUBSET below[j]
          BY <1>3, <1>7, CheaperIsOrder
    <2>2. i \in below[j] /\ i \notin below[i]
          BY <1>3, <1>5, <1>7
    <2>3. rank[i] <= rank[j] /\ rank[i] # rank[j]
          BY <1>4, <1>5, <2>1, <2>2, FS_Subset
    <2> QED
        BY <1>5, <2>3
  <1>8. \A i, j \in S : i # j => rank[i] # rank[j]
    <2> SUFFICES ASSUME NEW i \in S, NEW j \in S, i # j PROVE rank[i] # rank[j]
        OBVIOUS
    <2>1. Cheaper(c, i, j) \/ Cheaper(c, j, i)
          BY CheaperIsOrder
    <2> QED
        BY <1>5, <1>7, <2>1
  <1>9. rank \in [S -> 0 .. n - 1]
        BY <1>4, <1>6
  <1>10. rank \in Injection(S, 0 .. n - 1)
        BY <1>8, <1>9 DEF Injection, IsInjective
  <1>11. IsFiniteSet(0 .. n - 1) /\ Cardinality(0 .. n - 1) = n
        BY <1>1, <1>2, FS_Interval
  <1>12. rank \in Surjection(S, 0 .. n - 1)
        BY <1>1, <1>2, <1>10, <1>11, FS_Injection
  <1>13. \E j \in S : rank[j] = k
        BY <1>2, <1>12 DEF Surjection
  <1> QED
      BY <1>3, <1>4, <1>13

(* The median lies between the prices of two members of the cluster.        *)
LEMMA MedianLies ==
  ASSUME NEW c, CandidatesFit(c), NEW S \in SUBSET DOMAIN c, Cardinality(S) >= 2
  PROVE  \E i, j \in S : i # j /\ c[i].price <= Median(c, S) /\ Median(c, S) <= c[j].price
  <1>1. IsFiniteSet(S) /\ Cardinality(S) \in Nat
        BY FS_Subset, FS_CardinalityType DEF CandidatesFit
  <1>2. PICK n, half : n = Cardinality(S) /\ half = n \div 2
        OBVIOUS
  <1>3. /\ n \in Nat /\ n >= 2 /\ half \in Nat /\ half >= 1
        /\ half \in 0 .. n - 1 /\ half - 1 \in 0 .. n - 1
        BY <1>1, <1>2
  <1> DEFINE Rank(j) == Cardinality({i \in S : Cheaper(c, i, j)})
             at(k) == CHOOSE j \in S : Rank(j) = k
  <1>4. ASSUME NEW k \in 0 .. n - 1 PROVE at(k) \in S /\ Rank(at(k)) = k
    <2>1. k \in 0 .. Cardinality(S) - 1
          BY <1>2
    <2>2. \E j \in S : Rank(j) = k
          BY <2>1, RankExists
    <2> QED
        BY <2>2
  <1>5. \A k : Nth(c, S, k) = c[at(k)].price
        BY DEF Nth
  <1>6. PICK h, l : h = at(half) /\ l = at(half - 1)
        OBVIOUS
  <1>7. h \in S /\ l \in S /\ Rank(h) = half /\ Rank(l) = half - 1
        BY <1>3, <1>4, <1>6
  <1>8. Nth(c, S, half) = c[h].price /\ Nth(c, S, half - 1) = c[l].price
        BY <1>5, <1>6
  <1>9. h # l
        BY <1>3, <1>7
  <1>10. c[l].price <= c[h].price
    <2>1. CASE Cheaper(c, l, h)
          BY <1>7, <2>1, CheaperIsOrder
    <2>2. CASE Cheaper(c, h, l)
      <3>1. \A i \in S : Cheaper(c, i, h) => Cheaper(c, i, l)
            BY <1>7, <2>2, CheaperIsOrder
      <3>2. {i \in S : Cheaper(c, i, h)} \in SUBSET {i \in S : Cheaper(c, i, l)}
            BY <3>1
      <3>3. {i \in S : Cheaper(c, i, l)} \in SUBSET S
            OBVIOUS
      <3>4. IsFiniteSet({i \in S : Cheaper(c, i, l)})
            BY <1>1, <3>3, FS_Subset
      <3>5. Rank(h) <= Rank(l)
            BY <3>2, <3>4, FS_Subset
      <3> QED
          BY <1>3, <1>7, <3>5
    <2> QED
        BY <1>7, <1>9, <2>1, <2>2, CheaperIsOrder
  <1>11. c[l].price \in Nat /\ c[h].price \in Nat
        BY <1>7 DEF CandidatesFit
  <1>12. Median(c, S) = IF n % 2 = 1 THEN c[h].price ELSE (c[l].price + c[h].price) \div 2
        BY <1>2, <1>8 DEF Median
  <1>13. c[l].price <= Median(c, S) /\ Median(c, S) <= c[h].price
    <2>1. PICK x, y : x = c[l].price /\ y = c[h].price
          OBVIOUS
    <2>2. x \in Nat /\ y \in Nat /\ x <= y
          BY <1>10, <1>11, <2>1
    <2>3. x <= (x + y) \div 2 /\ (x + y) \div 2 <= y
          BY <2>2
    <2>4. CASE n % 2 = 1
          BY <1>12, <2>1, <2>2, <2>4
    <2>5. CASE n % 2 # 1
          BY <1>12, <2>1, <2>3, <2>5
    <2> QED
        BY <2>4, <2>5
  <1> QED
      BY <1>7, <1>9, <1>13

(* The least and the greatest of what a function says of a finite set.      *)
LEMMA EndsOfPair ==
  ASSUME NEW x \in Nat, NEW y \in Nat
  PROVE  /\ Max({x, y}) \in {x, y} /\ Min({x, y}) \in {x, y}
         /\ x <= Max({x, y}) /\ y <= Max({x, y}) /\ Min({x, y}) <= x /\ Min({x, y}) <= y
  <1>1. \E m \in {x, y} : \A z \in {x, y} : m >= z
        BY x <= y \/ y <= x
  <1>2. \E m \in {x, y} : \A z \in {x, y} : m <= z
        BY x <= y \/ y <= x
  <1>3. Max({x, y}) \in {x, y} /\ \A z \in {x, y} : Max({x, y}) >= z
        BY <1>1 DEF Max
  <1>4. Min({x, y}) \in {x, y} /\ \A z \in {x, y} : Min({x, y}) <= z
        BY <1>2 DEF Min
  <1> QED
      BY <1>3, <1>4

LEMMA EndsOfImage ==
  ASSUME NEW D, IsFiniteSet(D), NEW f \in [D -> Nat], NEW S \in SUBSET D, S # {}
  PROVE  LET V == {f[x] : x \in S} IN
           /\ Max(V) \in V /\ Min(V) \in V
           /\ \A x \in S : Min(V) <= f[x] /\ f[x] <= Max(V)
  <1> DEFINE U == {T \in SUBSET D : IsFiniteSet({f[x] : x \in T})}
             V == {f[x] : x \in S}
  <1>1. {} \in U
    <2>1. {f[x] : x \in {}} = {}
          OBVIOUS
    <2> QED
        BY <2>1, FS_EmptySet
  <1>2. ASSUME NEW T \in SUBSET D, NEW y \in D \ T, T \in U PROVE T \cup {y} \in U
    <2>1. {f[x] : x \in T \cup {y}} = {f[x] : x \in T} \cup {f[y]}
          OBVIOUS
    <2>2. IsFiniteSet({f[x] : x \in T} \cup {f[y]})
          BY <1>2, FS_AddElement
    <2> QED
        BY <2>1, <2>2
  <1>3. SUBSET D \subseteq U
    <2> HIDE DEF U
    <2> QED
        BY <1>1, <1>2, SubsetInduction
  <1>4. IsFiniteSet(V) /\ V \subseteq Nat /\ V # {}
        BY <1>3
  <1>5. \A x \in S : f[x] \in V
        OBVIOUS
  <1> HIDE DEF V
  <1>6. Max(V) \in V /\ \A x \in V : x <= Max(V)
        BY <1>4, GreatestOfFinite
  <1>7. \E m \in V : \A x \in V : m <= x
        BY <1>4, LeastNatural
  <1>8. Min(V) \in V /\ \A x \in V : Min(V) <= x
        BY <1>7 DEF Min
  <1>9. \A x \in S : Min(V) <= f[x] /\ f[x] <= Max(V)
        BY <1>5, <1>6, <1>8
  <1> QED
      BY <1>6, <1>8, <1>9 DEF V

(* What the sources answer: at each place, nothing, or a quote that rests   *)
(* on that source.                                                          *)
QuotesOfSources(quotes) ==
    \A i \in DOMAIN Sources : LET q == quotes[Sources[i]] IN
      \/ q = NoQuote
      \/ /\ q.price \in Nat /\ q.age \in Nat /\ q.confidence \in Nat
         /\ q.on # {} /\ \A x \in q.on : x[1] = Sources[i]

LEMMA CandidatesAreApart ==
  ASSUME NEW quotes, QuotesOfSources(quotes)
  PROVE  LET c == Candidates(quotes) IN
           /\ CandidatesFit(c)
           /\ \A i \in DOMAIN c : c[i].on # {}
           /\ \A i, j \in DOMAIN c : i # j => c[i].on \cap c[j].on = {}
  <1> DEFINE c == Candidates(quotes)
  <1>1. DOMAIN Sources = 1 .. 4
        BY DEF Sources
  <1>2. \A i, j \in 1 .. 4 : i # j => Sources[i] # Sources[j]
        BY DEF Sources
  <1>3. DOMAIN c \in SUBSET (1 .. 4)
        BY <1>1 DEF Candidates
  <1>4. IsFiniteSet(DOMAIN c)
    <2>1. PICK n : n = 4
          OBVIOUS
    <2>2. n \in Int
          BY <2>1
    <2>3. IsFiniteSet(1 .. n)
          BY <2>2, FS_Interval
    <2> QED
        BY <1>3, <2>1, <2>3, FS_Subset
  <1>5. \A i \in DOMAIN c : c[i] = quotes[Sources[i]] /\ c[i] # NoQuote
        BY DEF Candidates, Usable
  <1>6. \A i \in DOMAIN c : /\ c[i].price \in Nat /\ c[i].age \in Nat /\ c[i].confidence \in Nat
                            /\ c[i].on # {} /\ \A x \in c[i].on : x[1] = Sources[i]
        BY <1>1, <1>3, <1>5 DEF QuotesOfSources
  <1> HIDE DEF c
  <1>7. \A i, j \in DOMAIN c : i # j => c[i].on \cap c[j].on = {}
    <2> SUFFICES ASSUME NEW i \in DOMAIN c, NEW j \in DOMAIN c, NEW x,
                        i # j, x \in c[i].on, x \in c[j].on
                 PROVE  FALSE
        OBVIOUS
    <2>1. x[1] = Sources[i] /\ x[1] = Sources[j]
          BY <1>6
    <2> QED
        BY <1>2, <1>3, <2>1
  <1>8. DOMAIN c \subseteq Nat
        BY <1>3
  <1> QED
      BY <1>4, <1>6, <1>7, <1>8 DEF c, CandidatesFit

(* Two sources that agree are a cluster, and a cluster has two that agree.  *)
LEMMA ClusterOfTwo ==
  ASSUME NEW c, CandidatesFit(c)
  PROVE  Clusters(c) # {} <=>
           \E i, j \in DOMAIN c : i < j /\ Divergence(c[i].price, c[j].price) <= MaxDivergence
  <1> DEFINE Close(i, j) == Divergence(c[i].price, c[j].price) <= MaxDivergence
  <1>1. DOMAIN c \subseteq Nat
        BY DEF CandidatesFit
  <1>2. ASSUME NEW i \in DOMAIN c, NEW j \in DOMAIN c, i < j, Close(i, j)
        PROVE  Clusters(c) # {}
    <2>1. i # j
          BY <1>1, <1>2
    <2>2. IsFiniteSet({i}) /\ Cardinality({i}) = 1
          BY FS_Singleton
    <2>3. IsFiniteSet({i} \cup {j}) /\ Cardinality({i} \cup {j}) = 2
          BY <2>1, <2>2, FS_AddElement
    <2>4. {i} \cup {j} = {i, j}
          OBVIOUS
    <2>5. \A x, y \in {i, j} : x < y => x = i /\ y = j
          BY <1>1, <1>2
    <2>6. Agree(c, {i, j})
          BY <1>2, <2>5 DEF Agree
    <2>7. {i, j} \in Clusters(c)
          BY <2>3, <2>4, <2>6 DEF Clusters, MinimumSources
    <2> QED
        BY <2>7
  <1>3. ASSUME NEW S \in Clusters(c) PROVE \E i, j \in DOMAIN c : i < j /\ Close(i, j)
    <2>1. /\ S \subseteq DOMAIN c /\ S \subseteq Nat /\ IsFiniteSet(S) /\ Cardinality(S) >= 2
          /\ Agree(c, S)
          BY <1>1, <1>3, ClustersAreFinite DEF Clusters, MinimumSources
    <2>2. PICK x \in S : TRUE
          BY <2>1, FS_EmptySet
    <2>3. PICK y \in S : y # x
      <3>1. IsFiniteSet({x}) /\ Cardinality({x}) = 1
            BY FS_Singleton
      <3>2. S # {x}
            BY <2>1, <3>1
      <3> QED
          BY <2>2, <3>2
    <2>4. x < y \/ y < x
          BY <2>1, <2>2, <2>3
    <2>5. \A i, j \in S : i < j => Close(i, j)
          BY <2>1 DEF Agree
    <2> QED
        BY <2>1, <2>2, <2>3, <2>4, <2>5
  <1> QED
      BY <1>2, <1>3

(* Whoever is left out disagrees with one of those that were selected.      *)
LEMMA LeftOutDisagrees ==
  ASSUME NEW c, CandidatesFit(c), Clusters(c) # {}, NEW k \in DOMAIN c \ Selected(c)
  PROVE  \E i \in Selected(c) :
           ~(Divergence(c[Min({i, k})].price, c[Max({i, k})].price) <= MaxDivergence)
  <1>1. PICK S : S = Selected(c)
        OBVIOUS
  <1>2. S \in Clusters(c) /\ \A T \in Clusters(c) \ {S} : Preferred(c, S, T)
        BY <1>1, SelectedIsPreferred
  <1>3. /\ S \subseteq DOMAIN c /\ DOMAIN c \subseteq Nat /\ IsFiniteSet(S)
        /\ Cardinality(S) \in Nat /\ Cardinality(S) >= 2 /\ Agree(c, S) /\ k \notin S /\ k \in Nat
        BY <1>1, <1>2, ClustersAreFinite DEF Clusters, MinimumSources, CandidatesFit
  <1>4. PICK T : T = S \cup {k}
        OBVIOUS
  <1>5. Cardinality(T) = Cardinality(S) + 1
        BY <1>3, <1>4, FS_AddElement
  <1>6. T \notin Clusters(c)
    <2>1. ~Preferred(c, S, T)
          BY <1>3, <1>5 DEF Preferred
    <2> QED
        BY <1>2, <1>3, <1>4, <2>1
  <1>7. ~Agree(c, T)
        BY <1>3, <1>4, <1>5, <1>6 DEF Clusters, MinimumSources
  <1> DEFINE Close(i, j) == Divergence(c[i].price, c[j].price) <= MaxDivergence
  <1>8. PICK i \in T, j \in T : i < j /\ ~Close(i, j)
        BY <1>7 DEF Agree
  <1>9. \A x, y \in S : x < y => Close(x, y)
        BY <1>3 DEF Agree
  <1>10. i \in Nat /\ j \in Nat
        BY <1>3, <1>4
  <1>11. i = k \/ j = k
        BY <1>4, <1>8, <1>9
  <1>12. Min({i, j}) = i /\ Max({i, j}) = j
    <2>1. \A u, v \in Nat : u < v => u <= v /\ ~(v <= u)
          OBVIOUS
    <2> QED
        BY <1>8, <1>10, <2>1, EndsOfPair
  <1>13. CASE i = k
    <2>1. j \in S /\ {j, k} = {i, j}
          BY <1>4, <1>8, <1>10, <1>13
    <2> QED
        BY <1>1, <1>8, <1>12, <2>1
  <1>14. CASE j = k
    <2>1. i \in S /\ {i, k} = {i, j}
          BY <1>4, <1>8, <1>10, <1>14
    <2> QED
        BY <1>1, <1>8, <1>12, <2>1
  <1> QED
      BY <1>11, <1>13, <1>14

(* What a settled quote is made of.                                         *)
LEMMA QuorumIs ==
  ASSUME NEW c, CandidatesFit(c), Clusters(c) # {}, NEW quotes, c = Candidates(quotes)
  PROVE  LET q == QuorumQuote(quotes)
             S == Selected(c)
         IN  /\ S \in Clusters(c) /\ S \in SUBSET DOMAIN c
             /\ Cardinality(S) >= 2 /\ Agree(c, S) /\ S # {}
             /\ q = [price |-> q.price, age |-> q.age, confidence |-> q.confidence, on |-> q.on]
             /\ q.price = Median(c, S) /\ q.on = UNION {c[i].on : i \in S}
             /\ q.age \in Nat /\ q.confidence \in Nat
             /\ \A i \in S : q.age >= c[i].age /\ q.confidence <= c[i].confidence
  <1>1. PICK q : q = QuorumQuote(quotes)
        OBVIOUS
  <1>2. PICK S : S = Selected(c)
        OBVIOUS
  <1>3. S \in Clusters(c)
        BY <1>2, SelectedIsPreferred
  <1>4. S \in SUBSET DOMAIN c /\ Cardinality(S) >= 2 /\ Agree(c, S)
        BY <1>3 DEF Clusters, MinimumSources
  <1>5. S # {}
        BY <1>4, FS_EmptySet
  <1>6. PICK ages, trusts : /\ ages = {c[i].age : i \in S}
                            /\ trusts = {c[i].confidence : i \in S}
        OBVIOUS
  <1>7. q = [price |-> Median(c, S), age |-> Max(ages), confidence |-> Min(trusts),
             on |-> UNION {c[i].on : i \in S}]
        BY <1>1, <1>2, <1>6 DEF QuorumQuote
  <1>8. /\ q = [price |-> q.price, age |-> q.age, confidence |-> q.confidence, on |-> q.on]
        /\ q.price = Median(c, S) /\ q.on = UNION {c[i].on : i \in S}
        /\ q.age = Max(ages) /\ q.confidence = Min(trusts)
        BY <1>7
  <1>9. PICK f, g : /\ f = [i \in DOMAIN c |-> c[i].age]
                    /\ g = [i \in DOMAIN c |-> c[i].confidence]
        OBVIOUS
  <1>10. f \in [DOMAIN c -> Nat] /\ g \in [DOMAIN c -> Nat] /\ IsFiniteSet(DOMAIN c)
        BY <1>9 DEF CandidatesFit
  <1>11. ages = {f[i] : i \in S} /\ trusts = {g[i] : i \in S}
        BY <1>4, <1>6, <1>9
  <1>12. /\ Max(ages) \in ages /\ \A i \in S : f[i] <= Max(ages)
         /\ Min(trusts) \in trusts /\ \A i \in S : Min(trusts) <= g[i]
        BY <1>4, <1>5, <1>10, <1>11, EndsOfImage
  <1>13. \A i \in S : f[i] \in Nat /\ g[i] \in Nat /\ f[i] = c[i].age /\ g[i] = c[i].confidence
        BY <1>4, <1>9, <1>10
  <1>14. Max(ages) \in Nat /\ Min(trusts) \in Nat
        BY <1>11, <1>12, <1>13
  <1>15. \A i \in S : q.age >= c[i].age /\ q.confidence <= c[i].confidence
        BY <1>8, <1>12, <1>13, <1>14
  <1> QED
      BY <1>1, <1>2, <1>3, <1>4, <1>5, <1>8, <1>14, <1>15

THEOREM QuorumHolds ==
  ASSUME NEW quotes, QuotesOfSources(quotes)
  PROVE  QuorumIsSound(quotes)
  <1>1. PICK c : c = Candidates(quotes)
        OBVIOUS
  <1>2. PICK q : q = QuorumQuote(quotes)
        OBVIOUS
  <1> DEFINE Close(i, j) == Divergence(c[i].price, c[j].price) <= MaxDivergence
             Resting(i) == c[i].on \subseteq q.on
  <1>3. /\ CandidatesFit(c)
        /\ \A i \in DOMAIN c : c[i].on # {}
        /\ \A i, j \in DOMAIN c : i # j => c[i].on \cap c[j].on = {}
        BY <1>1, CandidatesAreApart
  <1>4. Clusters(c) # {} <=> \E i, j \in DOMAIN c : i < j /\ Close(i, j)
        BY <1>3, ClusterOfTwo
  <1>5. CASE Clusters(c) = {}
    <2>1. q = NoQuote
          BY <1>1, <1>2, <1>5 DEF QuorumQuote
    <2> QED
        BY <1>1, <1>2, <1>4, <1>5, <2>1 DEF QuorumIsSound
  <1>6. CASE Clusters(c) # {}
    <2>1. PICK S : S = Selected(c)
          OBVIOUS
    <2>2. /\ S \in Clusters(c) /\ S \in SUBSET DOMAIN c
          /\ Cardinality(S) >= 2 /\ Agree(c, S) /\ S # {}
          BY <1>1, <1>3, <1>6, <2>1, QuorumIs
    <2>3. /\ q.price = Median(c, S) /\ q.on = UNION {c[i].on : i \in S}
          /\ \A i \in S : q.age >= c[i].age /\ q.confidence <= c[i].confidence
          BY <1>1, <1>2, <1>3, <1>6, <2>1, QuorumIs
    <2>4. \A i \in DOMAIN c : Resting(i) <=> i \in S
      <3> SUFFICES ASSUME NEW i \in DOMAIN c PROVE Resting(i) <=> i \in S
          OBVIOUS
      <3>1. ASSUME i \in S PROVE Resting(i)
            BY <2>3, <3>1
      <3>2. ASSUME Resting(i) PROVE i \in S
        <4>1. PICK x \in c[i].on : TRUE
              BY <1>3
        <4>2. PICK j \in S : x \in c[j].on
              BY <2>3, <3>2, <4>1
        <4> QED
            BY <1>3, <2>2, <4>1, <4>2
      <3> QED
          BY <3>1, <3>2
    <2>5. q # NoQuote
      <3>1. PICK i \in S : TRUE
            BY <2>2
      <3>2. q.on # {}
            BY <1>3, <2>2, <2>4, <3>1
      <3> QED
          BY <3>2 DEF NoQuote
    <2>6. \A i, j \in DOMAIN c : i < j /\ Resting(i) /\ Resting(j) => Close(i, j)
          BY <2>2, <2>4 DEF Agree
    <2>7. \E i, j \in DOMAIN c : /\ i # j /\ Resting(i) /\ Resting(j)
                                 /\ c[i].price <= q.price /\ q.price <= c[j].price
          BY <1>3, <2>2, <2>3, <2>4, MedianLies
    <2>8. \A k \in DOMAIN c : Resting(k) \/ \E i \in DOMAIN c :
               Resting(i) /\ ~Close(Min({i, k}), Max({i, k}))
          BY <1>3, <1>6, <2>1, <2>2, <2>4, LeftOutDisagrees
    <2>9. \A i \in DOMAIN c : Resting(i) => q.age >= c[i].age /\ q.confidence <= c[i].confidence
          BY <2>3, <2>4
    <2> QED
        BY <1>1, <1>2, <1>4, <1>6, <2>5, <2>6, <2>7, <2>8, <2>9 DEF QuorumIsSound
  <1> QED
      BY <1>5, <1>6

(* The books.  A quote rests on the answers of two providers.               *)
AnswerTo(m, x) == SourceQuote(x[1], x[2], m.reading[x[2]][x[1]])

IsAnswer(q, s, asset) ==
    /\ q = [price |-> q.price, age |-> q.age, on |-> {<<s, asset>>}, confidence |-> q.confidence]
    /\ q.price \in Nat /\ q.age \in Nat /\ q.confidence \in Nat

RestsOn(m, q) ==
    /\ q = [price |-> q.price, age |-> q.age, confidence |-> q.confidence, on |-> q.on]
    /\ q.age \in Nat /\ q.confidence \in Nat
    /\ \E x, y \in q.on : x[1] # y[1]
    /\ \A x \in q.on : /\ x[1] \in DOMAIN Profile
                       /\ AnswerTo(m, x).age \in Nat /\ AnswerTo(m, x).confidence \in Nat
                       /\ q.age >= AnswerTo(m, x).age
                       /\ q.confidence <= AnswerTo(m, x).confidence

Rests(m, q) == q = NoQuote \/ RestsOn(m, q)

(* The markets that sources report, and what they may report.               *)
Markets == {"BTC", "STX", "USDC", "USDH"}
AnswersFit(m) ==
    /\ DOMAIN m.reading = Markets
    /\ \A u \in Markets : \A s \in DOMAIN Profile : LET r == m.reading[u][s] IN
         r = NoQuote \/ (r.price \in Nat /\ r.age \in Nat)

LEMMA ProfileFits ==
  /\ DOMAIN Profile = {"dia", "coingecko", "coinbase", "pyth"}
  /\ \A s \in DOMAIN Profile : Profile[s].fresh \in Nat /\ Profile[s].stale \in Nat
  /\ \A i \in DOMAIN Sources : Sources[i] \in DOMAIN Profile
  <1>1. DOMAIN Profile = {"dia", "coingecko", "coinbase", "pyth"}
        BY DEF Profile
  <1>2. \A s \in {"dia", "coingecko", "coinbase", "pyth"} :
            Profile[s].fresh \in Nat /\ Profile[s].stale \in Nat
        BY DEF Profile, Dia, CoinGecko, Coinbase, Pyth
  <1>3. \A i \in DOMAIN Sources : Sources[i] \in {"dia", "coingecko", "coinbase", "pyth"}
        BY DEF Sources
  <1> QED
      BY <1>1, <1>2, <1>3

LEMMA SourceAnswers ==
  ASSUME NEW s \in DOMAIN Profile, NEW asset, NEW r,
         r = NoQuote \/ (r.price \in Nat /\ r.age \in Nat),
         NEW q, q = SourceQuote(s, asset, r)
  PROVE  q = NoQuote \/ IsAnswer(q, s, asset)
  <1>1. SUFFICES ASSUME q # NoQuote PROVE IsAnswer(q, s, asset)
        OBVIOUS
  <1>2. PICK p, a, n : /\ p = r.price /\ a = r.age
                       /\ n = IF r.age <= Profile[s].life THEN Profile[s].fresh
                              ELSE Profile[s].stale
        OBVIOUS
  <1>3. r # NoQuote /\ q = [price |-> p, age |-> a, on |-> {<<s, asset>>}, confidence |-> n]
        BY <1>1, <1>2 DEF SourceQuote
  <1>4. n \in Nat
        BY <1>2, ProfileFits
  <1>5. p \in Nat /\ a \in Nat
        BY <1>2, <1>3
  <1> QED
      BY <1>3, <1>4, <1>5 DEF IsAnswer

LEMMA MarketAnswers ==
  ASSUME NEW m, AnswersFit(m), NEW u \in Markets, NEW s \in DOMAIN Profile,
         NEW q, q = SourceQuote(s, u, m.reading[u][s])
  PROVE  /\ q = NoQuote \/ IsAnswer(q, s, u)
         /\ q = AnswerTo(m, <<s, u>>)
  <1>1. PICK r : r = m.reading[u][s]
        OBVIOUS
  <1>2. r = NoQuote \/ (r.price \in Nat /\ r.age \in Nat)
        BY <1>1 DEF AnswersFit
  <1>3. q = NoQuote \/ IsAnswer(q, s, u)
        BY <1>1, <1>2, SourceAnswers
  <1>4. q = AnswerTo(m, <<s, u>>)
        BY DEF AnswerTo
  <1> QED
      BY <1>3, <1>4

LEMMA AnswersAreOfSources ==
  ASSUME NEW r, \A s \in DOMAIN Profile : r[s] = NoQuote \/ (r[s].price \in Nat /\ r[s].age \in Nat),
         NEW asset, NEW quotes, quotes = [s \in DOMAIN Profile |-> SourceQuote(s, asset, r[s])]
  PROVE  QuotesOfSources(quotes)
  <1>1. SUFFICES ASSUME NEW i \in DOMAIN Sources, NEW q, q = quotes[Sources[i]], q # NoQuote
                 PROVE  /\ q.price \in Nat /\ q.age \in Nat /\ q.confidence \in Nat
                        /\ q.on # {} /\ \A x \in q.on : x[1] = Sources[i]
        BY DEF QuotesOfSources
  <1>2. PICK s : s = Sources[i]
        OBVIOUS
  <1>3. s \in DOMAIN Profile
        BY <1>2, ProfileFits
  <1>4. q = SourceQuote(s, asset, r[s])
        BY <1>1, <1>2, <1>3
  <1>5. IsAnswer(q, s, asset)
        BY <1>1, <1>3, <1>4, SourceAnswers
  <1>6. q.on = {<<s, asset>>} /\ q.price \in Nat /\ q.age \in Nat /\ q.confidence \in Nat
        BY <1>5 DEF IsAnswer
  <1> QED
      BY <1>2, <1>6

(* A quorum of the answers for a market rests on two of them.               *)
LEMMA QuorumRests ==
  ASSUME NEW m, AnswersFit(m), NEW u \in Markets, NEW quotes,
         quotes = [s \in DOMAIN Profile |-> SourceQuote(s, u, m.reading[u][s])]
  PROVE  Rests(m, QuorumQuote(quotes))
  <1>1. PICK c, q : c = Candidates(quotes) /\ q = QuorumQuote(quotes)
        OBVIOUS
  <1>2. PICK r : r = m.reading[u]
        OBVIOUS
  <1>3. \A s \in DOMAIN Profile : r[s] = NoQuote \/ (r[s].price \in Nat /\ r[s].age \in Nat)
        BY <1>2 DEF AnswersFit
  <1>4. quotes = [s \in DOMAIN Profile |-> SourceQuote(s, u, r[s])]
        BY <1>2
  <1>5. QuotesOfSources(quotes)
        BY <1>3, <1>4, AnswersAreOfSources
  <1>6. CandidatesFit(c)
        BY <1>1, <1>5, CandidatesAreApart
  <1>7. CASE Clusters(c) = {}
        BY <1>1, <1>7 DEF QuorumQuote, Rests
  <1>8. CASE Clusters(c) # {}
    <2>1. PICK S : S = Selected(c)
          OBVIOUS
    <2>2. /\ S \in SUBSET DOMAIN c /\ Cardinality(S) >= 2
          /\ q = [price |-> q.price, age |-> q.age, confidence |-> q.confidence, on |-> q.on]
          /\ q.on = UNION {c[i].on : i \in S}
          /\ q.age \in Nat /\ q.confidence \in Nat
          /\ \A i \in S : q.age >= c[i].age /\ q.confidence <= c[i].confidence
          BY <1>1, <1>6, <1>8, <2>1, QuorumIs, SMTT(30)
    <2>3. \A i \in DOMAIN c : /\ i \in DOMAIN Sources /\ c[i] = quotes[Sources[i]]
                              /\ c[i] # NoQuote
          BY <1>1 DEF Candidates, Usable
    <2>4. ASSUME NEW i \in S
          PROVE  /\ Sources[i] \in DOMAIN Profile
                 /\ c[i].on = {<<Sources[i], u>>}
                 /\ c[i] = AnswerTo(m, <<Sources[i], u>>)
      <3>1. i \in DOMAIN Sources /\ c[i] = quotes[Sources[i]] /\ c[i] # NoQuote
            BY <2>2, <2>3
      <3>2. PICK s : s = Sources[i]
            OBVIOUS
      <3>3. s \in DOMAIN Profile
            BY <3>1, <3>2, ProfileFits
      <3>4. c[i] = SourceQuote(s, u, m.reading[u][s])
            BY <3>1, <3>2, <3>3
      <3>5. PICK d : d = c[i]
            OBVIOUS
      <3>6. IsAnswer(d, s, u) /\ d = AnswerTo(m, <<s, u>>)
            BY <3>1, <3>3, <3>4, <3>5, MarketAnswers
      <3>7. d.on = {<<s, u>>}
            BY <3>6 DEF IsAnswer
      <3> QED
          BY <3>2, <3>3, <3>5, <3>6, <3>7
    <2>5. \A x \in q.on : \E i \in S : x = <<Sources[i], u>>
      <3> SUFFICES ASSUME NEW x \in q.on PROVE \E i \in S : x = <<Sources[i], u>>
          OBVIOUS
      <3>1. PICK i \in S : x \in c[i].on
            BY <2>2
      <3> QED
          BY <2>4, <3>1
    <2>6. \A i \in S : <<Sources[i], u>> \in q.on
          BY <2>2, <2>4
    <2>7. PICK i \in S, j \in S : i # j
      <3>1. Cardinality(S) >= 2 /\ S # {}
            BY <2>2, FS_EmptySet
      <3>2. PICK i \in S : TRUE
            BY <3>1
      <3>3. IsFiniteSet({i}) /\ Cardinality({i}) = 1
            BY FS_Singleton
      <3>4. S # {i}
            BY <3>1, <3>3
      <3> QED
          BY <3>2, <3>4
    <2>8. \A k, l \in DOMAIN Sources : k # l => Sources[k] # Sources[l]
          BY DEF Sources
    <2>9. \E x, y \in q.on : x[1] # y[1]
      <3>1. Sources[i] # Sources[j]
            BY <2>2, <2>3, <2>7, <2>8
      <3>2. PICK s, t : s = Sources[i] /\ t = Sources[j]
            OBVIOUS
      <3>3. <<s, u>> \in q.on /\ <<t, u>> \in q.on /\ s # t
            BY <2>6, <3>1, <3>2
      <3> QED
          BY <3>3
    <2>10. ASSUME NEW x \in q.on
           PROVE  /\ x[1] \in DOMAIN Profile
                  /\ AnswerTo(m, x).age \in Nat /\ AnswerTo(m, x).confidence \in Nat
                  /\ q.age >= AnswerTo(m, x).age /\ q.confidence <= AnswerTo(m, x).confidence
      <3>1. PICK k \in S : x = <<Sources[k], u>>
            BY <2>5
      <3>2. x[1] = Sources[k]
            BY <3>1
      <3>3. AnswerTo(m, x) = c[k]
            BY <2>4, <3>1
      <3>4. c[k].age \in Nat /\ c[k].confidence \in Nat
            BY <1>6, <2>2 DEF CandidatesFit
      <3> QED
          BY <2>2, <2>4, <3>2, <3>3, <3>4
    <2> QED
        BY <1>1, <2>2, <2>9, <2>10 DEF Rests, RestsOn
  <1> QED
      BY <1>7, <1>8

(* What the books do to a quote leaves it resting where it did.             *)
LEMMA RepricedRests ==
  ASSUME NEW m, NEW q, RestsOn(m, q), NEW price, NEW r, r = [q EXCEPT !.price = price]
  PROVE  RestsOn(m, r)
  <1>1. PICK p, a, n, on : p = q.price /\ a = q.age /\ n = q.confidence /\ on = q.on
        OBVIOUS
  <1>2. q = [price |-> p, age |-> a, confidence |-> n, on |-> on]
        BY <1>1 DEF RestsOn
  <1>3. r = [price |-> price, age |-> a, confidence |-> n, on |-> on]
        BY <1>2
  <1>4. /\ r = [price |-> r.price, age |-> r.age, confidence |-> r.confidence, on |-> r.on]
        /\ r.age = q.age /\ r.confidence = q.confidence /\ r.on = q.on
        BY <1>1, <1>3
  <1> QED
      BY <1>4 DEF RestsOn

LEMMA CappedRests ==
  ASSUME NEW m, NEW q, RestsOn(m, q), NEW most \in Nat, NEW r, r = AtMost(q, most)
  PROVE  RestsOn(m, r)
  <1>1. PICK p, a, n, on, w : /\ p = q.price /\ a = q.age /\ n = q.confidence /\ on = q.on
                              /\ w = Min({n, most})
        OBVIOUS
  <1>2. q = [price |-> p, age |-> a, confidence |-> n, on |-> on] /\ n \in Nat
        BY <1>1 DEF RestsOn
  <1>3. w \in Nat /\ w <= n
        BY <1>1, <1>2, EndsOfPair
  <1>4. r = [price |-> p, age |-> a, confidence |-> w, on |-> on]
        BY <1>1, <1>2 DEF AtMost
  <1>5. /\ r = [price |-> r.price, age |-> r.age, confidence |-> r.confidence, on |-> r.on]
        /\ r.age = q.age /\ r.confidence = w /\ r.on = q.on
        BY <1>1, <1>4
  <1>6. ASSUME NEW x \in q.on PROVE w <= AnswerTo(m, x).confidence
    <2>1. PICK k : k = AnswerTo(m, x).confidence
          OBVIOUS
    <2>2. k \in Nat /\ n <= k
          BY <1>1, <2>1 DEF RestsOn
    <2> QED
        BY <1>2, <1>3, <2>1, <2>2
  <1> QED
      BY <1>3, <1>5, <1>6 DEF RestsOn

LEMMA NothingCapped ==
  ASSUME NEW most \in Nat
  PROVE  AtMost(NoQuote, most) = NoQuote
  <1>1. Min({0, most}) = 0
    <2>1. Min({0, most}) \in {0, most} /\ Min({0, most}) <= 0
          BY EndsOfPair
    <2> QED
        BY <2>1
  <1>2. PICK w : w = Min({0, most})
        OBVIOUS
  <1>3. AtMost(NoQuote, most) = [price |-> 0, age |-> 0, confidence |-> w, on |-> {}]
        BY <1>2 DEF AtMost, NoQuote
  <1> QED
      BY <1>1, <1>2, <1>3 DEF NoQuote

LEMMA ConsensusRests ==
  ASSUME NEW m, AnswersFit(m), NEW q, Rests(m, q),
         NEW u \in Markets, NEW s \in DOMAIN Profile,
         NEW reference, reference = SourceQuote(s, u, m.reading[u][s])
  PROVE  /\ Rests(m, Consensus(q, reference))
         /\ Consensus(q, reference) # NoQuote => q # NoQuote
  <1>1. PICK r : r = Consensus(q, reference)
        OBVIOUS
  <1>2. CASE q = NoQuote \/ reference = NoQuote
        BY <1>1, <1>2 DEF Consensus, Rests
  <1>3. CASE q # NoQuote /\ reference # NoQuote
    <2>1. RestsOn(m, q)
          BY <1>3 DEF Rests
    <2>2. IsAnswer(reference, s, u) /\ reference = AnswerTo(m, <<s, u>>)
          BY <1>3, MarketAnswers
    <2>3. PICK a, n, b, k, age, most : /\ a = q.age /\ n = q.confidence
                                       /\ b = reference.age /\ k = reference.confidence
                                       /\ age = Max({a, b}) /\ most = Min({n, k})
          OBVIOUS
    <2>4. a \in Nat /\ n \in Nat /\ b \in Nat /\ k \in Nat
          BY <2>1, <2>2, <2>3 DEF RestsOn, IsAnswer
    <2>5. age \in Nat /\ most \in Nat /\ a <= age /\ b <= age /\ most <= n /\ most <= k
          BY <2>3, <2>4, EndsOfPair
    <2>6. CASE r = NoQuote
          BY <1>1, <1>3, <2>6 DEF Rests
    <2>7. CASE r # NoQuote
      <3>1. PICK p, on : /\ p = (q.price + reference.price) \div 2
                         /\ on = q.on \cup reference.on
            OBVIOUS
      <3>2. r = [price |-> p, age |-> age, confidence |-> most, on |-> on]
            BY <1>1, <2>3, <2>7, <3>1 DEF Consensus
      <3>3. /\ r = [price |-> r.price, age |-> r.age, confidence |-> r.confidence, on |-> r.on]
            /\ r.age = age /\ r.confidence = most /\ r.on = on
            BY <3>2
      <3>4. on = q.on \cup {<<s, u>>}
            BY <2>2, <3>1 DEF IsAnswer
      <3>5. \E x, y \in on : x[1] # y[1]
            BY <2>1, <3>4 DEF RestsOn
      <3>6. ASSUME NEW x \in on
            PROVE  /\ x[1] \in DOMAIN Profile
                   /\ AnswerTo(m, x).age \in Nat /\ AnswerTo(m, x).confidence \in Nat
                   /\ age >= AnswerTo(m, x).age /\ most <= AnswerTo(m, x).confidence
        <4>1. PICK y, z : y = AnswerTo(m, x).age /\ z = AnswerTo(m, x).confidence
              OBVIOUS
        <4>2. CASE x \in q.on
          <5>1. /\ x[1] \in DOMAIN Profile /\ y \in Nat /\ z \in Nat
                /\ a >= y /\ n <= z
                BY <2>1, <2>3, <4>1, <4>2 DEF RestsOn
          <5> QED
              BY <2>4, <2>5, <4>1, <5>1
        <4>3. CASE x = <<s, u>>
          <5>1. x[1] = s /\ y = b /\ z = k
                BY <2>2, <2>3, <4>1, <4>3
          <5> QED
              BY <2>4, <2>5, <4>1, <5>1
        <4> QED
            BY <3>4, <4>2, <4>3
      <3>7. RestsOn(m, r)
            BY <2>5, <3>3, <3>5, <3>6 DEF RestsOn
      <3> QED
          BY <1>1, <1>3, <3>7 DEF Rests
    <2> QED
        BY <2>6, <2>7
  <1> QED
      BY <1>2, <1>3

LEMMA ConvertedRests ==
  ASSUME NEW m, NEW base, Rests(m, base), NEW asset
  PROVE  /\ Rests(m, Converted(m, asset, base)) /\ Rests(m, Rated(m, asset, base))
         /\ Converted(m, asset, base) # NoQuote => asset \in m.approved
         /\ Rated(m, asset, base) # NoQuote => asset \in m.approved
  <1>1. PICK r : r = Converted(m, asset, base)
        OBVIOUS
  <1>2. Rests(m, r) /\ (r # NoQuote => asset \in m.approved)
    <2>1. CASE asset \notin m.approved \/ base = NoQuote
          BY <1>1, <2>1 DEF Converted, Rests
    <2>2. CASE asset \in m.approved /\ base # NoQuote
      <3>1. RestsOn(m, base)
            BY <2>2 DEF Rests
      <3>2. PICK price : price = (base.price * m.rate[asset]) \div PriceScale
            OBVIOUS
      <3>3. PICK d, most : d = [base EXCEPT !.price = price] /\ most = 90
            OBVIOUS
      <3>4. most \in Nat
            BY <3>3
      <3>5. r = AtMost(d, most)
            BY <1>1, <2>2, <3>2, <3>3 DEF Converted
      <3>6. RestsOn(m, d)
            BY <3>1, <3>3, RepricedRests
      <3>7. RestsOn(m, r)
            BY <3>4, <3>5, <3>6, CappedRests
      <3> QED
          BY <2>2, <3>7 DEF Rests
    <2> QED
        BY <2>1, <2>2
  <1>3. Rated(m, asset, base) = NoQuote \/ Rated(m, asset, base) = r
        BY <1>1 DEF Rated
  <1>4. Rests(m, NoQuote)
        BY DEF Rests
  <1> QED
      BY <1>1, <1>2, <1>3, <1>4

(* A book answers for every asset, with quotes that rest on two providers,  *)
(* and for assets of the registry, but for those it is open to.             *)
BookFits(m, b, open) ==
    /\ DOMAIN b = Assets
    /\ \A a \in Assets : Rests(m, b[a]) /\ (b[a] # NoQuote => a \in m.approved \cup open)

AtMarket == {"BTC", "sBTC", "STX", "USDH", "USDh"}
Open == {"BTC", "sBTC", "STX", "USDh", "stSTXbtc"}

LEMMA BelowFits ==
  ASSUME NEW m, NEW b, NEW before, NEW after, BookFits(m, b, before),
         NEW own, DOMAIN own \subseteq Assets, before \subseteq after \cup DOMAIN own,
         \A a \in DOMAIN own : Rests(m, own[a]) /\ (own[a] # NoQuote => a \in m.approved \cup after)
  PROVE  BookFits(m, AskingBelow(own, b), after)
  <1>1. PICK r : r = AskingBelow(own, b)
        OBVIOUS
  <1>2. DOMAIN r = Assets /\ \A a \in Assets : r[a] = IF a \in DOMAIN own THEN own[a] ELSE b[a]
        BY <1>1 DEF AskingBelow, BookFits
  <1>3. ASSUME NEW a \in Assets
        PROVE  Rests(m, r[a]) /\ (r[a] # NoQuote => a \in m.approved \cup after)
    <2>1. CASE a \in DOMAIN own
          BY <1>2, <2>1
    <2>2. CASE a \notin DOMAIN own
          BY <1>2, <2>2 DEF BookFits
    <2> QED
        BY <2>1, <2>2
  <1> QED
      BY <1>1, <1>2, <1>3 DEF BookFits

LEMMA MarketRests ==
  ASSUME NEW m, AnswersFit(m), NEW asset \in Assets
  PROVE  /\ Rests(m, MarketQuote(m, asset))
         /\ MarketQuote(m, asset) # NoQuote => asset \in AtMarket
  <1>1. PICK u, r : u = Underlying(asset) /\ r = MarketQuote(m, asset)
        OBVIOUS
  <1>2. PICK quotes : quotes = [s \in DOMAIN Profile |-> SourceQuote(s, u, m.reading[u][s])]
        OBVIOUS
  <1>3. PICK q, most : q = QuorumQuote(quotes) /\ most = 75
        OBVIOUS
  <1>4. r = IF u \notin DOMAIN m.reading \/ q = NoQuote THEN NoQuote
            ELSE IF asset = u THEN q ELSE AtMost(q, most)
        BY <1>1, <1>2, <1>3 DEF MarketQuote
  <1>5. CASE u \notin Markets \/ q = NoQuote
    <2>1. r = NoQuote
          BY <1>4, <1>5 DEF AnswersFit
    <2> QED
        BY <1>1, <2>1 DEF Rests
  <1>6. CASE u \in Markets /\ q # NoQuote
    <2>1. Rests(m, q)
          BY <1>2, <1>3, <1>6, QuorumRests
    <2>2. RestsOn(m, q) /\ most \in Nat
          BY <1>3, <1>6, <2>1 DEF Rests
    <2>3. RestsOn(m, AtMost(q, most))
          BY <2>2, CappedRests
    <2>4. r = q \/ r = AtMost(q, most)
          BY <1>4, <1>6 DEF AnswersFit
    <2>5. Rests(m, r)
          BY <2>2, <2>3, <2>4 DEF Rests
    <2>6. asset \in AtMarket
      <3>1. asset # "USDC"
            BY DEF Assets, Vaults
      <3> QED
          BY <1>1, <1>6, <3>1 DEF Underlying, Markets, AtMarket
    <2> QED
        BY <1>1, <2>5, <2>6
  <1> QED
      BY <1>5, <1>6

LEMMA KnownAssets ==
  /\ \A a \in {"BTC", "sBTC", "STX", "USDCx", "USDH", "USDh", "aeUSDC", "stSTX", "stBTC",
               "stSTXbtc", "gUSDC", "sUSDh", "zvstBTC"} : a \in Assets
  /\ DOMAIN Vaults \subseteq Assets
  /\ \A a \in DOMAIN Vaults : Vaults[a] \in Assets
  <1>1. \A a \in DOMAIN Vaults : Vaults[a] \in {"STX", "sBTC", "stSTX", "USDCx", "USDH", "stSTXbtc", "stBTC"}
        BY DEF Vaults
  <1> QED
      BY <1>1 DEF Assets

LEMMA UsdcxRests ==
  ASSUME NEW m, NEW b, NEW open, BookFits(m, b, open)
  PROVE  /\ Rests(m, UsdcxQuote(m, b))
         /\ UsdcxQuote(m, b) # NoQuote => "USDCx" \in m.approved
  <1>1. PICK btc, price, r, most : /\ btc = b["sBTC"] /\ r = UsdcxQuote(m, b) /\ most = 88
                                   /\ price = (btc.price * PriceScale) \div m.pool["USDCx"]
        OBVIOUS
  <1>2. CASE r = NoQuote
        BY <1>1, <1>2 DEF Rests
  <1>3. CASE r # NoQuote
    <2>1. PICK d : d = [btc EXCEPT !.price = price]
          OBVIOUS
    <2>2. r = AtMost(d, most) /\ btc # NoQuote /\ "USDCx" \in m.approved
          BY <1>1, <1>3, <2>1 DEF UsdcxQuote
    <2>3. Rests(m, btc)
          BY <1>1, KnownAssets DEF BookFits
    <2>4. RestsOn(m, btc) /\ most \in Nat
          BY <1>1, <2>2, <2>3 DEF Rests
    <2>5. RestsOn(m, d)
          BY <2>1, <2>4, RepricedRests
    <2>6. RestsOn(m, r)
          BY <2>2, <2>4, <2>5, CappedRests
    <2> QED
        BY <1>1, <2>2, <2>6 DEF Rests
  <1> QED
      BY <1>2, <1>3

LEMMA StablePoolRests ==
  ASSUME NEW m, NEW b, NEW open, BookFits(m, b, open), NEW asset
  PROVE  /\ Rests(m, StablePoolQuote(m, b, asset))
         /\ StablePoolQuote(m, b, asset) # NoQuote => asset \in m.approved
  <1>1. PICK usdcx, price, r, most : /\ usdcx = UsdcxQuote(m, b) /\ most = 86
                                     /\ r = StablePoolQuote(m, b, asset)
                                     /\ price = (usdcx.price * m.pool[asset]) \div PriceScale
        OBVIOUS
  <1>2. CASE r = NoQuote
        BY <1>1, <1>2 DEF Rests
  <1>3. CASE r # NoQuote
    <2>1. PICK d : d = [usdcx EXCEPT !.price = price]
          OBVIOUS
    <2>2. r = AtMost(d, most) /\ usdcx # NoQuote /\ asset \in m.approved
          BY <1>1, <1>3, <2>1 DEF StablePoolQuote
    <2>3. Rests(m, usdcx)
          BY <1>1, UsdcxRests
    <2>4. RestsOn(m, usdcx) /\ most \in Nat
          BY <1>1, <2>2, <2>3 DEF Rests
    <2>5. RestsOn(m, d)
          BY <2>1, <2>4, RepricedRests
    <2>6. RestsOn(m, r)
          BY <2>2, <2>4, <2>5, CappedRests
    <2> QED
        BY <1>1, <2>2, <2>6 DEF Rests
  <1> QED
      BY <1>2, <1>3

LEMMA StableBookFits ==
  ASSUME NEW m, AnswersFit(m), NEW b, BookFits(m, b, AtMarket)
  PROVE  BookFits(m, StableBook(m, b), Open)
  <1>1. PICK U : U = {"USDCx", "USDH", "USDh", "aeUSDC"}
        OBVIOUS
  <1> DEFINE own == [a \in U |->
                       IF a = "USDCx" THEN UsdcxQuote(m, b)
                       ELSE Consensus(StablePoolQuote(m, b, Underlying(a)),
                                      StableReference(m, Underlying(a)))]
  <1>2. StableBook(m, b) = AskingBelow(own, b)
        BY <1>1 DEF StableBook
  <1>3. ASSUME NEW u, NEW r, r = Consensus(StablePoolQuote(m, b, u), StableReference(m, u))
        PROVE  Rests(m, r) /\ (r # NoQuote => u \in m.approved)
    <2>1. PICK q, reference : q = StablePoolQuote(m, b, u) /\ reference = StableReference(m, u)
          OBVIOUS
    <2>2. Rests(m, q) /\ (q # NoQuote => u \in m.approved)
          BY <2>1, StablePoolRests
    <2>3. \E t \in Markets, s \in DOMAIN Profile : reference = SourceQuote(s, t, m.reading[t][s])
          BY <2>1, ProfileFits DEF StableReference, Markets
    <2>4. PICK t \in Markets, s \in DOMAIN Profile : reference = SourceQuote(s, t, m.reading[t][s])
          BY <2>3
    <2> QED
        BY <1>3, <2>1, <2>2, <2>4, ConsensusRests
  <1>4. ASSUME NEW a \in U
        PROVE  Rests(m, own[a]) /\ (own[a] # NoQuote => a \in m.approved \cup Open)
    <2>1. CASE a = "USDCx"
      <3>1. own[a] = UsdcxQuote(m, b)
            BY <2>1
      <3> QED
          BY <2>1, <3>1, UsdcxRests
    <2>2. CASE a # "USDCx"
      <3>1. PICK u, r : u = Underlying(a) /\ r = own[a]
            OBVIOUS
      <3>2. r = Consensus(StablePoolQuote(m, b, u), StableReference(m, u))
            BY <2>2, <3>1
      <3>3. Rests(m, r) /\ (r # NoQuote => u \in m.approved)
            BY <1>3, <3>2
      <3>4. u = a \/ a = "USDh"
            BY <1>1, <2>2, <3>1 DEF Underlying
      <3>5. "USDh" \in Open
            BY DEF Open
      <3> QED
          BY <3>1, <3>3, <3>4, <3>5
    <2> QED
        BY <2>1, <2>2
  <1>5. DOMAIN own = U /\ U \subseteq Assets /\ AtMarket \subseteq Open \cup U
        BY <1>1, KnownAssets DEF AtMarket, Open
  <1> HIDE DEF own
  <1> QED
      BY <1>2, <1>4, <1>5, BelowFits

LEMMA StackingDaoBookFits ==
  ASSUME NEW m, NEW b, BookFits(m, b, Open)
  PROVE  BookFits(m, StackingDaoBook(m, b), Open)
  <1>1. PICK x, y, z, most : /\ x = Rated(m, "stSTX", b["STX"])
                             /\ y = Rated(m, "stBTC", b["sBTC"])
                             /\ z = AtMost(b["STX"], most) /\ most = 90
        OBVIOUS
  <1>2. PICK own : own = [stSTX |-> x, stBTC |-> y, stSTXbtc |-> z]
        OBVIOUS
  <1>3. Rests(m, b["STX"]) /\ Rests(m, b["sBTC"])
        BY KnownAssets DEF BookFits
  <1>4. Rests(m, x) /\ (x # NoQuote => "stSTX" \in m.approved)
        BY <1>1, <1>3, ConvertedRests
  <1>5. Rests(m, y) /\ (y # NoQuote => "stBTC" \in m.approved)
        BY <1>1, <1>3, ConvertedRests
  <1>6. Rests(m, z)
    <2>1. PICK q : q = b["STX"]
          OBVIOUS
    <2>2. most \in Nat
          BY <1>1
    <2>3. CASE q = NoQuote
      <3>1. z = NoQuote
            BY <1>1, <2>1, <2>2, <2>3, NothingCapped
      <3> QED
          BY <3>1 DEF Rests
    <2>4. CASE q # NoQuote
      <3>1. RestsOn(m, q)
            BY <1>3, <2>1, <2>4 DEF Rests
      <3>2. RestsOn(m, z)
            BY <1>1, <2>1, <2>2, <3>1, CappedRests
      <3> QED
          BY <3>2 DEF Rests
    <2> QED
        BY <2>3, <2>4
  <1>7. /\ DOMAIN own = {"stSTX", "stBTC", "stSTXbtc"}
        /\ own["stSTX"] = x /\ own["stBTC"] = y /\ own["stSTXbtc"] = z
        BY <1>2
  <1>8. "stSTXbtc" \in Open
        BY DEF Open
  <1>9. ASSUME NEW a \in DOMAIN own
        PROVE  Rests(m, own[a]) /\ (own[a] # NoQuote => a \in m.approved \cup Open)
        BY <1>4, <1>5, <1>6, <1>7, <1>8
  <1>10. DOMAIN own \subseteq Assets
        BY <1>7, KnownAssets
  <1>11. StackingDaoBook(m, b) = AskingBelow(own, b)
        BY <1>1, <1>2 DEF StackingDaoBook
  <1> QED
      BY <1>9, <1>10, <1>11, BelowFits

(* A book of one receipt.                                                   *)
LEMMA ReceiptFits ==
  ASSUME NEW m, NEW b, BookFits(m, b, Open), NEW asset \in Assets, NEW base \in Assets,
         NEW own, DOMAIN own = {asset}, own[asset] = Rated(m, asset, b[base])
  PROVE  BookFits(m, AskingBelow(own, b), Open)
  <1>1. Rests(m, b[base])
        BY DEF BookFits
  <1>2. Rests(m, own[asset]) /\ (own[asset] # NoQuote => asset \in m.approved)
        BY <1>1, ConvertedRests
  <1> QED
      BY <1>2, BelowFits

LEMMA ReceiptBooksFit ==
  ASSUME NEW m, NEW b, BookFits(m, b, Open)
  PROVE  BookFits(m, GraniteBook(m, b), Open) /\ BookFits(m, HermeticaBook(m, b), Open)
  <1>1. PICK x, y, g, h : /\ x = Rated(m, "gUSDC", b["aeUSDC"]) /\ y = Rated(m, "sUSDh", b["USDH"])
                          /\ g = [gUSDC |-> x] /\ h = [sUSDh |-> y]
        OBVIOUS
  <1>2. /\ DOMAIN g = {"gUSDC"} /\ g["gUSDC"] = x
        /\ DOMAIN h = {"sUSDh"} /\ h["sUSDh"] = y
        BY <1>1
  <1>3. GraniteBook(m, b) = AskingBelow(g, b) /\ HermeticaBook(m, b) = AskingBelow(h, b)
        BY <1>1 DEF GraniteBook, HermeticaBook
  <1>4. /\ "gUSDC" \in Assets /\ "aeUSDC" \in Assets /\ "sUSDh" \in Assets /\ "USDH" \in Assets
        BY KnownAssets
  <1>5. BookFits(m, AskingBelow(g, b), Open)
        BY <1>1, <1>2, <1>4, ReceiptFits
  <1>6. BookFits(m, AskingBelow(h, b), Open)
        BY <1>1, <1>2, <1>4, ReceiptFits
  <1> QED
      BY <1>3, <1>5, <1>6

LEMMA ZestBookFits ==
  ASSUME NEW m, NEW b, BookFits(m, b, Open)
  PROVE  BookFits(m, ZestBook(m, b), Open)
  <1>1. PICK x, g, below : /\ x = Rated(m, "zvstBTC", b["stBTC"])
                           /\ g = [zvstBTC |-> x] /\ below = AskingBelow(g, b)
        OBVIOUS
  <1>2. DOMAIN g = {"zvstBTC"} /\ g["zvstBTC"] = x
        BY <1>1
  <1>3. "zvstBTC" \in Assets /\ "stBTC" \in Assets
        BY KnownAssets
  <1>4. BookFits(m, below, Open)
        BY <1>1, <1>2, <1>3, ReceiptFits
  <1>5. PICK own : own = [a \in DOMAIN Vaults |-> Converted(m, a, b[Vaults[a]])]
        OBVIOUS
  <1>6. ASSUME NEW a \in DOMAIN own
        PROVE  Rests(m, own[a]) /\ (own[a] # NoQuote => a \in m.approved \cup Open)
    <2>1. Vaults[a] \in Assets /\ own[a] = Converted(m, a, b[Vaults[a]])
          BY <1>5, KnownAssets
    <2>2. Rests(m, b[Vaults[a]])
          BY <2>1 DEF BookFits
    <2> QED
        BY <2>1, <2>2, ConvertedRests
  <1>7. DOMAIN own \subseteq Assets
        BY <1>5, KnownAssets
  <1>8. ZestBook(m, b) = AskingBelow(own, below)
        BY <1>1, <1>5 DEF ZestBook
  <1> QED
      BY <1>4, <1>6, <1>7, <1>8, BelowFits

LEMMA BooksFit ==
  ASSUME NEW m, AnswersFit(m)
  PROVE  BookFits(m, Book(m), Open)
  <1>1. PICK base : base = [a \in Assets |-> MarketQuote(m, a)]
        OBVIOUS
  <1>2. BookFits(m, base, AtMarket)
    <2>1. DOMAIN base = Assets /\ \A a \in Assets : base[a] = MarketQuote(m, a)
          BY <1>1
    <2> QED
        BY <2>1, MarketRests DEF BookFits
  <1>3. PICK stable : stable = StableBook(m, base)
        OBVIOUS
  <1>4. PICK stacked : stacked = StackingDaoBook(m, stable)
        OBVIOUS
  <1>5. PICK granite : granite = GraniteBook(m, stacked)
        OBVIOUS
  <1>6. PICK hermetica : hermetica = HermeticaBook(m, granite)
        OBVIOUS
  <1>7. BookFits(m, stable, Open)
        BY <1>2, <1>3, StableBookFits
  <1>8. BookFits(m, stacked, Open)
        BY <1>4, <1>7, StackingDaoBookFits
  <1>9. BookFits(m, granite, Open)
        BY <1>5, <1>8, ReceiptBooksFit
  <1>10. BookFits(m, hermetica, Open)
        BY <1>6, <1>9, ReceiptBooksFit
  <1>11. Book(m) = ZestBook(m, hermetica)
        BY <1>1, <1>3, <1>4, <1>5, <1>6 DEF Book
  <1> QED
      BY <1>10, <1>11, ZestBookFits

THEOREM TowerHolds ==
  ASSUME NEW m, AnswersFit(m)
  PROVE  TowerIsSound(m)
  <1>1. PICK quotes : quotes = Book(m)
        OBVIOUS
  <1>2. SUFFICES ASSUME NEW asset \in Assets, NEW q, q = quotes[asset], q # NoQuote
                 PROVE  /\ Cardinality({x[1] : x \in q.on}) >= MinimumSources
                        /\ \A x \in q.on : /\ q.age >= AnswerTo(m, x).age
                                           /\ q.confidence <= AnswerTo(m, x).confidence
                        /\ asset \in m.approved \cup {"BTC", "sBTC", "STX", "USDh", "stSTXbtc"}
        BY <1>1 DEF TowerIsSound, AnswerTo
  <1>3. RestsOn(m, q) /\ asset \in m.approved \cup Open
        BY <1>1, <1>2, BooksFit DEF BookFits, Rests
  <1>4. PICK x \in q.on, y \in q.on : x[1] # y[1]
        BY <1>3 DEF RestsOn
  <1>5. PICK P : P = {z[1] : z \in q.on}
        OBVIOUS
  <1>6. PICK s, t : s = x[1] /\ t = y[1]
        OBVIOUS
  <1>7. s \in P /\ t \in P /\ s # t
        BY <1>4, <1>5, <1>6
  <1>8. P \in SUBSET {"dia", "coingecko", "coinbase", "pyth"}
        BY <1>3, <1>5, ProfileFits DEF RestsOn
  <1>9. IsFiniteSet(P)
    <2>1. /\ IsFiniteSet({"dia"}) /\ IsFiniteSet({"dia"} \cup {"coingecko"})
          BY FS_Singleton, FS_AddElement
    <2>2. IsFiniteSet(({"dia"} \cup {"coingecko"}) \cup {"coinbase"})
          BY <2>1, FS_AddElement
    <2>3. IsFiniteSet((({"dia"} \cup {"coingecko"}) \cup {"coinbase"}) \cup {"pyth"})
          BY <2>2, FS_AddElement
    <2>4. P \in SUBSET ((({"dia"} \cup {"coingecko"}) \cup {"coinbase"}) \cup {"pyth"})
          BY <1>8
    <2> QED
        BY <2>3, <2>4, FS_Subset
  <1>10. Cardinality(P) >= 2
    <2>1. IsFiniteSet({s}) /\ Cardinality({s}) = 1
          BY FS_Singleton
    <2>2. Cardinality({s} \cup {t}) = 2
      <3>1. t \notin {s}
            BY <1>7
      <3>2. Cardinality({s} \cup {t}) = Cardinality({s}) + 1
            BY <2>1, <3>1, FS_AddElement
      <3> QED
          BY <2>1, <3>2
    <2>3. {s} \cup {t} \in SUBSET P
          BY <1>7
    <2>4. 2 <= Cardinality(P) /\ Cardinality(P) \in Nat
          BY <1>9, <2>2, <2>3, FS_Subset, FS_CardinalityType
    <2> QED
        BY <2>4
  <1> QED
      BY <1>3, <1>5, <1>10 DEF RestsOn, MinimumSources, Open

-----------------------------------------------------------------------------
(* The questions.  Each asks about one subject; the parts of an invariant   *)
(* about other subjects do not see it.                                      *)

LEMMA SubjectsAsked ==
  /\ AskQuorum => \E i : question' = <<"quorum", i>>
  /\ AskBook => \E i : question' = <<"book", i>>
  /\ AskPortfolio => \E i : question' = <<"portfolio", i>>
  /\ AskHistory => \E s \in {"save", "history"} : \E i : question' = <<s, i>>
  /\ AskUsage => \E i : question' = <<"usage", i>>
  /\ AskRisk => \E i : question' = <<"risk", i>>
  /\ AskPlan => \E i : question' = <<"plan", i>>
  /\ AskAllocation => \E i : question' = <<"allocation", i>>
  /\ AskCatalog => \E i : question' = <<"catalog", i>>
  /\ AskWallet => \E i : question' = <<"wallet", i>>
  /\ AskMarket => \E i : question' = <<"market", i>>
  /\ AskLoan => \E s \in {"zest", "granite"} : \E i : question' = <<s, i>>
  /\ AskPools => \E i : question' = <<"pools", i>>
  /\ AskBlock => \E i : question' = <<"block", i>>
  /\ AskSbtc => \E i : question' = <<"sbtc", i>>
  <1>1. AskQuorum => \E i : question' = <<"quorum", i>>
        BY DEF AskQuorum, Question
  <1>2. AskBook => \E i : question' = <<"book", i>>
        BY DEF AskBook, Question
  <1>3. AskPortfolio => \E i : question' = <<"portfolio", i>>
        BY DEF AskPortfolio, Question
  <1>4. AskHistory => \E s \in {"save", "history"} : \E i : question' = <<s, i>>
        BY DEF AskHistory, Question
  <1>5. AskUsage => \E i : question' = <<"usage", i>>
        BY DEF AskUsage, Question
  <1>6. AskRisk => \E i : question' = <<"risk", i>>
        BY DEF AskRisk, AskLoanRisk, AskPoolRisk, Question
  <1>7. AskPlan => \E i : question' = <<"plan", i>>
        BY DEF AskPlan, AskSmallPlan, AskPlanAtEnds, Question
  <1>8. AskAllocation => \E i : question' = <<"allocation", i>>
        BY DEF AskAllocation, Question
  <1>9. AskCatalog => \E i : question' = <<"catalog", i>>
        BY DEF AskCatalog, Question
  <1>10. AskWallet => \E i : question' = <<"wallet", i>>
         BY DEF AskWallet, Question
  <1>11. AskMarket => \E i : question' = <<"market", i>>
         BY DEF AskMarket, Question
  <1>12. AskLoan => \E s \in {"zest", "granite"} : \E i : question' = <<s, i>>
         BY DEF AskLoan, Question
  <1>13. AskPools => \E i : question' = <<"pools", i>>
         BY DEF AskPools, Question
  <1>14. AskBlock => \E i : question' = <<"block", i>>
         BY DEF AskBlock, Question
  <1>15. AskSbtc => \E i : question' = <<"sbtc", i>>
         BY DEF AskSbtc, Question
  <1> QED
      BY <1>1, <1>2, <1>3, <1>4, <1>5, <1>6, <1>7, <1>8,
         <1>9, <1>10, <1>11, <1>12, <1>13, <1>14, <1>15

(* A repayment plan is asked about with the debt its units are worth.       *)
LEMMA PlansAskedFit ==
  ASSUME NEW c \in Nat, NEW units \in Nat, NEW price \in Nat, NEW debtLegs, NEW age, NEW trust
  PROVE  LET loan == Loan(c, units, price, debtLegs, age, trust)
         IN  /\ LoanFits(loan) /\ loan.units \in Nat /\ loan.price \in Nat
             /\ loan.debt = ToCents((loan.units * loan.price) \div 100)
  <1>1. units * price \in Nat
        OBVIOUS
  <1>2. (units * price) \div 100 \in Nat
        BY <1>1, Quotient
  <1> PICK e : e = (units * price) \div 100
      OBVIOUS
  <1>3. e \in Nat /\ e \div Cent \in Nat
        BY <1>2, CentAssumption, Quotient
  <1>4. ToCents(e) \in Nat
        BY <1>3, CentAssumption DEF ToCents
  <1>5. InCents(c) \in Nat
        BY CentAssumption DEF InCents, Unknown
  <1> QED
      BY <1>4, <1>5 DEF Loan, LoanFits, Healths

LEMMA RiskAsked ==
  ASSUME NEW p, question' = <<"risk", p>>, p.kind = "lending" => LoanFits(p.loan)
  PROVE  RiskSound'
  <1>1. FindingsAreConsistent(p)
        BY FindingsAgree
  <1>2. question'[1] = "risk" /\ question'[2] = p
        OBVIOUS
  <1> QED
      BY <1>1, <1>2 DEF RiskSound

LEMMA PlanAsked ==
  ASSUME NEW c \in Nat, NEW units \in Nat, NEW price \in Nat, NEW amount \in Nat,
         NEW debtLegs, NEW age, NEW trust,
         question' = <<"plan", <<Loan(c, units, price, debtLegs, age, trust), amount>>>>
  PROVE  RiskSound'
  <1> PICK loan : loan = Loan(c, units, price, debtLegs, age, trust)
      OBVIOUS
  <1>1. PlanReachesTarget(loan, amount)
    <2>1. /\ LoanFits(loan) /\ loan.units \in Nat /\ loan.price \in Nat
          /\ loan.debt = ToCents((loan.units * loan.price) \div 100)
          BY PlansAskedFit
    <2> QED
        BY <2>1, PlansReachTarget
  <1>2. question'[1] = "plan" /\ question'[2][1] = loan /\ question'[2][2] = amount
        OBVIOUS
  <1> QED
      BY <1>1, <1>2 DEF RiskSound

LEMMA AskLoanRiskHolds ==
  ASSUME AskLoanRisk
  PROVE  RiskSound'
  <1>1. PICK c \in {Unknown} \cup 0 .. 2100, debt \in {Unknown, 1000} :
          Question("risk", LoanAsked(c, debt))
        BY SMTT(30) DEF AskLoanRisk
  <1>2. InCents(c) \in Healths /\ InCents(debt) \in Healths
        BY CentAssumption DEF Healths, InCents, Unknown
  <1>3. LoanFits(LoanAsked(c, debt).loan)
        BY <1>2 DEF LoanAsked, LoanFits
  <1>4. question' = <<"risk", LoanAsked(c, debt)>>
        BY <1>1 DEF Question
  <1> QED
      BY <1>3, <1>4, RiskAsked

LEMMA AskPoolRiskHolds ==
  ASSUME AskPoolRisk
  PROVE  RiskSound'
  <1>1. PICK current \in 0 .. 4, slippage \in {Unknown, 100, 101}, unpriced \in BOOLEAN,
             newest \in {300, 301, 900, 901}, state \in {"verified", "degraded", "unsupported"} :
          Question("risk", PoolAsked(current, slippage, Evidence(unpriced, newest, state)))
        BY DEF AskPoolRisk
  <1> PICK p : p = PoolAsked(current, slippage, Evidence(unpriced, newest, state))
      OBVIOUS
  <1>2. p.kind # "lending"
        BY DEF PoolAsked
  <1>3. question' = <<"risk", p>>
        BY <1>1 DEF Question
  <1> QED
      BY <1>2, <1>3, RiskAsked

LEMMA AskSmallPlanHolds ==
  ASSUME AskSmallPlan
  PROVE  RiskSound'
  <1>1. PICK c \in 1 .. 40, units \in {7, 11}, price \in {1000, 1543}, amount \in 0 .. 12 :
          Question("plan", <<Loan(c, units, price, 1, 30, 80), amount>>)
        BY DEF AskSmallPlan
  <1>2. c \in Nat /\ units \in Nat /\ price \in Nat /\ amount \in Nat
        OBVIOUS
  <1>3. question' = <<"plan", <<Loan(c, units, price, 1, 30, 80), amount>>>>
        BY <1>1 DEF Question
  <1> QED
      BY <1>2, <1>3, PlanAsked

LEMMA AskPlanAtEndsHolds ==
  ASSUME AskPlanAtEnds
  PROVE  RiskSound'
  <1>1. PICK amount \in {0, 1, 25, 49, 50, 51, 52}, debtLegs \in {1, 2},
             evidenceAge \in {30, 31}, trust \in {79, 80} :
          Question("plan", <<Loan(80, 50, 1543, debtLegs, evidenceAge, trust), amount>>)
        BY DEF AskPlanAtEnds
  <1>2. 80 \in Nat /\ 50 \in Nat /\ 1543 \in Nat /\ amount \in Nat
        OBVIOUS
  <1>3. question' = <<"plan", <<Loan(80, 50, 1543, debtLegs, evidenceAge, trust), amount>>>>
        BY <1>1 DEF Question
  <1> QED
      BY <1>2, <1>3, PlanAsked

(* The risk engine and the repayment plans, for every question of the run:  *)
(* FindingsAgree and PlansReachTarget, which hold of every position and     *)
(* loan, applied to those that are asked about.                             *)
THEOREM RiskHolds ==
  Decisions => []RiskSound
  <1>1. AskNothing => RiskSound
        BY DEF AskNothing, NotAsked, RiskSound
  <1>2. ASSUME AskAny PROVE RiskSound'
    <2>1. CASE AskRisk
          BY <2>1, AskLoanRiskHolds, AskPoolRiskHolds DEF AskRisk
    <2>2. CASE AskPlan
          BY <2>2, AskSmallPlanHolds, AskPlanAtEndsHolds DEF AskPlan
    <2>3. ASSUME NEW s, NEW i, question' = <<s, i>>, s \notin {"risk", "plan"} PROVE RiskSound'
      <3>1. question'[1] = s
            BY <2>3
      <3> QED
          BY <2>3, <3>1 DEF RiskSound
    <2> QED
        BY <1>2, <2>1, <2>2, <2>3, SubjectsAsked DEF AskAny
  <1>3. RiskSound /\ UNCHANGED question => RiskSound'
        BY DEF RiskSound
  <1>4. RiskSound /\ [AskAny]_question => RiskSound'
        BY <1>2, <1>3
  <1> QED
      BY <1>1, <1>4, PTL DEF Decisions

(* The sBTC worlds of the run are worlds: each event names its operation,   *)
(* happens once, and each record has a status.                              *)
LEMMA KnownEventsFit ==
  ASSUME NEW told \in WithdrawalEvents, NEW accepted, NEW completed,
         NEW E, E = KnownEvents(told, accepted, completed)
  PROVE  /\ \A e \in E :
              \/ /\ e.op[1] = "withdrawal"
                 /\ e.kind \in {"withdrawal-create", "withdrawal-accept", "withdrawal-reject"}
              \/ e.op = <<"deposit", e.txid>> /\ e.kind = "completed-deposit"
         /\ \A e, f \in E : e.op = f.op /\ e.kind = f.kind => e = f
  <1> DEFINE T(k) == SbtcEvent(Withdrawal, k, NoTxid, NoTxid, 0)
  <1>1. told \subseteq {"withdrawal-create", "withdrawal-reject"}
        BY DEF WithdrawalEvents
  <1>2. \A k : T(k).kind = k /\ T(k).op[1] = "withdrawal"
        BY DEF SbtcEvent, Withdrawal
  <1>3. AcceptEvent.kind = "withdrawal-accept" /\ AcceptEvent.op[1] = "withdrawal"
        BY DEF AcceptEvent, SbtcEvent, Withdrawal
  <1>4. CompletedEvent.kind = "completed-deposit" /\ CompletedEvent.op = <<"deposit", CompletedEvent.txid>>
        BY DEF CompletedEvent, SbtcEvent
  <1>5. \A e \in E : (\E k \in told : e = T(k)) \/ e = AcceptEvent \/ e = CompletedEvent
        BY DEF KnownEvents
  <1> HIDE DEF T
  <1>6. \A e \in E :
              \/ /\ e.op[1] = "withdrawal"
                 /\ e.kind \in {"withdrawal-create", "withdrawal-accept", "withdrawal-reject"}
              \/ e.op = <<"deposit", e.txid>> /\ e.kind = "completed-deposit"
        BY <1>1, <1>2, <1>3, <1>4, <1>5
  <1>7. \A e, f \in E : e.kind = f.kind => e = f
        BY <1>1, <1>2, <1>3, <1>4, <1>5
  <1> QED
      BY <1>6, <1>7

LEMMA WorldsAskedFit ==
  ASSUME AskSbtc
  PROVE  \E w : question' = <<"sbtc", w>> /\ WorldFits(w)
  <1>1. PICK told \in WithdrawalEvents, accepted \in BOOLEAN, mined \in SUBSET {"b1", "b2", "b4"},
             emily \in {NoRecord} \cup EmilyRecords, deposit \in {NoRecord} \cup DepositRecords,
             completed, answers \in BOOLEAN, tip \in {3, 5} :
          /\ emily = NoRecord \/ deposit = NoRecord \/ emily.status = "pending"
          /\ Question("sbtc", World(KnownEvents(told, accepted, completed), mined, emily, deposit,
                                    answers, tip))
        BY DEF AskSbtc
  <1> PICK E : E = KnownEvents(told, accepted, completed)
      OBVIOUS
  <1> DEFINE w == World(E, mined, emily, deposit, answers, tip)
  <1>2. \A r \in EmilyRecords \cup DepositRecords : r.status \in EmilyStatuses
        BY DEF EmilyRecords, DepositRecords, DepositRecord
  <1>3. \A r \in w.withdrawals \cup w.deposits : r.status # "none"
    <2>1. w.withdrawals \cup w.deposits \subseteq EmilyRecords \cup DepositRecords
          BY DEF World
    <2>2. "none" \notin EmilyStatuses
          BY DEF EmilyStatuses
    <2> HIDE DEF w
    <2> QED
        BY <1>2, <2>1, <2>2
  <1>4. IsWorld(w) /\ w.tip \in Nat /\ w.events = E
        BY DEF IsWorld, World
  <1>5. \A t \in DOMAIN w.minedAt : w.minedAt[t] \in Nat
        BY DEF World
  <1> HIDE DEF w
  <1>6. WorldFits(w)
        BY <1>3, <1>4, <1>5, KnownEventsFit DEF WorldFits
  <1> QED
      BY <1>1, <1>6 DEF w, Question

(* sbtc-reconciliation.ts, for every question of the run: LifecycleHolds,   *)
(* of every world, applied to those that are asked about.                   *)
THEOREM LifecycleHoldsAsked ==
  Decisions => []LifecycleSound
  <1>1. AskNothing => LifecycleSound
        BY DEF AskNothing, NotAsked, LifecycleSound
  <1>2. ASSUME AskAny PROVE LifecycleSound'
    <2>1. CASE AskSbtc
      <3>1. PICK w : question' = <<"sbtc", w>> /\ WorldFits(w)
            BY <2>1, WorldsAskedFit
      <3>2. LifecycleIsSound(w)
            BY <3>1, LifecycleHolds
      <3>3. question'[2] = w
            BY <3>1
      <3> QED
          BY <3>2, <3>3 DEF LifecycleSound
    <2>2. ASSUME NEW s, NEW i, question' = <<s, i>>, s # "sbtc" PROVE LifecycleSound'
      <3>1. question'[1] = s
            BY <2>2
      <3> QED
          BY <2>2, <3>1 DEF LifecycleSound
    <2> QED
        BY <1>2, <2>1, <2>2, SubjectsAsked DEF AskAny
  <1>3. LifecycleSound /\ UNCHANGED question => LifecycleSound'
        BY DEF LifecycleSound
  <1>4. LifecycleSound /\ [AskAny]_question => LifecycleSound'
        BY <1>2, <1>3
  <1> QED
      BY <1>1, <1>4, PTL DEF Decisions

(* The reads that are asked about fit: amounts are natural numbers, and no  *)
(* token calls itself STX.                                                  *)
LEMMA PagesAsked ==
  ASSUME NEW pages \in WalletPages, NEW w, w.pages = pages
  PROVE  \A t \in Tokens(w) : t.name # "STX"
  <1>1. PICK a, b, c : a = Full /\ b = FinalPage /\ c = Page({}, FALSE)
        OBVIOUS
  <1>2. \A page \in {a, b, c} : \A t \in page.tokens : t.name # "STX"
        BY <1>1 DEF Full, FinalPage, Page, Token
  <1>3. \/ pages = <<a>> \/ pages = <<a, c>>
        \/ pages = [i \in 1..11 |-> IF i = 11 THEN b ELSE a]
        BY <1>1 DEF WalletPages
  <1>4. pages \in Seq({a, b, c})
    <2>1. PICK S : S = {a, b, c}
          OBVIOUS
    <2>2. a \in S /\ b \in S /\ c \in S
          BY <2>1
    <2>3. <<a>> \in Seq(S) /\ <<a, c>> \in Seq(S)
          BY <2>2
    <2>4. [i \in 1..11 |-> IF i = 11 THEN b ELSE a] \in Seq(S)
          BY <2>2
    <2> QED
        BY <1>3, <2>1, <2>3, <2>4
  <1>5. ReadPages(w) \in Seq({a, b, c})
    <2>1. CASE Len(pages) > 10
      <3>1. 1 \in 1 .. Len(pages) + 1 /\ 10 \in 0 .. Len(pages)
            BY <1>4, <2>1, LenProperties
      <3>2. SubSeq(pages, 1, 10) \in Seq({a, b, c})
            BY <1>4, <3>1, SubSeqProperties
      <3> QED
          BY <2>1, <3>2 DEF ReadPages, FtPages
    <2>2. CASE ~(Len(pages) > 10)
          BY <1>4, <2>2 DEF ReadPages, FtPages
    <2> QED
        BY <2>1, <2>2
  <1>6. \A page \in Range(ReadPages(w)) : page \in {a, b, c}
        BY <1>5, ElementOfSeq, LenProperties DEF Range
  <1>7. \A t \in Tokens(w) : \E page \in Range(ReadPages(w)) : t \in page.tokens
        BY DEF Tokens
  <1> QED
      BY <1>2, <1>6, <1>7

LEMMA WalletsAskedFit ==
  ASSUME NEW w \in WalletReads
  PROVE  WalletFits(w)
  <1>1. w.pages \in WalletPages
        BY DEF WalletReads
  <1>2. \A t \in Tokens(w) : t.name # "STX"
        BY <1>1, PagesAsked
  <1>3. /\ w.stx.total \in Nat \cup {Unreported} /\ w.stx.available \in Nat \cup {Unreported}
        /\ w.stx.locked \in Nat
        BY DEF WalletReads
  <1> QED
      BY <1>2, <1>3 DEF WalletFits

LEMMA MarketsAskedFit ==
  ASSUME AskMarket
  PROVE  \E m : question' = <<"market", m>> /\ MarketFits(m)
  <1>1. PICK n \in 1..3 : \E shares \in [1..n -> 0..4], pool \in 0..12 :
          Question("market", [shares |-> shares, pool |-> pool])
        BY DEF AskMarket
  <1>2. PICK shares \in [1..n -> 0..4], pool \in 0..12 :
          Question("market", [shares |-> shares, pool |-> pool])
        BY <1>1
  <1>3. shares \in Seq(Nat) /\ pool \in Nat
        OBVIOUS
  <1> QED
      BY <1>2, <1>3 DEF Question, MarketFits

LEMMA LegsAskedFit ==
  /\ \A legs \in Collaterals \cup Debts : LegsFit(legs)
  /\ \A n \in 0..2 : LegsFit([i \in 1..n |-> ChainLeg("sBTC", 3)])
  <1>1. PICK S : S = {"zSTX", "sBTC", "USDCx", "USDH"}
        OBVIOUS
  <1>2. PICK R : R = [asset : S, n : Nat]
        OBVIOUS
  <1>3. \A legs \in Seq(R) : LegsFit(legs)
        BY <1>2 DEF LegsFit
  <1>4. PICK a, b, c, d, e : /\ a = ChainLeg("zSTX", 40) /\ b = ChainLeg("sBTC", 1)
                             /\ c = ChainLeg("USDCx", 7) /\ d = ChainLeg("USDH", 299)
                             /\ e = ChainLeg("sBTC", 3)
        OBVIOUS
  <1>5. a \in R /\ b \in R /\ c \in R /\ d \in R /\ e \in R
        BY <1>1, <1>2, <1>4 DEF ChainLeg
  <1>6. Collaterals = {<<>>, <<a>>, <<a, b>>} /\ Debts = {<<>>, <<c>>, <<c, d>>}
        BY <1>4 DEF Collaterals, Debts
  <1>7. /\ <<>> \in Seq(R) /\ <<a>> \in Seq(R) /\ <<a, b>> \in Seq(R)
        /\ <<c>> \in Seq(R) /\ <<c, d>> \in Seq(R)
        BY <1>5
  <1>8. \A n \in 0..2 : [i \in 1..n |-> e] \in Seq(R)
        BY <1>5
  <1>9. \A legs \in Collaterals \cup Debts : LegsFit(legs)
        BY <1>3, <1>6, <1>7
  <1>10. \A n \in 0..2 : LegsFit([i \in 1..n |-> ChainLeg("sBTC", 3)])
         BY <1>3, <1>4, <1>8
  <1> QED
      BY <1>9, <1>10

LEMMA ZestAskedFits ==
  ASSUME NEW z \in ZestReads
  PROVE  ZestFits(z)
  <1>1. z.collateral \in Collaterals /\ z.debt \in Debts /\ z.index \in Nat /\ z.borrow \in Nat
        BY DEF ZestReads
  <1> QED
      BY <1>1, LegsAskedFit DEF ZestFits

LEMMA GraniteAskedFits ==
  ASSUME NEW g \in GraniteReads
  PROVE  GraniteFits(g)
  <1>1. /\ \E legs \in 0..2 : g.collateral = [i \in 1..legs |-> ChainLeg("sBTC", 3)]
        /\ g.shares \in Nat /\ g.interest \in Nat /\ g.total \in Nat
        BY DEF GraniteReads
  <1> QED
      BY <1>1, LegsAskedFit DEF GraniteFits

LEMMA PoolsAskedFit ==
  ASSUME AskPools
  PROVE  \E b : question' = <<"pools", b>> /\ BitflowFits(b)
  <1>1. PICK pool \in PoolReads, two \in BOOLEAN :
          Question("pools", [enabled |-> TRUE, answered |-> TRUE,
                             pools |-> IF two THEN <<pool, [pool EXCEPT !.nfts = 1]>>
                                       ELSE <<pool>>])
        BY DEF AskPools
  <1>2. PICK other : other = [pool EXCEPT !.nfts = 1]
        OBVIOUS
  <1>3. PICK b : b = [enabled |-> TRUE, answered |-> TRUE,
                      pools |-> IF two THEN <<pool, other>> ELSE <<pool>>]
        OBVIOUS
  <1>4. question' = <<"pools", b>>
        BY <1>1, <1>2, <1>3 DEF Question
  <1>5. pool.bins \in BinSets /\ other.bins = pool.bins
        BY <1>2 DEF PoolReads
  <1>6. \A bins \in BinSets :
          /\ bins \in Seq([shares : Nat, total : Nat, x : Nat, y : Nat])
          /\ \A i \in DOMAIN bins : bins[i].total > 0 => bins[i].shares <= bins[i].total
    <2>1. \A shares \in Nat, total \in Nat :
            /\ Bin(shares, total) \in [shares : Nat, total : Nat, x : Nat, y : Nat]
            /\ Bin(shares, total).shares = shares /\ Bin(shares, total).total = total
          BY DEF Bin
    <2> TAKE bins \in BinSets
    <2>2. PICK B : B = [shares : Nat, total : Nat, x : Nat, y : Nat]
          OBVIOUS
    <2>3. PICK a, c, d, e : a = Bin(1, 3) /\ c = Bin(2, 3) /\ d = Bin(1, 0) /\ e = Bin(0, 1)
          OBVIOUS
    <2>4. /\ a \in B /\ a.total = 3 /\ a.shares = 1 /\ c \in B /\ c.total = 3 /\ c.shares = 2
          /\ d \in B /\ d.total = 0 /\ d.shares = 1 /\ e \in B /\ e.total = 1 /\ e.shares = 0
          BY <2>1, <2>2, <2>3
    <2>5. \/ bins = <<>> \/ bins = <<a>> \/ bins = <<a, c>> \/ bins = <<d>>
          \/ bins = [i \in 1..17 |-> e]
          BY <2>3 DEF BinSets
    <2>6. bins \in Seq(B)
      <3>1. <<>> \in Seq(B) /\ <<a>> \in Seq(B) /\ <<a, c>> \in Seq(B) /\ <<d>> \in Seq(B)
            BY <2>4
      <3>2. [i \in 1..17 |-> e] \in Seq(B)
            BY <2>4
      <3> QED
          BY <2>5, <3>1, <3>2
    <2>7. \A i \in DOMAIN bins : bins[i] = a \/ bins[i] = c \/ bins[i] = d \/ bins[i] = e
          BY <2>5
    <2>8. \A i \in DOMAIN bins : bins[i].total > 0 => bins[i].shares <= bins[i].total
          BY <2>4, <2>7
    <2> QED
        BY <2>2, <2>6, <2>8
  <1>7. PoolFits(pool) /\ PoolFits(other)
        BY <1>5, <1>6 DEF PoolFits
  <1>8. \A r \in Range(b.pools) : r = pool \/ r = other
        BY <1>3 DEF Range
  <1> QED
      BY <1>4, <1>7, <1>8 DEF BitflowFits

(* The protocol adapters, for every question of the run: the five theorems  *)
(* above, which hold of every market, wallet, loan and pool, applied to     *)
(* those that are asked about.                                              *)
THEOREM ReadsHold ==
  Decisions => []ReadsSound
  <1>1. AskNothing => ReadsSound
        BY DEF AskNothing, NotAsked, ReadsSound
  <1>2. ASSUME AskAny PROVE ReadsSound'
    <2>1. ASSUME NEW s, NEW i, question' = <<s, i>>,
                 /\ s = "wallet" => WalletIsSound(i)
                 /\ s = "market" => MarketIsSound(i)
                 /\ s = "zest" => ZestIsSound(i)
                 /\ s = "granite" => GraniteIsSound(i)
                 /\ s = "pools" => BitflowIsSound(i)
          PROVE  ReadsSound'
      <3>1. question'[1] = s /\ question'[2] = i
            BY <2>1
      <3> QED
          BY <2>1, <3>1 DEF ReadsSound
    <2>2. CASE AskWallet
      <3>1. PICK w \in WalletReads : question' = <<"wallet", w>>
            BY <2>2 DEF AskWallet, Question
      <3>2. WalletIsSound(w)
            BY WalletsAskedFit, WalletReadIsVerified
      <3> QED
          BY <2>1, <3>1, <3>2
    <2>3. CASE AskMarket
      <3>1. PICK m : question' = <<"market", m>> /\ MarketFits(m)
            BY <2>3, MarketsAskedFit
      <3>2. MarketIsSound(m)
            BY <3>1, MarketsAddUp
      <3> QED
          BY <2>1, <3>1, <3>2
    <2>4. CASE AskLoan
      <3>1. ASSUME NEW z \in ZestReads, question' = <<"zest", z>> PROVE ReadsSound'
        <4>1. ZestIsSound(z)
              BY ZestAskedFits, ZestReadIsWhole
        <4> QED
            BY <2>1, <3>1, <4>1
      <3>2. ASSUME NEW g \in GraniteReads, question' = <<"granite", g>> PROVE ReadsSound'
        <4>1. GraniteIsSound(g)
              BY GraniteAskedFits, GraniteReadIsWhole
        <4> QED
            BY <2>1, <3>2, <4>1
      <3> QED
          BY <2>4, <3>1, <3>2 DEF AskLoan, Question
    <2>5. CASE AskPools
      <3>1. PICK b : question' = <<"pools", b>> /\ BitflowFits(b)
            BY <2>5, PoolsAskedFit
      <3>2. BitflowIsSound(b)
            BY <3>1, BitflowReadIsBacked
      <3> QED
          BY <2>1, <3>1, <3>2
    <2>6. ASSUME NEW s, NEW i, question' = <<s, i>>,
                 s \notin {"wallet", "market", "zest", "granite", "pools"}
          PROVE  ReadsSound'
      <3>1. question'[1] = s
            BY <2>6
      <3> QED
          BY <2>6, <3>1 DEF ReadsSound
    <2> QED
        BY <1>2, <2>2, <2>3, <2>4, <2>5, <2>6, SubjectsAsked DEF AskAny
  <1>3. ReadsSound /\ UNCHANGED question => ReadsSound'
        BY DEF ReadsSound
  <1>4. ReadsSound /\ [AskAny]_question => ReadsSound'
        BY <1>2, <1>3
  <1> QED
      BY <1>1, <1>4, PTL DEF Decisions

LEMMA ManifestAskedFits == ManifestFits(MCManifest)
  <1>1. /\ \A p, r, n : Entry(p, r, n).protocol = p /\ Entry(p, r, n).role = r
        /\ DOMAIN MCManifest = {"mkt", "vlt", "pool", "reg", "tok", "egr"}
        BY DEF Entry, MCManifest
  <1>2. /\ MCManifest["mkt"] = Entry("zest", "market-vault", 0)
        /\ MCManifest["vlt"] = Entry("zest", "vault", 0)
        /\ MCManifest["pool"] = Entry("bitflow", "pool", 5)
        /\ MCManifest["reg"] = Entry("sbtc", "registry", 0)
        /\ MCManifest["tok"] = Entry("sbtc", "token", 0)
        /\ MCManifest["egr"] = Entry("zest", "egroup", 0)
        BY DEF MCManifest
  <1> QED
      BY <1>1, <1>2 DEF ManifestFits, Nothing, ZestRoles

LEMMA EventsAskedFit ==
  ASSUME NEW e \in Prints
  PROVE  EventFits(e)
  <1>1. ASSUME NEW k, NEW c, NEW a, NEW p, NEW n, NEW to, e = Parsed(k, c, a, p, n, to)
        PROVE  /\ e.kind = k /\ e.contract = c /\ e.asset = a
               /\ e = Parsed(e.kind, e.contract, e.asset, e.print, e.amount, e.to)
               /\ e.amount = n /\ e.to = to
        BY <1>1 DEF Parsed
  <1>2. ASSUME NEW c, NEW p, e = Log(c, p) PROVE EventFits(e)
        BY <1>1, <1>2 DEF Log, EventFits
  <1>3. ASSUME NEW k \in TokenKinds, NEW a, NEW p, NEW n, e = TokenEvent(k, a, p, n)
        PROVE  EventFits(e)
        BY <1>1, <1>3 DEF TokenEvent, EventFits
  <1>4. \/ \E c, p : e = Log(c, p)
        \/ \E k \in {"nft_transfer", "nft_mint", "ft_mint", "ft_transfer"} : \E a, p, n :
             e = TokenEvent(k, a, p, n)
        BY Zenon DEF Prints
  <1> QED
      BY <1>2, <1>3, <1>4 DEF TokenKinds

LEMMA BlocksAskedFit ==
  ASSUME AskBlock
  PROVE  \E b : question' = <<"block", b>> /\ BlockFits(b.txs)
  <1>1. PICK first, second \in Prints, success \in {"yes", "no", "unknown"}, height \in {4, 5} :
          Question("block", [height |-> height,
                             txs |-> <<[success |-> success, events |-> <<first, second>>],
                                       [success |-> "yes", events |-> <<second>>]>>])
        BY DEF AskBlock
  <1>2. PICK s, t : /\ s = [success |-> success, events |-> <<first, second>>]
                    /\ t = [success |-> "yes", events |-> <<second>>]
        OBVIOUS
  <1>3. PICK b : b = [height |-> height, txs |-> <<s, t>>]
        OBVIOUS
  <1>4. question' = <<"block", b>> /\ b.txs = <<s, t>>
        BY <1>1, <1>2, <1>3 DEF Question
  <1>5. EventFits(first) /\ EventFits(second)
        BY EventsAskedFit
  <1>6. TransactionFits(s)
    <2>1. s.events = <<first, second>> /\ s = [success |-> s.success, events |-> s.events]
          BY <1>2
    <2>2. Range(s.events) = {first, second}
          BY <2>1 DEF Range
    <2>3. s.events \in Seq(Range(s.events))
          BY <2>1, <2>2
    <2> QED
        BY <1>5, <2>1, <2>2, <2>3 DEF TransactionFits
  <1>7. TransactionFits(t)
    <2>1. t.events = <<second>> /\ t = [success |-> t.success, events |-> t.events]
          BY <1>2
    <2>2. Range(t.events) = {second}
          BY <2>1 DEF Range
    <2>3. t.events \in Seq(Range(t.events))
          BY <2>1, <2>2
    <2> QED
        BY <1>5, <2>1, <2>2, <2>3 DEF TransactionFits
  <1>8. Range(<<s, t>>) = {s, t}
        BY DEF Range
  <1>9. <<s, t>> \in Seq({s, t})
        OBVIOUS
  <1>10. BlockFits(<<s, t>>)
    <2>1. PICK txs : txs = <<s, t>>
          OBVIOUS
    <2>2. txs \in Seq(Range(txs))
          BY <1>8, <1>9, <2>1
    <2>3. \A tx \in Range(txs) : TransactionFits(tx)
          BY <1>6, <1>7, <1>8, <2>1
    <2> QED
        BY <2>1, <2>2, <2>3 DEF BlockFits
  <1> QED
      BY <1>4, <1>10

(* The projection, for every question of the run.                           *)
THEOREM ProjectionHolds ==
  Decisions => []ProjectionSound
  <1>1. AskNothing => ProjectionSound
        BY DEF AskNothing, NotAsked, ProjectionSound
  <1>2. ASSUME AskAny PROVE ProjectionSound'
    <2>1. CASE AskBlock
      <3>1. PICK b : question' = <<"block", b>> /\ BlockFits(b.txs)
            BY <2>1, BlocksAskedFit
      <3>2. ProjectionIsSound(MCManifest, b.height, b.txs)
            BY <3>1, ManifestAskedFits, RowsSurviveDelivery
      <3>3. question'[2] = b
            BY <3>1
      <3> QED
          BY <3>2, <3>3 DEF ProjectionSound
    <2>2. ASSUME NEW s, NEW i, question' = <<s, i>>, s # "block" PROVE ProjectionSound'
      <3>1. question'[1] = s
            BY <2>2
      <3> QED
          BY <2>2, <3>1 DEF ProjectionSound
    <2> QED
        BY <1>2, <2>1, <2>2, SubjectsAsked DEF AskAny
  <1>3. ProjectionSound /\ UNCHANGED question => ProjectionSound'
        BY DEF ProjectionSound
  <1>4. ProjectionSound /\ [AskAny]_question => ProjectionSound'
        BY <1>2, <1>3
  <1> QED
      BY <1>1, <1>4, PTL DEF Decisions

(* Prices: the answers of the sources that are asked about.                 *)
LEMMA AtIs ==
  ASSUME NEW p \in Nat, NEW a \in Nat, NEW r, r = At(p, a)
  PROVE  r.price \in Nat /\ r.age \in Nat
  <1>1. r = [price |-> p, age |-> a, confidence |-> 0, on |-> {}]
        BY DEF At, NoQuote
  <1> QED
      BY <1>1

Told(r) == r = NoQuote \/ (r.price \in Nat /\ r.age \in Nat)

LEMMA QuorumAskedFits ==
  ASSUME AskQuorum
  PROVE  \E quotes : question' = <<"quorum", quotes>> /\ QuotesOfSources(quotes)
  <1>1. PICK r \in [DOMAIN Profile -> Answers] :
          Question("quorum", [s \in DOMAIN Profile |-> SourceQuote(s, "BTC", r[s])])
        BY DEF AskQuorum
  <1>2. ASSUME NEW x \in Answers PROVE Told(x)
    <2>1. CASE x = NoQuote
          BY <2>1 DEF Told
    <2>2. CASE \E p, a \in Nat : x = At(p, a)
          BY <2>2, AtIs DEF Told
    <2>3. x = NoQuote \/ \E p, a \in Nat : x = At(p, a)
          BY DEF Answers
    <2> QED
        BY <2>1, <2>2, <2>3
  <1>3. \A s \in DOMAIN Profile : Told(r[s])
        BY <1>1, <1>2
  <1>4. PICK quotes : quotes = [s \in DOMAIN Profile |-> SourceQuote(s, "BTC", r[s])]
        OBVIOUS
  <1>5. QuotesOfSources(quotes)
        BY <1>3, <1>4, AnswersAreOfSources DEF Told
  <1> QED
      BY <1>1, <1>4, <1>5 DEF Question

LEMMA AnsweringFits ==
  ASSUME NEW p \in Nat, NEW x \in DOMAIN Answering(p), NEW s \in DOMAIN Profile
  PROVE  Told(Answering(p)[x][s])
  <1>1. PICK a, b, d, e, f, g, h, k :
          /\ a = At(p, 800) /\ b = At(p + p \div 100, 10)
          /\ d = At(p, 20) /\ e = At(p + p \div 20, 10)
          /\ f = At(p, 10) /\ g = At(p, 70)
          /\ h = At(p, 30) /\ k = At(p, 121)
        OBVIOUS
  <1>2. PICK o, u, v, w : /\ o = [dia |-> a, coingecko |-> b, coinbase |-> NoQuote, pyth |-> NoQuote]
                          /\ u = [dia |-> d, coingecko |-> NoQuote, coinbase |-> e, pyth |-> NoQuote]
                          /\ v = [dia |-> NoQuote, coingecko |-> NoQuote, coinbase |-> f, pyth |-> g]
                          /\ w = [dia |-> h, coingecko |-> NoQuote, coinbase |-> k, pyth |-> NoQuote]
        OBVIOUS
  <1>3. Answering(p) = [agree |-> o, disagree |-> u, late |-> v, alone |-> w]
        BY <1>1, <1>2 DEF Answering
  <1>4. Answering(p)[x] \in {o, u, v, w}
        BY <1>3
  <1>5. s \in {"dia", "coingecko", "coinbase", "pyth"}
        BY ProfileFits
  <1>6. \A z \in {o, u, v, w} : z[s] \in {NoQuote, a, b, d, e, f, g, h, k}
        BY <1>2, <1>5
  <1>7. p + p \div 100 \in Nat /\ p + p \div 20 \in Nat
        OBVIOUS
  <1>8. \A z \in {NoQuote, a, b, d, e, f, g, h, k} : Told(z)
    <2>1. \A y \in {a, b, d, e, f, g, h, k} : \E i, j \in Nat : y = At(i, j)
          BY <1>1, <1>7
    <2> QED
        BY <2>1, AtIs DEF Told
  <1> QED
      BY <1>4, <1>6, <1>8

LEMMA BookAskedFits ==
  ASSUME NEW m \in BookReads
  PROVE  AnswersFit(m)
  <1>1. PICK high, low, one : high = 10000 /\ low = 50 /\ one = 100
        OBVIOUS
  <1>2. high \in Nat /\ low \in Nat /\ one \in Nat
        BY <1>1
  <1>3. PICK reading, U : /\ reading = m.reading
                          /\ U = [BTC : Reports(high, {"agree", "disagree", "late"}),
                                  STX : Reports(low, {"agree", "alone"}),
                                  USDC : Reports(one, DOMAIN Answering(one)),
                                  USDH : Reports(one, DOMAIN Answering(one))]
        OBVIOUS
  <1>4. reading \in U
        BY <1>1, <1>3 DEF BookReads
  <1>5. \A p : DOMAIN Answering(p) = {"agree", "disagree", "late", "alone"}
        BY DEF Answering
  <1>6. ASSUME NEW p \in Nat, NEW ways \in SUBSET {"agree", "disagree", "late", "alone"},
               NEW r \in Reports(p, ways), NEW s \in DOMAIN Profile
        PROVE  Told(r[s])
    <2>1. PICK w \in DOMAIN Answering(p) : r = Answering(p)[w]
          BY <1>5 DEF Reports
    <2> QED
        BY <2>1, AnsweringFits
  <1>7. /\ DOMAIN reading = {"BTC", "STX", "USDC", "USDH"}
        /\ reading["BTC"] \in Reports(high, {"agree", "disagree", "late"})
        /\ reading["STX"] \in Reports(low, {"agree", "alone"})
        /\ reading["USDC"] \in Reports(one, DOMAIN Answering(one))
        /\ reading["USDH"] \in Reports(one, DOMAIN Answering(one))
        BY <1>3, <1>4
  <1>8. ASSUME NEW s \in DOMAIN Profile
        PROVE  /\ Told(reading["BTC"][s]) /\ Told(reading["STX"][s])
               /\ Told(reading["USDC"][s]) /\ Told(reading["USDH"][s])
        BY <1>2, <1>5, <1>6, <1>7
  <1>9. \A u \in Markets : \A s \in DOMAIN Profile : Told(reading[u][s])
        BY <1>8 DEF Markets
  <1> QED
      BY <1>3, <1>7, <1>9 DEF AnswersFit, Markets, Told

(* Values: the positions that are asked about.                              *)
LEMMA OwningFits ==
  ASSUME NEW shape \in Shapes, NEW state
  PROVE  PositionFits(WithState(shape, state))
  <1>1. \A a, n : Leg(a, n) = [asset |-> a, amount |-> n, value |-> NoValue, trust |-> 0]
        BY DEF Leg
  <1>2. ASSUME NEW a, NEW n \in Nat PROVE MoneyFits(Leg(a, n))
    <2>1. PICK l : l = Leg(a, n)
          OBVIOUS
    <2>2. PICK v : v = NoValue
          OBVIOUS
    <2>3. l = [asset |-> a, amount |-> n, value |-> v, trust |-> 0]
          BY <1>1, <2>1, <2>2
    <2> QED
        BY <2>1, <2>2, <2>3 DEF MoneyFits, ValueFits
  <1>3. \A l : MoneyFits(l) => MoneysFit(<<l>>)
    <2> SUFFICES ASSUME NEW l, MoneyFits(l) PROVE MoneysFit(<<l>>)
        OBVIOUS
    <2>1. DOMAIN <<l>> = {1} /\ <<l>>[1] = l
          OBVIOUS
    <2>2. IsFiniteSet({1})
          BY FS_Singleton
    <2> QED
        BY <2>1, <2>2 DEF MoneysFit
  <1>4. \A k, l : MoneyFits(k) /\ MoneyFits(l) => MoneysFit(<<k, l>>)
    <2> SUFFICES ASSUME NEW k, NEW l, MoneyFits(k), MoneyFits(l) PROVE MoneysFit(<<k, l>>)
        OBVIOUS
    <2>1. DOMAIN <<k, l>> = {1} \cup {2} /\ <<k, l>>[1] = k /\ <<k, l>>[2] = l
          OBVIOUS
    <2>2. IsFiniteSet({1} \cup {2})
          BY FS_Singleton, FS_AddElement
    <2> QED
        BY <2>1, <2>2 DEF MoneysFit
  <1>5. MoneysFit(<<>>)
        BY FS_EmptySet DEF MoneysFit
  <1>6. ASSUME NEW kind, NEW own, NEW owed, NEW spendable, MoneysFit(own), MoneysFit(owed),
               shape = Owning(kind, own, owed, spendable)
        PROVE  PositionFits(WithState(shape, state))
    <2>1. shape = [kind |-> kind, own |-> own, owed |-> owed, spendable |-> spendable]
          BY <1>6 DEF Owning
    <2>2. PICK p : p = WithState(shape, state)
          OBVIOUS
    <2>3. p = [kind |-> kind, own |-> own, owed |-> owed, spendable |-> spendable, state |-> state]
          BY <2>1, <2>2 DEF WithState
    <2> QED
        BY <1>6, <2>2, <2>3 DEF PositionFits
  <1>7. \A a : \A n \in Nat : MoneysFit(<<Leg(a, n)>>)
        BY <1>2, <1>3
  <1>8. \A a, b : \A n, k \in Nat : MoneysFit(<<Leg(a, n), Leg(b, k)>>)
        BY <1>2, <1>4
  <1>9. \/ shape = Owning("wallet", <<Leg("sBTC", 3)>>, <<>>, TRUE)
        \/ shape = Owning("wallet", <<Leg("STX", 700)>>, <<>>, FALSE)
        \/ shape = Owning("wallet", <<Leg("odd", 5)>>, <<>>, TRUE)
        \/ shape = Owning("lending", <<Leg("sBTC", 7)>>, <<Leg("STX", 900)>>, TRUE)
        \/ shape = Owning("lending", <<Leg("sBTC", 7), Leg("STX", 100)>>, <<Leg("odd", 9)>>, TRUE)
        \/ shape = Owning("liquidity", <<Leg("sBTC", 1), Leg("STX", 333)>>, <<>>, TRUE)
        BY ZenonT(40) DEF Shapes
  <1>10. ASSUME NEW own, NEW owed, MoneysFit(own), MoneysFit(owed),
                \E kind, spendable : shape = Owning(kind, own, owed, spendable)
         PROVE  PositionFits(WithState(shape, state))
         BY <1>6, <1>10
  <1>11. CASE shape = Owning("wallet", <<Leg("sBTC", 3)>>, <<>>, TRUE)
         BY <1>5, <1>7, <1>10, <1>11
  <1>12. CASE shape = Owning("wallet", <<Leg("STX", 700)>>, <<>>, FALSE)
    <2>1. PICK n : n = 700
          OBVIOUS
    <2>2. n \in Nat /\ shape = Owning("wallet", <<Leg("STX", n)>>, <<>>, FALSE)
          BY <1>12, <2>1
    <2>3. MoneysFit(<<Leg("STX", n)>>)
          BY <1>7, <2>2
    <2> QED
        BY <1>5, <1>10, <2>2, <2>3
  <1>13. CASE shape = Owning("wallet", <<Leg("odd", 5)>>, <<>>, TRUE)
         BY <1>5, <1>7, <1>10, <1>13
  <1>14. CASE shape = Owning("lending", <<Leg("sBTC", 7)>>, <<Leg("STX", 900)>>, TRUE)
    <2>1. PICK n, k : n = 7 /\ k = 900
          OBVIOUS
    <2>2. /\ n \in Nat /\ k \in Nat
          /\ shape = Owning("lending", <<Leg("sBTC", n)>>, <<Leg("STX", k)>>, TRUE)
          BY <1>14, <2>1
    <2>3. MoneysFit(<<Leg("sBTC", n)>>) /\ MoneysFit(<<Leg("STX", k)>>)
          BY <1>7, <2>2
    <2> QED
        BY <1>10, <2>2, <2>3
  <1>15. CASE shape = Owning("lending", <<Leg("sBTC", 7), Leg("STX", 100)>>, <<Leg("odd", 9)>>, TRUE)
    <2>1. PICK n, k, j : n = 7 /\ k = 100 /\ j = 9
          OBVIOUS
    <2>2. /\ n \in Nat /\ k \in Nat /\ j \in Nat
          /\ shape = Owning("lending", <<Leg("sBTC", n), Leg("STX", k)>>, <<Leg("odd", j)>>, TRUE)
          BY <1>15, <2>1
    <2>3. MoneysFit(<<Leg("sBTC", n), Leg("STX", k)>>) /\ MoneysFit(<<Leg("odd", j)>>)
          BY <1>7, <1>8, <2>2
    <2> QED
        BY <1>10, <2>2, <2>3
  <1>16. CASE shape = Owning("liquidity", <<Leg("sBTC", 1), Leg("STX", 333)>>, <<>>, TRUE)
    <2>1. PICK n, k : n = 1 /\ k = 333
          OBVIOUS
    <2>2. /\ n \in Nat /\ k \in Nat
          /\ shape = Owning("liquidity", <<Leg("sBTC", n), Leg("STX", k)>>, <<>>, TRUE)
          BY <1>16, <2>1
    <2>3. MoneysFit(<<Leg("sBTC", n), Leg("STX", k)>>)
          BY <1>8, <2>2
    <2> QED
        BY <1>5, <1>10, <2>2, <2>3
  <1> QED
      BY <1>9, <1>11, <1>12, <1>13, <1>14, <1>15, <1>16, ZenonT(40)

LEMMA PortfolioAskedFits ==
  ASSUME AskPortfolio
  PROVE  \E ps : question' = <<"portfolio", ps>> /\ ValuedAll(ps)
  <1>1. PICK first \in Shapes, second \in Shapes,
             s \in {"verified", "estimated", "degraded"}, t \in {"verified", "estimated", "degraded"},
             b \in QuotesOf(101), x \in QuotesOf(1) :
          Question("portfolio", <<Enriched(WithState(first, s), [sBTC |-> b, STX |-> x]),
                                  Enriched(WithState(second, t), [sBTC |-> b, STX |-> x])>>)
        BY DEF AskPortfolio
  <1>2. PICK quotes : quotes = [sBTC |-> b, STX |-> x]
        OBVIOUS
  <1>3. PICK p, q : /\ p = Enriched(WithState(first, s), quotes)
                    /\ q = Enriched(WithState(second, t), quotes)
        OBVIOUS
  <1>4. \A price : \A z \in QuotesOf(price) : z.price = price
        BY DEF QuotesOf, QuoteAt
  <1>5. b.price \in Int /\ x.price \in Int
        BY <1>4
  <1>6. QuotesFit(quotes)
        BY <1>2, <1>5 DEF QuotesFit
  <1>7. ValuedFits(p) /\ ValuedFits(q)
        BY <1>3, <1>6, OwningFits, EnrichedIsValued
  <1>8. PICK ps : ps = <<p, q>>
        OBVIOUS
  <1>9. DOMAIN ps = {1} \cup {2} /\ ps[1] = p /\ ps[2] = q
        BY <1>8
  <1>10. IsFiniteSet({1} \cup {2})
        BY FS_Singleton, FS_AddElement
  <1>11. ValuedAll(ps)
        BY <1>7, <1>9, <1>10 DEF ValuedAll
  <1>12. question' = <<"portfolio", ps>>
        BY <1>1, <1>2, <1>3, <1>8 DEF Question
  <1> QED
      BY <1>11, <1>12

(* Prices and values, for every question of the run: the three theorems     *)
(* above, which hold of every set of answers and every portfolio, applied   *)
(* to those that are asked about.                                           *)
THEOREM ValuesHold ==
  Decisions => []ValuesSound
  <1>1. AskNothing => ValuesSound
        BY DEF AskNothing, NotAsked, ValuesSound
  <1>2. ASSUME AskAny PROVE ValuesSound'
    <2>1. ASSUME NEW s, NEW i, question' = <<s, i>>,
                 /\ s = "quorum" => QuorumIsSound(i)
                 /\ s = "book" => TowerIsSound(i)
                 /\ s = "portfolio" => SummaryIsSound(i)
          PROVE  ValuesSound'
      <3>1. question'[1] = s /\ question'[2] = i
            BY <2>1
      <3> QED
          BY <2>1, <3>1 DEF ValuesSound
    <2>2. CASE AskQuorum
      <3>1. PICK quotes : question' = <<"quorum", quotes>> /\ QuotesOfSources(quotes)
            BY <2>2, QuorumAskedFits
      <3>2. QuorumIsSound(quotes)
            BY <3>1, QuorumHolds
      <3> QED
          BY <2>1, <3>1, <3>2
    <2>3. CASE AskBook
      <3>1. PICK m \in BookReads : question' = <<"book", m>>
            BY <2>3 DEF AskBook, Question
      <3>2. TowerIsSound(m)
            BY BookAskedFits, TowerHolds
      <3> QED
          BY <2>1, <3>1, <3>2
    <2>4. CASE AskPortfolio
      <3>1. PICK ps : question' = <<"portfolio", ps>> /\ ValuedAll(ps)
            BY <2>4, PortfolioAskedFits
      <3>2. SummaryIsSound(ps)
            BY <3>1, SummariesAddUp
      <3> QED
          BY <2>1, <3>1, <3>2
    <2>5. ASSUME NEW s, NEW i, question' = <<s, i>>, s \notin {"quorum", "book", "portfolio"}
          PROVE  ValuesSound'
      <3>1. question'[1] = s
            BY <2>5
      <3> QED
          BY <2>5, <3>1 DEF ValuesSound
    <2> QED
        BY <1>2, <2>2, <2>3, <2>4, <2>5, SubjectsAsked DEF AskAny
  <1>3. ValuesSound /\ UNCHANGED question => ValuesSound'
        BY DEF ValuesSound
  <1>4. ValuesSound /\ [AskAny]_question => ValuesSound'
        BY <1>2, <1>3
  <1> QED
      BY <1>1, <1>4, PTL DEF Decisions
=============================================================================
