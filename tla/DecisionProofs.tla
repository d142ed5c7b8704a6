--------------------------- MODULE DecisionProofs ---------------------------
(***************************************************************************)
(* Proofs about decisions that rest on an order and on sums over it: the   *)
(* strategy engine, which spreads capital over the best paid markets, the  *)
(* catalog of the markets it is offered, the history of positions, which   *)
(* shows the newest blocks a canonical chain has left, and the figures of  *)
(* usage, which count every request once in each of their tables.          *)
(*                                                                         *)
(* A list in order is made of places: each element stands where the number *)
(* of those before it puts it.  The first section shows that this is a     *)
(* listing of the set, each element once.                                  *)
(***************************************************************************)
EXTENDS DataProofs

-----------------------------------------------------------------------------
(* Listing.                                                                 *)

(* An order is a set of pairs: nothing precedes itself, of two one precedes *)
(* the other, and what precedes is preceded by all that precedes it.        *)
Orders(R, S) ==
    /\ \A x \in S : <<x, x>> \notin R
    /\ \A x, y \in S : x # y => <<x, y>> \in R \/ <<y, x>> \in R
    /\ \A x, y, z \in S : <<x, y>> \in R /\ <<y, z>> \in R => <<x, z>> \in R

Before(R, S, x) == {y \in S : <<y, x>> \in R}

LEMMA PlacesAreTaken ==
  ASSUME NEW S, IsFiniteSet(S), NEW R, Orders(R, S)
  PROVE  /\ \A x \in S : Cardinality(Before(R, S, x)) \in 0 .. Cardinality(S) - 1
         /\ \A x, y \in S : <<x, y>> \in R =>
              Cardinality(Before(R, S, x)) < Cardinality(Before(R, S, y))
         /\ \A k \in 0 .. Cardinality(S) - 1 : \E x \in S : Cardinality(Before(R, S, x)) = k
  <1>1. IsFiniteSet(S) /\ Cardinality(S) \in Nat
        BY FS_CardinalityType
  <1>2. PICK n : n = Cardinality(S)
        OBVIOUS
  <1>3. PICK below : below = [x \in S |-> Before(R, S, x)]
        OBVIOUS
  <1>4. PICK rank : rank = [x \in S |-> Cardinality(below[x])]
        OBVIOUS
  <1>5. \A x \in S : /\ below[x] \in SUBSET S /\ IsFiniteSet(below[x]) /\ x \notin below[x]
                     /\ rank[x] \in Nat
    <2>1. \A x \in S : below[x] \in SUBSET S /\ x \notin below[x]
          BY <1>3 DEF Before, Orders
    <2> QED
        BY <1>1, <1>4, <2>1, FS_Subset, FS_CardinalityType
  <1>6. \A x \in S : rank[x] \in 0 .. n - 1
    <2> SUFFICES ASSUME NEW x \in S PROVE rank[x] \in 0 .. n - 1
        OBVIOUS
    <2>1. below[x] # S
          BY <1>5
    <2>2. rank[x] <= n /\ rank[x] # n
          BY <1>1, <1>2, <1>4, <1>5, <2>1, FS_Subset
    <2> QED
        BY <1>1, <1>2, <1>5, <2>2
  <1>7. ASSUME NEW x \in S, NEW y \in S, <<x, y>> \in R PROVE rank[x] < rank[y]
    <2>1. below[x] \in SUBSET below[y]
          BY <1>3, <1>7 DEF Before, Orders
    <2>2. x \in below[y] /\ x \notin below[x]
          BY <1>3, <1>5, <1>7 DEF Before
    <2>3. rank[x] <= rank[y] /\ rank[x] # rank[y]
          BY <1>4, <1>5, <2>1, <2>2, FS_Subset
    <2> QED
        BY <1>5, <2>3
  <1>8. \A x, y \in S : x # y => rank[x] # rank[y]
    <2> SUFFICES ASSUME NEW x \in S, NEW y \in S, x # y PROVE rank[x] # rank[y]
        OBVIOUS
    <2>1. <<x, y>> \in R \/ <<y, x>> \in R
          BY DEF Orders
    <2> QED
        BY <1>5, <1>7, <2>1
  <1>9. rank \in [S -> 0 .. n - 1]
        BY <1>4, <1>6
  <1>10. rank \in Injection(S, 0 .. n - 1)
        BY <1>8, <1>9 DEF Injection, IsInjective
  <1>11. IsFiniteSet(0 .. n - 1) /\ Cardinality(0 .. n - 1) = n
    <2>1. n \in Nat /\ 0 \in Int /\ n - 1 \in Int
          BY <1>1, <1>2
    <2>2. IsFiniteSet(0 .. n - 1) /\
          Cardinality(0 .. n - 1) = IF 0 > n - 1 THEN 0 ELSE (n - 1) - 0 + 1
          BY <2>1, FS_Interval
    <2> QED
        BY <2>1, <2>2
  <1>12. rank \in Surjection(S, 0 .. n - 1)
        BY <1>1, <1>2, <1>10, <1>11, FS_Injection
  <1>13. \A k \in 0 .. n - 1 : \E x \in S : rank[x] = k
        BY <1>12 DEF Surjection
  <1>14. \A x \in S : rank[x] = Cardinality(Before(R, S, x))
        BY <1>3, <1>4
  <1> QED
      BY <1>2, <1>6, <1>7, <1>13, <1>14

(* What InOrder lists is each element once, in the order.                   *)
ListsInOrder(f, n, R, S) ==
    /\ f \in [1..n -> S]
    /\ \A x \in S : \E k \in 1..n : f[k] = x
    /\ \A i, j \in 1..n : i < j <=> <<f[i], f[j]>> \in R
    /\ \A i, j \in 1..n : f[i] = f[j] => i = j

LEMMA InOrderLists ==
  ASSUME NEW S, IsFiniteSet(S), NEW R, Orders(R, S)
  PROVE  /\ Cardinality(S) \in Nat
         /\ ListsInOrder(InOrder(S, R), Cardinality(S), R, S)
         /\ \A k \in 1..Cardinality(S) : Cardinality(Before(R, S, InOrder(S, R)[k])) = k - 1
  <1>1. PICK n : n = Cardinality(S)
        OBVIOUS
  <1>2. n \in Nat
        BY <1>1, FS_CardinalityType
  <1>3. PICK rank : rank = [x \in S |-> Cardinality(Before(R, S, x))]
        OBVIOUS
  <1>4. PICK f : f = InOrder(S, R)
        OBVIOUS
  <1>5. /\ \A x \in S : rank[x] \in 0 .. n - 1
        /\ \A x, y \in S : <<x, y>> \in R => rank[x] < rank[y]
        /\ \A k \in 0 .. n - 1 : \E x \in S : rank[x] = k
        BY <1>1, <1>3, PlacesAreTaken
  <1>6. f = [k \in 1..n |-> CHOOSE x \in S : Cardinality(Before(R, S, x)) = k - 1]
        BY <1>1, <1>4 DEF InOrder, Before
  <1>7. ASSUME NEW k \in 1..n PROVE f[k] \in S /\ rank[f[k]] = k - 1
    <2>1. k - 1 \in 0 .. n - 1
          BY <1>2
    <2>2. \E x \in S : Cardinality(Before(R, S, x)) = k - 1
          BY <1>3, <1>5, <2>1
    <2>3. f[k] = CHOOSE x \in S : Cardinality(Before(R, S, x)) = k - 1
          BY <1>6
    <2>4. f[k] \in S /\ Cardinality(Before(R, S, f[k])) = k - 1
          BY <2>2, <2>3
    <2> QED
        BY <1>3, <2>4
  <1>8. \A x, y \in S : x # y => <<x, y>> \in R \/ <<y, x>> \in R
        BY DEF Orders
  <1>9. \A x, y \in S : rank[x] = rank[y] => x = y
    <2> SUFFICES ASSUME NEW x \in S, NEW y \in S, rank[x] = rank[y], x # y PROVE FALSE
        OBVIOUS
    <2>1. rank[x] < rank[y] \/ rank[y] < rank[x]
          BY <1>5, <1>8
    <2>2. rank[x] \in Nat /\ rank[y] \in Nat
          BY <1>2, <1>5
    <2> QED
        BY <2>1, <2>2
  <1>10. f \in [1..n -> S]
         BY <1>6, <1>7
  <1>11. ASSUME NEW x \in S PROVE \E k \in 1..n : f[k] = x
    <2>1. PICK k : k = rank[x] + 1
          OBVIOUS
    <2>2. k \in 1..n /\ k - 1 = rank[x]
          BY <1>2, <1>5, <2>1
    <2>3. f[k] \in S /\ rank[f[k]] = rank[x]
          BY <1>7, <2>2
    <2> QED
        BY <1>9, <2>2, <2>3
  <1>12. ASSUME NEW i \in 1..n, NEW j \in 1..n PROVE i < j <=> <<f[i], f[j]>> \in R
    <2>1. f[i] \in S /\ f[j] \in S /\ rank[f[i]] = i - 1 /\ rank[f[j]] = j - 1
          BY <1>7
    <2>2. i \in Nat /\ j \in Nat
          BY <1>2
    <2>3. CASE i < j
      <3>1. f[i] # f[j] /\ ~(<<f[j], f[i]>> \in R)
            BY <1>5, <2>1, <2>2, <2>3
      <3> QED
          BY <1>8, <2>1, <2>3, <3>1
    <2>4. CASE ~(i < j)
          BY <1>5, <2>1, <2>2, <2>4
    <2> QED
        BY <2>3, <2>4
  <1>13. \A i, j \in 1..n : f[i] = f[j] => i = j
    <2> SUFFICES ASSUME NEW i \in 1..n, NEW j \in 1..n, f[i] = f[j] PROVE i = j
        OBVIOUS
    <2>1. rank[f[i]] = i - 1 /\ rank[f[j]] = j - 1 /\ i \in Nat /\ j \in Nat
          BY <1>2, <1>7
    <2> QED
        BY <2>1
  <1>14. ListsInOrder(f, n, R, S)
         BY <1>10, <1>11, <1>12, <1>13 DEF ListsInOrder
  <1>15. \A k \in 1..n : Cardinality(Before(R, S, f[k])) = k - 1
         BY <1>3, <1>7
  <1> QED
      BY <1>1, <1>2, <1>4, <1>14, <1>15

LEMMA ImageIsFinite ==
  ASSUME NEW S, IsFiniteSet(S), NEW f
  PROVE  /\ IsFiniteSet({f[x] : x \in S})
         /\ Cardinality({f[x] : x \in S}) <= Cardinality(S)
  <1> PICK T : T = {f[x] : x \in S}
      OBVIOUS
  <1> PICK g : g = [x \in S |-> f[x]]
      OBVIOUS
  <1>1. g \in Surjection(S, T)
        BY DEF Surjection
  <1>2. IsFiniteSet(T) /\ Cardinality(T) <= Cardinality(S)
        BY <1>1, FS_Surjection
  <1> QED
      BY <1>2

-----------------------------------------------------------------------------
(* Sums over a list, of all that comes before a place and of what carries   *)
(* one label among it.                                                      *)

(* Sums over a set agree when what is added agrees.                         *)
Summable(v, D) == IsFiniteSet(D) /\ v \in [D -> Int]
AgreeOn(v, w, T) == \A i \in T : v[i] = w[i]

LEMMA SumsAgree ==
  ASSUME NEW D, NEW v, Summable(v, D), NEW E, NEW w, Summable(w, E),
         NEW T, T \subseteq D, T \subseteq E, AgreeOn(v, w, T)
  PROVE  SumFunctionOnSet(v, T) = SumFunctionOnSet(w, T)
  <1> USE DEF Summable, AgreeOn
  <1> DEFINE S == {U \in SUBSET T : SumFunctionOnSet(v, U) = SumFunctionOnSet(w, U)}
  <1>1. {} \in S
        BY SumStep
  <1>2. ASSUME NEW U \in SUBSET T, NEW x \in T \ U, U \in S PROVE U \cup {x} \in S
    <2>1. U \in SUBSET D /\ x \in D \ U /\ U \in SUBSET E /\ x \in E \ U
          OBVIOUS
    <2>2. SumFunctionOnSet(v, U \cup {x}) = SumFunctionOnSet(v, U) + v[x]
          BY <2>1, SumStep
    <2>3. SumFunctionOnSet(w, U \cup {x}) = SumFunctionOnSet(w, U) + w[x]
          BY <2>1, SumStep
    <2> QED
        BY <1>2, <2>2, <2>3
  <1>3. IsFiniteSet(T)
        BY FS_Subset
  <1>4. SUBSET T \subseteq S
    <2> HIDE DEF S
    <2> QED
        BY <1>1, <1>2, <1>3, SubsetInduction
  <1> QED
      BY <1>4

(* Sums over the first k positions, and over those of them that a label     *)
(* names.                                                                   *)
First(v, k) == SumFunctionOnSet(v, 1..k)
Labelled(label, k, p) == {i \in 1..k : label[i] = p}
FirstOf(v, label, k, p) == SumFunctionOnSet(v, Labelled(label, k, p))

SumsStep(v, n, label) ==
    /\ First(v, 0) = 0 /\ \A k \in 0..n : First(v, k) \in Int
    /\ \A k \in 1..n : First(v, k) = First(v, k - 1) + v[k]
    /\ \A p : FirstOf(v, label, 0, p) = 0 /\ \A k \in 0..n : FirstOf(v, label, k, p) \in Int
    /\ \A p : \A k \in 1..n :
         FirstOf(v, label, k, p)
           = IF label[k] = p THEN FirstOf(v, label, k - 1, p) + v[k]
             ELSE FirstOf(v, label, k - 1, p)

LEMMA FirstSteps ==
  ASSUME NEW n \in Nat, NEW v \in [1..n -> Int], NEW label
  PROVE  SumsStep(v, n, label)
  <1>1. IsFiniteSet(1..n)
        BY FS_Interval
  <1>2. /\ SumFunctionOnSet(v, {}) = 0
        /\ \A T \in SUBSET (1..n) :
             /\ SumFunctionOnSet(v, T) \in Int
             /\ \A x \in (1..n) \ T :
                  SumFunctionOnSet(v, T \cup {x}) = SumFunctionOnSet(v, T) + v[x]
        BY <1>1, SumStep
  <1>3. 1..0 = {} /\ \A k \in 0..n : 1..k \in SUBSET (1..n)
        OBVIOUS
  <1>4. \A k \in 1..n : /\ 1..(k - 1) \in SUBSET (1..n) /\ k \in (1..n) \ (1..(k - 1))
                        /\ 1..k = (1..(k - 1)) \cup {k}
        OBVIOUS
  <1>5. First(v, 0) = 0 /\ \A k \in 0..n : First(v, k) \in Int
        BY <1>2, <1>3 DEF First
  <1>6. ASSUME NEW k \in 1..n PROVE First(v, k) = First(v, k - 1) + v[k]
    <2>1. PICK T : T = 1..(k - 1)
          OBVIOUS
    <2>2. T \in SUBSET (1..n) /\ k \in (1..n) \ T /\ 1..k = T \cup {k}
          BY <1>4, <2>1
    <2>3. SumFunctionOnSet(v, T \cup {k}) = SumFunctionOnSet(v, T) + v[k]
          BY <1>2, <2>2
    <2> QED
        BY <2>1, <2>2, <2>3 DEF First
  <1>7. ASSUME NEW p
        PROVE  FirstOf(v, label, 0, p) = 0 /\ \A k \in 0..n : FirstOf(v, label, k, p) \in Int
    <2>1. Labelled(label, 0, p) = {} /\ \A k \in 0..n : Labelled(label, k, p) \in SUBSET (1..n)
          BY DEF Labelled
    <2> QED
        BY <1>2, <2>1 DEF FirstOf
  <1>8. ASSUME NEW p, NEW k \in 1..n
        PROVE  FirstOf(v, label, k, p)
                = IF label[k] = p THEN FirstOf(v, label, k - 1, p) + v[k]
                  ELSE FirstOf(v, label, k - 1, p)
    <2>1. PICK T : T = Labelled(label, k - 1, p)
          OBVIOUS
    <2>2. T \in SUBSET (1..n) /\ k \in (1..n) \ T
          BY <2>1 DEF Labelled
    <2>3. Labelled(label, k, p) = IF label[k] = p THEN T \cup {k} ELSE T
          BY <1>4, <2>1 DEF Labelled
    <2>4. SumFunctionOnSet(v, T \cup {k}) = SumFunctionOnSet(v, T) + v[k]
          BY <1>2, <2>2
    <2> QED
        BY <2>1, <2>3, <2>4 DEF FirstOf
  <1> QED
      BY <1>5, <1>6, <1>7, <1>8 DEF SumsStep

LeastOf(t, a, b, c, d) ==
    /\ t = a \/ t = b \/ t = c \/ t = d
    /\ t <= a /\ t <= b /\ t <= c /\ t <= d

LEMMA LeastOfFour ==
  ASSUME NEW a \in Int, NEW b \in Int, NEW c \in Int, NEW d \in Int
  PROVE  LeastOf(Min({a, b, c, d}), a, b, c, d)
  <1>1. \E m \in {a, b, c, d} : \A z \in {a, b, c, d} : m <= z
    <2>1. PICK x : (x = a \/ x = b) /\ x <= a /\ x <= b
          BY a <= b \/ b <= a
    <2>2. PICK y : (y = c \/ y = d) /\ y <= c /\ y <= d
          BY c <= d \/ d <= c
    <2>3. x \in Int /\ y \in Int
          BY <2>1, <2>2
    <2>4. CASE x <= y
          BY <2>1, <2>2, <2>3, <2>4
    <2>5. CASE y <= x
          BY <2>1, <2>2, <2>3, <2>5
    <2> QED
        BY <2>3, <2>4, <2>5
  <1>2. PICK m : m = Min({a, b, c, d})
        OBVIOUS
  <1>3. m \in {a, b, c, d} /\ \A z \in {a, b, c, d} : m <= z
        BY <1>1, <1>2 DEF Min
  <1> QED
      BY <1>2, <1>3 DEF LeastOf

LEMMA AtLeastZero ==
  ASSUME NEW a \in Nat
  PROVE  Max({0, a}) = a
  <1>1. \A x \in {0, a} : (\A z \in {0, a} : x >= z) => x = a
        OBVIOUS
  <1>2. \E x \in {0, a} : \A z \in {0, a} : x >= z
        OBVIOUS
  <1> QED
      BY <1>1, <1>2 DEF Max

(* YieldAllocation.  Greedy amounts: each takes what the capital, its       *)
(* protocol's share, the share of a market and its own limit leave it.      *)
Left(a, label, c, p, m, limit, k) ==
    {c - First(a, k - 1), p - FirstOf(a, label, k - 1, label[k]), m, limit[k]}
Takes(a, n, label, c, p, m, limit) ==
    /\ a \in [1..n -> Int]
    /\ \A k \in 1..n : a[k] = Max({0, Min(Left(a, label, c, p, m, limit, k))})

(* Each stays in its caps, and reaches one of them.                         *)
TakesAll(a, n, label, c, p, m, limit) ==
    /\ \A k \in 0..n : First(a, k) <= c /\ \A q : FirstOf(a, label, k, q) <= p
    /\ \A k \in 1..n :
         /\ a[k] >= 0 /\ a[k] <= m /\ a[k] <= limit[k]
         /\ \/ First(a, k) = c
            \/ FirstOf(a, label, k, label[k]) = p
            \/ a[k] = m
            \/ a[k] = limit[k]

LEMMA TakesWithinCaps ==
  ASSUME NEW n \in Nat, NEW label, NEW c \in Nat, NEW p \in Nat, NEW m \in Nat,
         NEW limit \in [1..n -> Nat], NEW a, Takes(a, n, label, c, p, m, limit)
  PROVE  TakesAll(a, n, label, c, p, m, limit)
  <1>1. a \in [1..n -> Int] /\ SumsStep(a, n, label)
        BY FirstSteps DEF Takes
  <1> DEFINE InCaps(k) == First(a, k) <= c /\ \A q : FirstOf(a, label, k, q) <= p
             Chosen(k) == /\ a[k] >= 0 /\ a[k] <= m /\ a[k] <= limit[k]
                          /\ \/ First(a, k) = c
                             \/ FirstOf(a, label, k, label[k]) = p
                             \/ a[k] = m
                             \/ a[k] = limit[k]
  <1>2. InCaps(0)
        BY <1>1 DEF SumsStep
  <1>3. ASSUME NEW k \in 1..n, InCaps(k - 1) PROVE InCaps(k) /\ Chosen(k)
    <2>1. PICK x, y, z, l : /\ x = c - First(a, k - 1) /\ y = p - FirstOf(a, label, k - 1, label[k])
                            /\ z = m /\ l = limit[k]
          OBVIOUS
    <2>2. k - 1 \in 0..n /\ First(a, k - 1) \in Int /\ FirstOf(a, label, k - 1, label[k]) \in Int
          BY <1>1 DEF SumsStep
    <2>3. First(a, k - 1) <= c /\ FirstOf(a, label, k - 1, label[k]) <= p
          BY <1>3
    <2>4. x \in Nat /\ y \in Nat /\ z \in Nat /\ l \in Nat
          BY <2>1, <2>2, <2>3, SMTT(30)
    <2>5. a[k] = Max({0, Min({x, y, z, l})})
          BY <2>1 DEF Takes, Left
    <2>6. PICK t : t = Min({x, y, z, l})
          OBVIOUS
    <2>7. t \in {x, y, z, l} /\ t <= x /\ t <= y /\ t <= z /\ t <= l
      <3>1. x \in Int /\ y \in Int /\ z \in Int /\ l \in Int
            BY <2>4
      <3>2. LeastOf(Min({x, y, z, l}), x, y, z, l)
            BY <3>1, LeastOfFour
      <3> QED
          BY <2>6, <3>2 DEF LeastOf
    <2>8. a[k] = t /\ t \in Nat
      <3>1. t \in Nat
            BY <2>4, <2>7
      <3>2. Max({0, t}) = t
            BY <3>1, AtLeastZero
      <3> QED
          BY <2>5, <2>6, <3>1, <3>2
    <2>9. First(a, k) = First(a, k - 1) + t
          BY <1>1, <2>8 DEF SumsStep
    <2>10. FirstOf(a, label, k, label[k]) = FirstOf(a, label, k - 1, label[k]) + t
          BY <1>1, <2>8 DEF SumsStep
    <2>11. First(a, k) <= c /\ FirstOf(a, label, k, label[k]) <= p
          BY <2>1, <2>2, <2>7, <2>8, <2>9, <2>10, SMTT(30)
    <2>12. ASSUME NEW q PROVE FirstOf(a, label, k, q) <= p
      <3>1. CASE label[k] = q
            BY <2>11, <3>1
      <3>2. CASE label[k] # q
        <4>1. FirstOf(a, label, k, q) = FirstOf(a, label, k - 1, q)
              BY <1>1, <3>2 DEF SumsStep
        <4> QED
            BY <1>3, <4>1
      <3> QED
          BY <3>1, <3>2
    <2>13. Chosen(k)
      <3>1. t = x => First(a, k) = c
            BY <2>1, <2>2, <2>9, SMTT(30)
      <3>2. t = y => FirstOf(a, label, k, label[k]) = p
            BY <2>1, <2>2, <2>10
      <3> QED
          BY <2>1, <2>7, <2>8, <3>1, <3>2
    <2> QED
        BY <2>11, <2>12, <2>13
  <1> DEFINE Upto == {k \in Nat : k <= n => InCaps(k)}
  <1>4. \A k \in Nat : k \in Upto => k + 1 \in Upto
    <2> SUFFICES ASSUME NEW k \in Nat, k \in Upto, k + 1 <= n PROVE InCaps(k + 1)
        OBVIOUS
    <2>1. k + 1 \in 1..n /\ (k + 1) - 1 = k /\ InCaps(k)
      <3> HIDE DEF InCaps
      <3> QED
          OBVIOUS
    <2> HIDE DEF InCaps, Chosen
    <2> QED
        BY <1>3, <2>1
  <1>5. Nat \subseteq Upto
    <2>1. 0 \in Upto
          BY <1>2
    <2> HIDE DEF Upto
    <2> QED
        BY <1>4, <2>1, NatSetInduction
  <1>6. \A k \in 0..n : InCaps(k)
    <2> HIDE DEF InCaps
    <2> QED
        BY <1>5
  <1>7. \A k \in 1..n : Chosen(k)
    <2>1. \A k \in 1..n : k - 1 \in 0..n
          OBVIOUS
    <2> HIDE DEF InCaps, Chosen
    <2> QED
        BY <1>3, <1>6, <2>1
  <1> QED
      BY <1>6, <1>7 DEF TakesAll

-----------------------------------------------------------------------------
(* Greedy spreading: whoever takes all the caps leave, from the first place *)
(* on, is never behind anybody who keeps the same caps, and so earns most   *)
(* when the places fall in what they pay.                                   *)

(* Another spread of the capital over the same markets, in the same caps.   *)
KeepsCaps(b, n, label, c, p, m, limit) ==
    /\ b \in [1..n -> Nat]
    /\ \A k \in 1..n :
         /\ First(b, k) <= c /\ FirstOf(b, label, k, label[k]) <= p
         /\ b[k] <= m /\ b[k] <= limit[k]

(* What is larger under every label is larger in all.                       *)
LEMMA LabelsAddUp ==
  ASSUME NEW n \in Nat, NEW label, NEW a \in [1..n -> Int], NEW b \in [1..n -> Int],
         NEW k \in 0..n, \A q : FirstOf(b, label, k, q) <= FirstOf(a, label, k, q)
  PROVE  First(b, k) <= First(a, k)
  <1> DEFINE D == {label[i] : i \in 1..k}
             Under(Q) == {i \in 1..k : label[i] \in Q}
             S == {Q \in SUBSET D :
                     SumFunctionOnSet(b, Under(Q)) <= SumFunctionOnSet(a, Under(Q))}
  <1>1. IsFiniteSet(1..n) /\ IsFiniteSet(1..k)
        BY FS_Interval
  <1>2. IsFiniteSet(D)
    <2>1. PICK f : f = [i \in 1..k |-> label[i]]
          OBVIOUS
    <2>2. D = {f[i] : i \in 1..k}
          BY <2>1
    <2>3. IsFiniteSet({f[i] : i \in 1..k})
          BY <1>1, ImageIsFinite
    <2> HIDE DEF D
    <2> QED
        BY <2>2, <2>3
  <1>3. {} \in S
    <2>1. Under({}) = {}
          OBVIOUS
    <2>2. SumFunctionOnSet(b, {}) = 0 /\ SumFunctionOnSet(a, {}) = 0
          BY <1>1, SumStep
    <2>3. SumFunctionOnSet(b, Under({})) <= SumFunctionOnSet(a, Under({}))
      <3> HIDE DEF Under
      <3>1. SumFunctionOnSet(b, Under({})) = 0 /\ SumFunctionOnSet(a, Under({})) = 0
            BY <2>1, <2>2
      <3> QED
          BY <3>1
    <2> QED
        BY <2>3
  <1>4. ASSUME NEW Q \in SUBSET D, NEW q \in D \ Q, Q \in S PROVE Q \cup {q} \in S
    <2>1. PICK T, U : T = Under(Q) /\ U = Labelled(label, k, q)
          OBVIOUS
    <2>2. /\ T \in SUBSET (1..n) /\ U \in SUBSET (1..n) /\ T \cap U = {}
          /\ Under(Q \cup {q}) = T \cup U
          BY <2>1 DEF Labelled
    <2>3. PICK x, y, z : /\ x = SumFunctionOnSet(b, T) /\ y = SumFunctionOnSet(b, U)
                         /\ z = SumFunctionOnSet(b, T \cup U)
          OBVIOUS
    <2>4. PICK u, v, w : /\ u = SumFunctionOnSet(a, T) /\ v = SumFunctionOnSet(a, U)
                         /\ w = SumFunctionOnSet(a, T \cup U)
          OBVIOUS
    <2>5. z = x + y /\ w = u + v
          BY <1>1, <2>2, <2>3, <2>4, TotalsJoin, SMTT(30)
    <2>6. x \in Int /\ y \in Int /\ u \in Int /\ v \in Int
          BY <1>1, <2>2, <2>3, <2>4, SumStep
    <2>7. x <= u
          BY <1>4, <2>1, <2>3, <2>4
    <2>8. y <= v
          BY <2>1, <2>3, <2>4 DEF FirstOf
    <2>9. z <= w
          BY <2>5, <2>6, <2>7, <2>8
    <2> QED
        BY <2>2, <2>3, <2>4, <2>9
  <1>5. SUBSET D \subseteq S
    <2> HIDE DEF S, D
    <2> QED
        BY <1>2, <1>3, <1>4, SubsetInduction
  <1>6. D \in SUBSET D /\ Under(D) = 1..k
        OBVIOUS
  <1> QED
      BY <1>5, <1>6 DEF First

(* Greedy amounts put into the first markets at least what any other keeps  *)
(* the caps with: as long as there is capital left, under every label.      *)
LEMMA GreedyIsAhead ==
  ASSUME NEW n \in Nat, NEW label, NEW c \in Nat, NEW p \in Nat, NEW m \in Nat,
         NEW limit \in [1..n -> Nat], NEW a, Takes(a, n, label, c, p, m, limit),
         NEW b, KeepsCaps(b, n, label, c, p, m, limit)
  PROVE  \A k \in 0..n : First(b, k) <= First(a, k)
  <1>1. a \in [1..n -> Int] /\ b \in [1..n -> Int]
        BY DEF Takes, KeepsCaps
  <1>2. SumsStep(a, n, label) /\ SumsStep(b, n, label)
        BY <1>1, FirstSteps
  <1>3. TakesAll(a, n, label, c, p, m, limit)
        BY TakesWithinCaps
  <1> DEFINE Ahead(k) == \/ First(a, k) = c
                         \/ \A q : FirstOf(b, label, k, q) <= FirstOf(a, label, k, q)
  <1>4. Ahead(0)
    <2>1. \A q : FirstOf(a, label, 0, q) = 0 /\ FirstOf(b, label, 0, q) = 0
          BY <1>2 DEF SumsStep
    <2> QED
        BY <2>1
  <1>5. ASSUME NEW k \in 1..n, Ahead(k - 1) PROVE Ahead(k)
    <2>1. k - 1 \in 0..n /\ k \in 0..n
          OBVIOUS
    <2>2. PICK x, y, d : x = First(a, k - 1) /\ y = First(a, k) /\ d = a[k]
          OBVIOUS
    <2>3. x \in Int /\ d \in Int /\ y = x + d /\ y <= c /\ d >= 0
          BY <1>1, <1>2, <1>3, <2>1, <2>2 DEF SumsStep, TakesAll
    <2>4. CASE x = c
          BY <2>2, <2>3, <2>4, SMTT(30)
    <2>5. CASE x # c /\ y # c
      <3>1. \A q : FirstOf(b, label, k - 1, q) <= FirstOf(a, label, k - 1, q)
            BY <1>5, <2>2, <2>5
      <3>2. FirstOf(b, label, k, label[k]) <= FirstOf(a, label, k, label[k])
        <4>1. PICK u, v, e : /\ u = FirstOf(a, label, k - 1, label[k])
                             /\ v = FirstOf(b, label, k - 1, label[k]) /\ e = b[k]
              OBVIOUS
        <4>2. u \in Int /\ v \in Int /\ e \in Int /\ v <= u
              BY <1>1, <1>2, <2>1, <3>1, <4>1 DEF SumsStep
        <4>3. FirstOf(a, label, k, label[k]) = u + d /\ FirstOf(b, label, k, label[k]) = v + e
              BY <1>2, <2>2, <4>1 DEF SumsStep
        <4>4. CASE d = m \/ d = limit[k]
          <5>1. e <= m /\ e <= limit[k]
                BY <4>1 DEF KeepsCaps
          <5> QED
              BY <2>3, <4>2, <4>3, <4>4, <5>1
        <4>5. CASE FirstOf(a, label, k, label[k]) = p
          <5>1. FirstOf(b, label, k, label[k]) <= p
                BY DEF KeepsCaps
          <5> QED
              BY <4>5, <5>1
        <4> QED
            BY <1>3, <2>2, <2>5, <4>4, <4>5 DEF TakesAll
      <3>3. ASSUME NEW q PROVE FirstOf(b, label, k, q) <= FirstOf(a, label, k, q)
        <4>1. CASE label[k] = q
              BY <3>2, <4>1
        <4>2. CASE label[k] # q
          <5>1. /\ FirstOf(b, label, k, q) = FirstOf(b, label, k - 1, q)
                /\ FirstOf(a, label, k, q) = FirstOf(a, label, k - 1, q)
                BY <1>2, <4>2 DEF SumsStep
          <5> QED
              BY <3>1, <5>1
        <4> QED
            BY <4>1, <4>2
      <3> QED
          BY <3>3
    <2>6. CASE y = c
          BY <2>2, <2>6
    <2> QED
        BY <2>4, <2>5, <2>6
  <1> DEFINE Upto == {k \in Nat : k <= n => Ahead(k)}
  <1>6. ASSUME NEW k \in Nat, k \in Upto PROVE k + 1 \in Upto
    <2> SUFFICES ASSUME k + 1 <= n PROVE Ahead(k + 1)
        OBVIOUS
    <2>1. k + 1 \in 1..n /\ (k + 1) - 1 = k /\ Ahead(k)
      <3> HIDE DEF Ahead
      <3> QED
          BY <1>6
    <2> HIDE DEF Ahead
    <2> QED
        BY <1>5, <2>1
  <1>7. Nat \subseteq Upto
    <2>1. 0 \in Upto
          BY <1>4
    <2> HIDE DEF Upto
    <2> QED
        BY <1>6, <2>1, NatSetInduction
  <1>8. ASSUME NEW k \in 0..n PROVE First(b, k) <= First(a, k)
    <2>1. Ahead(k)
      <3> HIDE DEF Ahead
      <3> QED
          BY <1>7
    <2>2. First(b, k) <= c
      <3>1. CASE k = 0
            BY <1>2, <3>1 DEF SumsStep
      <3>2. CASE k # 0
            BY <3>2 DEF KeepsCaps
      <3> QED
          BY <3>1, <3>2
    <2>3. CASE First(a, k) = c
          BY <2>2, <2>3
    <2>4. CASE \A q : FirstOf(b, label, k, q) <= FirstOf(a, label, k, q)
          BY <1>1, <2>4, LabelsAddUp
    <2> QED
        BY <2>1, <2>3, <2>4
  <1> QED
      BY <1>8

(* Amounts that are ahead at every place earn more, at rates that fall.     *)
Worth(v, r, n) == [i \in 1..n |-> v[i] * r[i]]

LEMMA RateTimesLead ==
  ASSUME NEW s \in Nat, NEW r \in Nat, s <= r, NEW lead \in Nat, NEW more \in Int,
         lead + more >= 0, NEW gain \in Int, r * lead <= gain
  PROVE  s * (lead + more) <= gain + r * more
  <1>1. PICK t \in Nat : t = lead + more
        OBVIOUS
  <1>2. s * t <= r * t
        BY <1>1
  <1>3. r * t = r * lead + r * more
        BY <1>1
  <1> QED
      BY <1>1, <1>2, <1>3

LEMMA AheadEarnsMore ==
  ASSUME NEW n \in Nat, NEW r \in [1..n -> Nat], \A i, j \in 1..n : i < j => r[j] <= r[i],
         NEW a \in [1..n -> Int], NEW b \in [1..n -> Int],
         \A k \in 0..n : First(b, k) <= First(a, k)
  PROVE  First(Worth(b, r, n), n) <= First(Worth(a, r, n), n)
  <1>1. PICK v, w : v = Worth(a, r, n) /\ w = Worth(b, r, n)
        OBVIOUS
  <1>2. v \in [1..n -> Int] /\ w \in [1..n -> Int]
        BY <1>1, SMTT(30) DEF Worth
  <1>3. PICK label : label = r
        OBVIOUS
  <1>4. /\ SumsStep(a, n, label) /\ SumsStep(b, n, label)
        /\ SumsStep(v, n, label) /\ SumsStep(w, n, label)
        BY <1>2, FirstSteps
  <1> DEFINE Lead(k) == First(a, k) - First(b, k)
             Gain(k) == First(v, k) - First(w, k)
             Earns(k) == \A s \in Nat : (k > 0 => s <= r[k]) => s * Lead(k) <= Gain(k)
  <1>5. Earns(0)
        BY <1>4 DEF SumsStep
  <1>6. ASSUME NEW k \in 1..n, Earns(k - 1) PROVE Earns(k)
    <2> SUFFICES ASSUME NEW s \in Nat, s <= r[k] PROVE s * Lead(k) <= Gain(k)
        OBVIOUS
    <2>1. k - 1 \in 0..n /\ k \in 0..n
          OBVIOUS
    <2>2. PICK lead, more, gain : lead = Lead(k - 1) /\ more = a[k] - b[k] /\ gain = Gain(k - 1)
          OBVIOUS
    <2>3. lead \in Nat /\ Lead(k) = lead + more /\ lead + more >= 0 /\ more \in Int
      <3>1. PICK x, y, u, z : /\ x = First(a, k - 1) /\ y = First(b, k - 1)
                              /\ u = First(a, k) /\ z = First(b, k)
            OBVIOUS
      <3>2. x \in Int /\ y \in Int /\ u = x + a[k] /\ z = y + b[k]
            BY <1>4, <2>1, <3>1 DEF SumsStep
      <3>3. y <= x /\ z <= u
            BY <2>1, <3>1
      <3>4. lead = x - y /\ Lead(k) = u - z
            BY <2>2, <3>1
      <3>5. PICK f, g : f = a[k] /\ g = b[k]
            OBVIOUS
      <3>6. f \in Int /\ g \in Int /\ u = x + f /\ z = y + g /\ more = f - g
            BY <2>2, <3>2, <3>5
      <3>7. lead \in Nat /\ u - z = lead + more /\ lead + more >= 0 /\ more \in Int
            BY <3>2, <3>3, <3>4, <3>6
      <3> QED
          BY <3>4, <3>7
    <2>4. gain \in Int /\ Gain(k) = gain + r[k] * more
      <3>1. PICK x, y, u, z : /\ x = First(v, k - 1) /\ y = First(w, k - 1)
                              /\ u = First(v, k) /\ z = First(w, k)
            OBVIOUS
      <3>2. x \in Int /\ y \in Int /\ u = x + v[k] /\ z = y + w[k]
            BY <1>4, <2>1, <3>1 DEF SumsStep
      <3>3. v[k] = a[k] * r[k] /\ w[k] = b[k] * r[k]
            BY <1>1 DEF Worth
      <3>4. v[k] - w[k] = r[k] * more /\ v[k] \in Int /\ w[k] \in Int
        <4>1. a[k] \in Int /\ b[k] \in Int /\ r[k] \in Int
              OBVIOUS
        <4> QED
            BY <1>2, <2>2, <3>3, <4>1
      <3>5. gain = x - y /\ Gain(k) = u - z
            BY <2>2, <3>1
      <3>6. PICK e, f, g : e = r[k] * more /\ f = v[k] /\ g = w[k]
            OBVIOUS
      <3>7. u - z = (x - y) + e /\ x - y \in Int
        <4>1. x \in Int /\ y \in Int /\ u = x + f /\ z = y + g
              BY <3>2, <3>6
        <4>2. f \in Int /\ g \in Int /\ f - g = e
              BY <3>4, <3>6
        <4> QED
            BY <4>1, <4>2
      <3> HIDE DEF Gain
      <3> QED
          BY <3>5, <3>6, <3>7
    <2>5. r[k] * lead <= gain
      <3>1. k - 1 > 0 => r[k] <= r[k - 1]
            OBVIOUS
      <3>2. r[k] \in Nat
            OBVIOUS
      <3>3. r[k] * Lead(k - 1) <= Gain(k - 1)
            BY <1>6, <3>1, <3>2
      <3> QED
          BY <2>2, <3>3
    <2>6. s * (lead + more) <= gain + r[k] * more
      <3>1. r[k] \in Nat
            OBVIOUS
      <3> HIDE DEF Lead, Gain
      <3> QED
          BY <2>3, <2>4, <2>5, <3>1, RateTimesLead
    <2> HIDE DEF Lead, Gain
    <2> QED
        BY <2>3, <2>4, <2>6
  <1> DEFINE Upto == {k \in Nat : k <= n => Earns(k)}
  <1>7. ASSUME NEW k \in Nat, k \in Upto PROVE k + 1 \in Upto
    <2> SUFFICES ASSUME k + 1 <= n PROVE Earns(k + 1)
        OBVIOUS
    <2>1. k + 1 \in 1..n /\ (k + 1) - 1 = k /\ Earns(k)
      <3> HIDE DEF Earns
      <3> QED
          BY <1>7
    <2> HIDE DEF Earns
    <2> QED
        BY <1>6, <2>1
  <1>8. Nat \subseteq Upto
    <2>1. 0 \in Upto
      <3> HIDE DEF Earns
      <3> QED
          BY <1>5
    <2> HIDE DEF Upto
    <2> QED
        BY <1>7, <2>1, NatSetInduction
  <1>9. Earns(n)
    <2> HIDE DEF Earns
    <2> QED
        BY <1>8
  <1>10. 0 <= Gain(n)
    <2>1. 0 \in Nat /\ (n > 0 => 0 <= r[n])
          OBVIOUS
    <2>2. 0 * Lead(n) <= Gain(n)
          BY <1>9, <2>1
    <2>3. Lead(n) \in Int
          BY <1>4 DEF SumsStep
    <2> HIDE DEF Lead, Gain
    <2> QED
        BY <2>2, <2>3
  <1>11. First(v, n) \in Int /\ First(w, n) \in Int
         BY <1>4 DEF SumsStep
  <1> QED
      BY <1>1, <1>10, <1>11

-----------------------------------------------------------------------------
(* YieldAllocation.  What a plan puts into each market.                     *)

(* What the next market takes, after the amounts of those before it.        *)
Taken(ms, capital, acc, i) ==
    Max({0, Min({
        capital - Total(acc),
        Part(capital, ProtocolShare(ms)) - InProtocol(ms, acc, ms[i].protocol),
        Part(capital, MarketShare(ms)), PoolLimit(capital, ms[i])})})
MarketsFit(ms, n, capital) ==
    /\ n \in Nat /\ DOMAIN ms = 1..n /\ Len(ms) = n
    /\ capital \in Nat /\ \A i \in 1..n : PoolLimit(capital, ms[i]) \in Nat

LEMMA AtLeastZeroIsInt ==
  ASSUME NEW t \in Int
  PROVE  Max({0, t}) \in Int
  <1>1. PICK m : m = IF t >= 0 THEN t ELSE 0
        OBVIOUS
  <1>2. m \in {0, t} /\ \A z \in {0, t} : m >= z
        BY <1>1
  <1>3. Max({0, t}) \in {0, t}
        BY <1>2 DEF Max
  <1> QED
      BY <1>3

LEMMA PartOf ==
  ASSUME NEW capital \in Nat, NEW share \in Nat
  PROVE  Part(capital, share) \in Nat
  <1>1. PICK n : n = HundredPercent
        OBVIOUS
  <1>2. n \in Nat \ {0} /\ capital * share \in Nat
        BY <1>1 DEF HundredPercent
  <1>3. (capital * share) \div n \in Nat
        BY <1>2, Quotient
  <1> QED
      BY <1>1, <1>3 DEF Part

LEMMA SharesOf ==
  ASSUME NEW ms
  PROVE  ProtocolShare(ms) \in Nat /\ MarketShare(ms) \in Nat
  BY DEF ProtocolShare, MarketShare, HundredPercent

LEMMA TotalIs ==
  ASSUME NEW n \in Nat, NEW v \in [1..n -> Int], NEW ms, NEW q
  PROVE  /\ Total(v) = SumFunctionOnSet(v, 1..n) /\ Total(v) \in Int
         /\ InProtocol(ms, v, q) = SumFunctionOnSet(v, {i \in 1..n : ms[i].protocol = q})
         /\ InProtocol(ms, v, q) \in Int
  <1>1. IsFiniteSet(1..n) /\ DOMAIN v = 1..n
        BY FS_Interval
  <1>2. \A T \in SUBSET (1..n) : SumFunctionOnSet(v, T) \in Int
        BY <1>1, SumStep
  <1>3. Total(v) = SumFunctionOnSet(v, 1..n)
        BY <1>1, Zenon DEF Total, SumFunction, SumFunctionOnSet, FoldFunction
  <1>4. InProtocol(ms, v, q) = SumFunctionOnSet(v, {i \in 1..n : ms[i].protocol = q})
        BY <1>1 DEF InProtocol
  <1>5. 1..n \in SUBSET (1..n) /\ {i \in 1..n : ms[i].protocol = q} \in SUBSET (1..n)
        OBVIOUS
  <1> QED
      BY <1>2, <1>3, <1>4, <1>5

LEMMA TakenIsInt ==
  ASSUME NEW n, NEW ms, NEW capital, MarketsFit(ms, n, capital), NEW i \in 1..n,
         NEW acc \in Seq(Int)
  PROVE  Taken(ms, capital, acc, i) \in Int
  <1>1. Len(acc) \in Nat /\ acc \in [1..Len(acc) -> Int]
        OBVIOUS
  <1>2. PICK x, y, z, l : /\ x = capital - Total(acc)
                          /\ y = Part(capital, ProtocolShare(ms))
                                  - InProtocol(ms, acc, ms[i].protocol)
                          /\ z = Part(capital, MarketShare(ms)) /\ l = PoolLimit(capital, ms[i])
        OBVIOUS
  <1>3. Total(acc) \in Int /\ InProtocol(ms, acc, ms[i].protocol) \in Int
        BY <1>1, TotalIs
  <1>4. capital \in Nat /\ l \in Nat
        BY <1>2 DEF MarketsFit
  <1>5. Part(capital, ProtocolShare(ms)) \in Nat /\ z \in Nat
        BY <1>2, <1>4, SharesOf, PartOf
  <1>6. x \in Int /\ y \in Int /\ z \in Int /\ l \in Int
        BY <1>2, <1>3, <1>4, <1>5, SMTT(30)
  <1>7. PICK t : t = Min({x, y, z, l})
        OBVIOUS
  <1>8. t \in Int
    <2>1. LeastOf(Min({x, y, z, l}), x, y, z, l)
          BY <1>6, LeastOfFour
    <2> QED
        BY <1>6, <1>7, <2>1 DEF LeastOf
  <1>9. Taken(ms, capital, acc, i) = Max({0, t})
        BY <1>2, <1>7 DEF Taken
  <1> QED
      BY <1>8, <1>9, AtLeastZeroIsInt

(* The amounts are the last of a run that grows by one at a time.           *)
GrowsTo(r, ms, capital, n) ==
    /\ r \in [0..n -> Seq(Int)] /\ r[0] = <<>>
    /\ \A k \in 1..n : r[k] = Append(r[k - 1], Taken(ms, capital, r[k - 1], k))

LEMMA AmountsGrow ==
  ASSUME NEW n, NEW ms, NEW capital, MarketsFit(ms, n, capital)
  PROVE  \E r : GrowsTo(r, ms, capital, n) /\ Amounts(ms, capital) = r[n]
  <1> DEFINE D == DOMAIN ms
             iter[t \in SUBSET D] ==
                IF t = {} THEN <<>>
                ELSE LET x == Max(t) IN
                  Append(iter[t \ {x}], Taken(ms, capital, iter[t \ {x}], x))
             step == [q \in (1..n) \X Seq(Int) |-> Append(q[2], Taken(ms, capital, q[2], q[1]))]
  <1>1. Amounts(ms, capital) = iter[D]
        BY Zenon DEF Amounts, FoldLeft, MapThenFoldSet, Taken
  <1>2. D = 1..n /\ n \in Nat
        BY DEF MarketsFit
  <1>3. StepsOn(step, n, Seq(Int))
    <2>1. ASSUME NEW i \in 1..n, NEW acc \in Seq(Int)
          PROVE  Append(acc, Taken(ms, capital, acc, i)) \in Seq(Int)
      <3>1. Taken(ms, capital, acc, i) \in Int
            BY TakenIsInt, SMTT(30)
      <3> QED
          BY <3>1
    <2> QED
        BY <2>1 DEF StepsOn
  <1>4. iter = [t \in SUBSET D |->
                IF t = {} THEN <<>>
                ELSE LET x == Max(t) IN
                  Append(iter[t \ {x}], Taken(ms, capital, iter[t \ {x}], x))]
    <2>1. PICK g \in [SUBSET D -> Seq(Int)] : \A t \in SUBSET D :
            g[t] = IF t = {} THEN <<>> ELSE step[<<Max(t), g[t \ {Max(t)}]>>]
      <3> HIDE DEF step, iter
      <3>1. <<>> \in Seq(Int)
            OBVIOUS
      <3>2. PICK g \in [SUBSET (1..n) -> Seq(Int)] : FoldedOver(g, n, <<>>, step)
            BY <1>2, <1>3, <3>1, FoldsOverPositions
      <3> HIDE DEF D
      <3> QED
          BY <1>2, <3>2 DEF FoldedOver
    <2>2. \A t \in SUBSET D : t # {} => Max(t) \in D
      <3> HIDE DEF step, iter
      <3>1. IsFiniteSet(D) /\ D \subseteq Nat
            BY <1>2, FS_Interval
      <3> HIDE DEF D
      <3> QED
          BY <3>1, FS_Subset, GreatestOfFinite
    <2>3. \A t \in SUBSET D : t # {} =>
            step[<<Max(t), g[t \ {Max(t)}]>>]
              = Append(g[t \ {Max(t)}], Taken(ms, capital, g[t \ {Max(t)}], Max(t)))
          BY <1>2, <2>1, <2>2
    <2>4. g = [t \in SUBSET D |->
                IF t = {} THEN <<>>
                ELSE LET x == Max(t) IN
                  Append(g[t \ {x}], Taken(ms, capital, g[t \ {x}], x))]
      <3> HIDE DEF step
      <3> QED
          BY <2>1, <2>3
    <2> QED
        BY <2>4
  <1> HIDE DEF iter
  <1>5. iter[1..0] = <<>>
        BY <1>4
  <1>6. ASSUME NEW k \in 1..n, iter[1..(k - 1)] \in Seq(Int)
        PROVE  iter[1..k] = step[<<k, iter[1..(k - 1)]>>]
    <2>1. k \in Nat \ {0} /\ k <= n
          BY <1>2
    <2>2. 1..k \in SUBSET D
          BY <1>2, <2>1
    <2>3. 1..k # {} /\ (1..k) \ {k} = 1..(k - 1)
          BY <2>1, AllButLast
    <2>4. Max(1..k) = k
          BY <2>1, LastOfInterval
    <2>5. iter[1..k] = Append(iter[1..(k - 1)], Taken(ms, capital, iter[1..(k - 1)], k))
          BY <1>4, <2>2, <2>3, <2>4
    <2> QED
        BY <1>6, <2>5
  <1>7. StepsIn(iter, n, Seq(Int), <<>>, step)
    <2> HIDE DEF step
    <2> QED
        BY <1>5, <1>6 DEF StepsIn
  <1>8. PICK r : RunsFrom(r, n, Seq(Int), <<>>, step) /\ r[n] = iter[1..n]
    <2> HIDE DEF step, D
    <2>1. PICK base, V : base = <<>> /\ V = Seq(Int)
          OBVIOUS
    <2>2. base \in V /\ StepsOn(step, n, V) /\ StepsIn(iter, n, V, base, step)
          BY <1>3, <1>7, <2>1
    <2>3. \E r : RunsFrom(r, n, V, base, step) /\ r[n] = iter[1..n]
          BY <1>2, <2>2, RunOfFold
    <2> QED
        BY <2>1, <2>3
  <1>9. \A k \in 1..n : k - 1 \in 0..n
        BY <1>2
  <1>10. r \in [0..n -> Seq(Int)] /\ r[0] = <<>>
         BY <1>8 DEF RunsFrom
  <1>11. \A k \in 1..n : r[k] = Append(r[k - 1], Taken(ms, capital, r[k - 1], k))
         BY <1>8, <1>9, <1>10 DEF RunsFrom
  <1> HIDE DEF step
  <1> QED
      BY <1>1, <1>2, <1>8, <1>10, <1>11 DEF GrowsTo

(* What was put into the first markets stays as more are reached.           *)
LEMMA GrowthKeeps ==
  ASSUME NEW n \in Nat, NEW ms, NEW capital, NEW r, GrowsTo(r, ms, capital, n)
  PROVE  \A k \in 0..n : /\ r[k] \in [1..k -> Int]
                         /\ \A j \in k..n : \A i \in 1..k : r[j][i] = r[k][i]
  <1>1. /\ \A k \in 0..n : r[k] \in Seq(Int)
        /\ r[0] = <<>> /\ \A k \in 1..n : k - 1 \in 0..n
        /\ \A k \in 1..n : r[k] = Append(r[k - 1], Taken(ms, capital, r[k - 1], k))
    <2>1. \A k \in 1..n : k - 1 \in 0..n
          OBVIOUS
    <2> QED
        BY <2>1 DEF GrowsTo
  <1> DEFINE Sized == {k \in Nat : k <= n => Len(r[k]) = k}
  <1>2. 0 \in Sized
        BY <1>1
  <1>3. ASSUME NEW k \in Nat, k \in Sized PROVE k + 1 \in Sized
    <2> SUFFICES ASSUME k + 1 <= n PROVE Len(r[k + 1]) = k + 1
        OBVIOUS
    <2>1. k + 1 \in 1..n /\ (k + 1) - 1 = k /\ k \in 0..n /\ Len(r[k]) = k
          BY <1>3
    <2>2. r[k + 1] = Append(r[k], Taken(ms, capital, r[k], k + 1))
          BY <1>1, <2>1
    <2>3. r[k] \in Seq(Int)
          BY <1>1, <2>1
    <2> QED
        BY <2>1, <2>2, <2>3
  <1>4. Nat \subseteq Sized
    <2> HIDE DEF Sized
    <2> QED
        BY <1>2, <1>3, NatSetInduction
  <1>5. \A k \in 0..n : Len(r[k]) = k /\ r[k] \in [1..k -> Int]
    <2> SUFFICES ASSUME NEW k \in 0..n PROVE Len(r[k]) = k /\ r[k] \in [1..k -> Int]
        OBVIOUS
    <2>1. Len(r[k]) = k /\ r[k] \in Seq(Int)
          BY <1>1, <1>4
    <2> QED
        BY <2>1
  <1>6. ASSUME NEW k \in 0..n
        PROVE  \A j \in k..n : \A i \in 1..k : r[j][i] = r[k][i]
    <2> DEFINE Stay == {j \in Nat : k <= j /\ j <= n => \A i \in 1..k : r[j][i] = r[k][i]}
    <2>1. 0 \in Stay
      <3>1. k <= 0 => k = 0
            OBVIOUS
      <3> QED
          BY <3>1
    <2>2. ASSUME NEW j \in Nat, j \in Stay PROVE j + 1 \in Stay
      <3> SUFFICES ASSUME k <= j + 1, j + 1 <= n, NEW i \in 1..k PROVE r[j + 1][i] = r[k][i]
          OBVIOUS
      <3>1. CASE k = j + 1
            BY <3>1
      <3>2. CASE k <= j
        <4>1. j + 1 \in 1..n /\ (j + 1) - 1 = j /\ j \in 0..n /\ r[j][i] = r[k][i]
              BY <2>2, <3>2
        <4>2. r[j + 1] = Append(r[j], Taken(ms, capital, r[j], j + 1))
              BY <1>1, <4>1
        <4>3. r[j] \in Seq(Int) /\ Len(r[j]) = j /\ i \in 1..j
              BY <1>1, <1>5, <3>2, <4>1
        <4>4. r[j + 1][i] = r[j][i]
              BY <4>2, <4>3
        <4> QED
            BY <4>1, <4>4
      <3> QED
          BY <3>1, <3>2
    <2>3. Nat \subseteq Stay
      <3> HIDE DEF Stay
      <3> QED
          BY <2>1, <2>2, NatSetInduction
    <2> QED
        BY <2>3
  <1> QED
      BY <1>5, <1>6

(* The amounts are greedy.                                                  *)
LabelsOf(ms, n) == [i \in 1..n |-> ms[i].protocol]
LimitsOf(ms, n, capital) == [i \in 1..n |-> PoolLimit(capital, ms[i])]

LEMMA AmountsAre ==
  ASSUME NEW n, NEW ms, NEW capital, MarketsFit(ms, n, capital)
  PROVE  Takes(Amounts(ms, capital), n, LabelsOf(ms, n), capital,
               Part(capital, ProtocolShare(ms)), Part(capital, MarketShare(ms)),
               LimitsOf(ms, n, capital))
  <1>1. PICK r : GrowsTo(r, ms, capital, n) /\ Amounts(ms, capital) = r[n]
        BY AmountsGrow
  <1>2. PICK a : a = Amounts(ms, capital)
        OBVIOUS
  <1>3. n \in Nat
        BY DEF MarketsFit
  <1>4. \A k \in 0..n : /\ r[k] \in [1..k -> Int]
                        /\ \A j \in k..n : \A i \in 1..k : r[j][i] = r[k][i]
        BY <1>1, <1>3, GrowthKeeps
  <1>5. a \in [1..n -> Int] /\ \A k \in 0..n : \A i \in 1..k : a[i] = r[k][i]
    <2>1. n \in 0..n /\ \A k \in 0..n : n \in k..n
          BY <1>3
    <2>2. a = r[n] /\ r[n] \in [1..n -> Int]
          BY <1>1, <1>2, <1>4, <2>1
    <2>3. \A k \in 0..n : \A i \in 1..k : r[n][i] = r[k][i]
          BY <1>4, <2>1
    <2> QED
        BY <2>2, <2>3
  <1>6. ASSUME NEW k \in 1..n
        PROVE  a[k] = Max({0, Min(Left(a, LabelsOf(ms, n), capital,
                                       Part(capital, ProtocolShare(ms)),
                                       Part(capital, MarketShare(ms)), LimitsOf(ms, n, capital),
                                       k))})
    <2>1. PICK acc, h, q : acc = r[k - 1] /\ h = k - 1 /\ q = ms[k].protocol
          OBVIOUS
    <2>2. h \in 0..n /\ h \in Nat /\ k \in 0..n /\ k = h + 1
          BY <1>3, <2>1
    <2>3. acc \in [1..h -> Int] /\ \A i \in 1..h : a[i] = acc[i]
          BY <1>4, <1>5, <2>1, <2>2
    <2>4. a[k] = Taken(ms, capital, acc, k)
      <3>1. r[k] = Append(acc, Taken(ms, capital, acc, k))
            BY <1>1, <2>1 DEF GrowsTo
      <3>2. Len(acc) = h /\ acc \in Seq(Int)
            BY <2>2, <2>3
      <3>3. r[k][k] = Taken(ms, capital, acc, k)
            BY <2>2, <3>1, <3>2
      <3> QED
          BY <1>5, <2>2, <3>3
    <2>5. IsFiniteSet(1..n) /\ IsFiniteSet(1..h)
          BY <1>3, <2>2, FS_Interval
    <2>6. \A T \in SUBSET (1..h) : SumFunctionOnSet(acc, T) = SumFunctionOnSet(a, T)
      <3>1. PICK D, E : /\ D = 1..h /\ E = 1..n
                        /\ Summable(acc, D) /\ Summable(a, E) /\ AgreeOn(acc, a, D)
            BY <1>5, <2>3, <2>5 DEF Summable, AgreeOn
      <3>2. D \subseteq E
            BY <1>3, <2>2, <3>1
      <3>3. ASSUME NEW T, T \subseteq D PROVE SumFunctionOnSet(acc, T) = SumFunctionOnSet(a, T)
        <4>1. T \subseteq E /\ AgreeOn(acc, a, T)
              BY <3>1, <3>2, <3>3 DEF AgreeOn
        <4>2. Summable(acc, D) /\ Summable(a, E)
              BY <3>1
        <4> QED
            BY <3>3, <4>1, <4>2, SumsAgree
      <3> QED
          BY <3>1, <3>3
    <2>7. Total(acc) = First(a, h)
      <3>1. Total(acc) = SumFunctionOnSet(acc, 1..h)
            BY <2>2, <2>3, TotalIs
      <3> QED
          BY <2>6, <3>1 DEF First
    <2>8. InProtocol(ms, acc, q) = FirstOf(a, LabelsOf(ms, n), h, q)
      <3>1. PICK T : T = {i \in 1..h : ms[i].protocol = q}
            OBVIOUS
      <3>2. InProtocol(ms, acc, q) = SumFunctionOnSet(acc, T)
            BY <2>2, <2>3, <3>1, TotalIs
      <3>3. Labelled(LabelsOf(ms, n), h, q) = T
        <4>1. \A i \in 1..h : LabelsOf(ms, n)[i] = ms[i].protocol
          <5>1. \A i \in 1..h : i \in 1..n
                BY <1>3, <2>2
          <5> QED
              BY <5>1 DEF LabelsOf
        <4> QED
            BY <3>1, <4>1 DEF Labelled
      <3>4. SumFunctionOnSet(acc, T) = SumFunctionOnSet(a, T)
            BY <2>6, <3>1
      <3> QED
          BY <3>2, <3>3, <3>4 DEF FirstOf
    <2>9. LabelsOf(ms, n)[k] = q /\ LimitsOf(ms, n, capital)[k] = PoolLimit(capital, ms[k])
          BY <2>1 DEF LabelsOf, LimitsOf
    <2>10. Left(a, LabelsOf(ms, n), capital, Part(capital, ProtocolShare(ms)),
                Part(capital, MarketShare(ms)), LimitsOf(ms, n, capital), k)
             = {capital - Total(acc), Part(capital, ProtocolShare(ms)) - InProtocol(ms, acc, q),
                Part(capital, MarketShare(ms)), PoolLimit(capital, ms[k])}
          BY <2>1, <2>7, <2>8, <2>9 DEF Left
    <2> QED
        BY <2>1, <2>4, <2>10 DEF Taken
  <1> QED
      BY <1>2, <1>5, <1>6 DEF Takes

(* The markets that can be given: what a pool holds is known or not, and a  *)
(* yield that compounds does so to a number.                                *)
OfferFits(m, days) ==
    /\ m.tvl \in Nat \/ m.tvl = Missing
    /\ m.label = "Reward APY" => Compounded[<<m.rate, days>>] \in Nat
OffersFit(markets, days) ==
    /\ IsFiniteSet(DOMAIN markets) /\ DOMAIN markets \subseteq Nat /\ days \in Nat
    /\ \A i \in DOMAIN markets : OfferFits(markets[i], days)

LEMMA ReturnsAreNatural ==
  ASSUME NEW m, NEW days \in Nat, OfferFits(m, days), NEW mode, PassesGate(m, mode)
  PROVE  PeriodReturn(m, days) \in Nat /\ m.confidence \in Int
  <1>1. m.rate \in Nat /\ m.confidence \in Int
    <2>1. InBounds(m)
          BY DEF PassesGate
    <2>2. HighestRate \in Nat
          BY DEF HighestRate
    <2> QED
        BY <2>1, <2>2 DEF InBounds
  <1>2. DivideRounded(m.rate * days * 100, 365) \in Nat
    <2>1. PICK n : n = 365
          OBVIOUS
    <2>2. n \in Nat \ {0} /\ n \div 2 \in Nat
          BY <2>1
    <2>3. m.rate * days * 100 + (n \div 2) \in Nat
          BY <1>1, <2>2
    <2>4. (m.rate * days * 100 + (n \div 2)) \div n \in Nat
          BY <2>2, <2>3, Quotient
    <2> QED
        BY <2>1, <2>4 DEF DivideRounded
  <1> QED
      BY <1>1, <1>2 DEF OfferFits, PeriodReturn

(* The best first are in order: none after a better one.                    *)
BetterOf(markets, key, i, j) ==
    \/ key[i] > key[j]
    \/ /\ key[i] = key[j]
       /\ \/ markets[i].confidence > markets[j].confidence
          \/ markets[i].confidence = markets[j].confidence /\ i < j

LEMMA BetterOrders ==
  ASSUME NEW open, open \subseteq Nat, NEW key \in [open -> Nat], NEW markets,
         \A i \in open : markets[i].confidence \in Int
  PROVE  Orders({p \in Pairs(open) : BetterOf(markets, key, p[1], p[2])}, open)
  <1>1. PICK R : R = {p \in Pairs(open) : BetterOf(markets, key, p[1], p[2])}
        OBVIOUS
  <1>2. \A i, j \in open : <<i, j>> \in R <=> BetterOf(markets, key, i, j)
    <2> TAKE i, j \in open
    <2>1. <<i, j>> \in Pairs(open) /\ <<i, j>>[1] = i /\ <<i, j>>[2] = j
          BY DEF Pairs
    <2> QED
        BY <1>1, <2>1
  <1>3. PICK trust : trust = [i \in open |-> markets[i].confidence]
        OBVIOUS
  <1>4. /\ trust \in [open -> Int]
        /\ \A i, j \in open :
             BetterOf(markets, key, i, j)
               <=> \/ key[i] > key[j]
                   \/ key[i] = key[j] /\ (trust[i] > trust[j] \/ (trust[i] = trust[j] /\ i < j))
        BY <1>3 DEF BetterOf
  <1>5. ASSUME NEW i \in open, NEW j \in open, NEW k \in open,
               BetterOf(markets, key, i, j), BetterOf(markets, key, j, k)
        PROVE  BetterOf(markets, key, i, k)
    <2>1. PICK a, b, c, d, e, f : /\ a = key[i] /\ b = key[j] /\ c = key[k]
                                  /\ d = trust[i] /\ e = trust[j] /\ f = trust[k]
          OBVIOUS
    <2>2. /\ a \in Nat /\ b \in Nat /\ c \in Nat /\ d \in Int /\ e \in Int /\ f \in Int
          /\ i \in Nat /\ j \in Nat /\ k \in Nat
          BY <1>4, <2>1
    <2>3. /\ a > b \/ (a = b /\ (d > e \/ (d = e /\ i < j)))
          /\ b > c \/ (b = c /\ (e > f \/ (e = f /\ j < k)))
          BY <1>4, <1>5, <2>1
    <2>4. a > c \/ (a = c /\ (d > f \/ (d = f /\ i < k)))
          BY <2>2, <2>3
    <2> QED
        BY <1>4, <2>1, <2>4
  <1>6. \A i, j \in open : i # j => BetterOf(markets, key, i, j) \/ BetterOf(markets, key, j, i)
        BY <1>4
  <1>7. ASSUME NEW i \in open PROVE ~BetterOf(markets, key, i, i)
    <2>1. key[i] \in Nat /\ trust[i] \in Int /\ i \in Nat
          BY <1>4
    <2>2. ~(key[i] > key[i]) /\ ~(trust[i] > trust[i]) /\ ~(i < i)
          BY <2>1
    <2>3. BetterOf(markets, key, i, i)
            <=> \/ key[i] > key[i]
                \/ key[i] = key[i] /\ (trust[i] > trust[i] \/ (trust[i] = trust[i] /\ i < i))
          BY <1>4
    <2> QED
        BY <2>2, <2>3
  <1>8. Orders(R, open)
        BY <1>2, <1>5, <1>6, <1>7 DEF Orders
  <1> QED
      BY <1>1, <1>8

(* The markets of a plan, the best paid first.                              *)
InOrderOfReturn(ms, n, days) ==
    /\ n \in Nat /\ DOMAIN ms = 1..n /\ Len(ms) = n
    /\ \A k \in 1..n : /\ PeriodReturn(ms[k], days) \in Nat
                       /\ ms[k].tvl \in Nat \/ ms[k].tvl = Missing
    /\ \A i, j \in 1..n : i < j => PeriodReturn(ms[j], days) <= PeriodReturn(ms[i], days)

LEMMA PlanInOrder ==
  ASSUME NEW markets, NEW capital, NEW days, NEW mode, OffersFit(markets, days)
  PROVE  LET p == Plan(markets, capital, days, mode)
         IN  /\ p.amounts = Amounts(p.markets, capital)
             /\ \E n : InOrderOfReturn(p.markets, n, days)
  <1>1. PICK open, order, ms :
          /\ open = {i \in DOMAIN markets : PassesGate(markets[i], mode)}
          /\ order = BestFirst(markets, open, days)
          /\ ms = [k \in DOMAIN order |-> markets[order[k]]]
        OBVIOUS
  <1>2. Plan(markets, capital, days, mode) = [markets |-> ms, amounts |-> Amounts(ms, capital)]
        BY <1>1 DEF Plan
  <1>3. PICK key : key = [i \in open |-> PeriodReturn(markets[i], days)]
        OBVIOUS
  <1>4. /\ IsFiniteSet(open) /\ open \subseteq Nat
        /\ \A i \in open : /\ PeriodReturn(markets[i], days) \in Nat
                           /\ markets[i].confidence \in Int
                           /\ markets[i].tvl \in Nat \/ markets[i].tvl = Missing
    <2>1. open \subseteq DOMAIN markets
          BY <1>1
    <2>2. IsFiniteSet(open)
          BY <2>1, FS_Subset DEF OffersFit
    <2>3. ASSUME NEW i \in open
          PROVE  /\ PeriodReturn(markets[i], days) \in Nat /\ markets[i].confidence \in Int
                 /\ markets[i].tvl \in Nat \/ markets[i].tvl = Missing
      <3>1. OfferFits(markets[i], days) /\ PassesGate(markets[i], mode) /\ days \in Nat
            BY <1>1 DEF OffersFit
      <3>2. PICK m : m = markets[i]
            OBVIOUS
      <3>3. PeriodReturn(m, days) \in Nat /\ m.confidence \in Int
            BY <3>1, <3>2, ReturnsAreNatural
      <3> QED
          BY <3>1, <3>2, <3>3 DEF OfferFits
    <2> QED
        BY <2>1, <2>2, <2>3 DEF OffersFit
  <1>5. key \in [open -> Nat]
        BY <1>3, <1>4
  <1>6. PICK R : R = {p \in Pairs(open) : BetterOf(markets, key, p[1], p[2])}
        OBVIOUS
  <1>7. Orders(R, open)
        BY <1>4, <1>5, <1>6, BetterOrders
  <1>8. order = InOrder(open, R)
        BY <1>1, <1>3, <1>6 DEF BestFirst, Ranked, BetterOf
  <1>9. PICK n : n = Cardinality(open)
        OBVIOUS
  <1>10. n \in Nat /\ ListsInOrder(order, n, R, open)
         BY <1>4, <1>7, <1>8, <1>9, InOrderLists
  <1>11. DOMAIN order = 1..n /\ \A k \in 1..n : order[k] \in open
         BY <1>10 DEF ListsInOrder
  <1>12. DOMAIN ms = 1..n /\ \A k \in 1..n : ms[k] = markets[order[k]]
         BY <1>1, <1>11
  <1>13. Len(ms) = n
    <2>1. ms \in Seq({markets[i] : i \in open})
          BY <1>1, <1>10, <1>11
    <2> QED
        BY <1>10, <1>12, <2>1
  <1>14. ASSUME NEW i \in 1..n, NEW j \in 1..n, i < j
         PROVE  PeriodReturn(ms[j], days) <= PeriodReturn(ms[i], days)
    <2>1. PICK x, y : x = order[i] /\ y = order[j]
          OBVIOUS
    <2>2. x \in open /\ y \in open /\ <<x, y>> \in R
          BY <1>10, <1>14, <2>1 DEF ListsInOrder
    <2>3. BetterOf(markets, key, x, y)
          BY <1>6, <2>2
    <2>4. key[y] <= key[x]
          BY <1>5, <2>2, <2>3 DEF BetterOf
    <2> QED
        BY <1>3, <1>12, <2>1, <2>2, <2>4
  <1>15. ASSUME NEW k \in 1..n
         PROVE  /\ PeriodReturn(ms[k], days) \in Nat
                /\ ms[k].tvl \in Nat \/ ms[k].tvl = Missing
    <2>1. PICK i : i = order[k]
          OBVIOUS
    <2>2. i \in open /\ ms[k] = markets[i]
          BY <1>11, <1>12, <2>1
    <2>3. PeriodReturn(markets[i], days) \in Nat
          BY <1>4, <2>2
    <2>4. markets[i].tvl \in Nat \/ markets[i].tvl = Missing
          BY <1>4, <2>2
    <2> QED
        BY <2>2, <2>3, <2>4
  <1>16. InOrderOfReturn(ms, n, days)
         BY <1>10, <1>12, <1>13, <1>14, <1>15 DEF InOrderOfReturn
  <1> QED
      BY <1>2, <1>16

LEMMA MarketsOfPlanFit ==
  ASSUME NEW ms, NEW n, NEW days, InOrderOfReturn(ms, n, days), NEW capital \in Nat
  PROVE  MarketsFit(ms, n, capital)
  <1>1. ASSUME NEW i \in 1..n PROVE PoolLimit(capital, ms[i]) \in Nat
    <2>1. ms[i].tvl \in Nat \/ ms[i].tvl = Missing
          BY DEF InOrderOfReturn
    <2>2. CASE ms[i].tvl = Missing
          BY <2>2 DEF PoolLimit
    <2>3. CASE ms[i].tvl # Missing
      <3>1. PICK t, s : t = ms[i].tvl /\ s = PoolShare
            OBVIOUS
      <3>2. t \in Nat /\ s \in Nat
            BY <2>1, <2>3, <3>1 DEF PoolShare
      <3>3. Part(t, s) \in Nat
            BY <3>2, PartOf
      <3> QED
          BY <2>3, <3>1, <3>3 DEF PoolLimit
    <2> QED
        BY <2>2, <2>3
  <1> QED
      BY <1>1 DEF InOrderOfReturn, MarketsFit

(* The amounts of a plan are within its caps.                               *)
LEMMA PlanIsWithin ==
  ASSUME NEW ms, NEW n, NEW days, InOrderOfReturn(ms, n, days), NEW capital \in Nat,
         NEW a, a = Amounts(ms, capital)
  PROVE  Within(ms, a, capital) /\ a \in [1..n -> Int]
  <1>1. MarketsFit(ms, n, capital) /\ n \in Nat /\ DOMAIN ms = 1..n
        BY MarketsOfPlanFit DEF InOrderOfReturn
  <1>2. PICK label, p, m, limit :
          /\ label = LabelsOf(ms, n) /\ p = Part(capital, ProtocolShare(ms))
          /\ m = Part(capital, MarketShare(ms)) /\ limit = LimitsOf(ms, n, capital)
        OBVIOUS
  <1>3. Takes(a, n, label, capital, p, m, limit)
        BY <1>1, <1>2, AmountsAre
  <1>4. p \in Nat /\ m \in Nat
        BY <1>2, SharesOf, PartOf
  <1>5. limit \in [1..n -> Nat]
        BY <1>1, <1>2 DEF LimitsOf, MarketsFit
  <1>6. TakesAll(a, n, label, capital, p, m, limit)
        BY <1>1, <1>3, <1>4, <1>5, TakesWithinCaps
  <1>7. a \in [1..n -> Int]
        BY <1>3 DEF Takes
  <1>8. Total(a) = First(a, n) /\ \A q : InProtocol(ms, a, q) = FirstOf(a, label, n, q)
    <2>1. Total(a) = First(a, n)
          BY <1>1, <1>7, TotalIs DEF First
    <2>2. ASSUME NEW q PROVE InProtocol(ms, a, q) = FirstOf(a, label, n, q)
      <3>1. Labelled(label, n, q) = {i \in 1..n : ms[i].protocol = q}
            BY <1>2 DEF Labelled, LabelsOf
      <3> QED
          BY <1>1, <1>7, <3>1, TotalIs DEF FirstOf
    <2> QED
        BY <2>1, <2>2
  <1>9. n \in 0..n
        BY <1>1
  <1>10. Total(a) <= capital /\ \A q : InProtocol(ms, a, q) <= p
         BY <1>6, <1>8, <1>9 DEF TakesAll
  <1>11. \A i \in 1..n : a[i] <= m /\ a[i] <= PoolLimit(capital, ms[i])
         BY <1>2, <1>6 DEF TakesAll, LimitsOf
  <1> QED
      BY <1>1, <1>2, <1>7, <1>10, <1>11 DEF Within

(* Another spread that keeps them does so up to each market.                *)
LEMMA OtherKeepsCaps ==
  ASSUME NEW ms, NEW n, NEW days, InOrderOfReturn(ms, n, days), NEW capital \in Nat,
         NEW b \in [1..n -> Nat], Within(ms, b, capital)
  PROVE  KeepsCaps(b, n, LabelsOf(ms, n), capital, Part(capital, ProtocolShare(ms)),
                   Part(capital, MarketShare(ms)), LimitsOf(ms, n, capital))
  <1>1. n \in Nat /\ DOMAIN ms = 1..n
        BY DEF InOrderOfReturn
  <1>2. PICK label : label = LabelsOf(ms, n)
        OBVIOUS
  <1>3. PICK D : D = 1..n
        OBVIOUS
  <1>4. IsFiniteSet(D) /\ b \in [D -> Int] /\ \A i \in D : b[i] >= 0
        BY <1>1, <1>3, FS_Interval
  <1>5. \A T, U : T \subseteq U /\ U \subseteq D =>
          /\ SumFunctionOnSet(b, T) <= SumFunctionOnSet(b, U)
          /\ SumFunctionOnSet(b, T) \in Int /\ SumFunctionOnSet(b, U) \in Int
    <2> SUFFICES ASSUME NEW T, NEW U, T \subseteq U, U \subseteq D
                 PROVE  /\ SumFunctionOnSet(b, T) <= SumFunctionOnSet(b, U)
                        /\ SumFunctionOnSet(b, T) \in Int /\ SumFunctionOnSet(b, U) \in Int
        OBVIOUS
    <2>1. T \in SUBSET D /\ U \in SUBSET D /\ \A i \in U : b[i] >= 0
          BY <1>4
    <2> QED
        BY <1>4, <2>1, TotalsOfPart, SumStep
  <1>6. ASSUME NEW k \in 1..n PROVE First(b, k) <= capital
    <2>1. 1..k \subseteq D /\ D \subseteq D
          BY <1>1, <1>3
    <2>2. Total(b) = SumFunctionOnSet(b, D) /\ Total(b) \in Int
          BY <1>1, <1>3, <1>4, TotalIs
    <2>3. Total(b) <= capital
          BY DEF Within
    <2>4. First(b, k) <= Total(b) /\ First(b, k) \in Int
          BY <1>5, <2>1, <2>2 DEF First
    <2> QED
        BY <2>2, <2>3, <2>4
  <1>7. ASSUME NEW k \in 1..n
        PROVE  FirstOf(b, label, k, label[k]) <= Part(capital, ProtocolShare(ms))
    <2>1. PICK T, U : /\ T = Labelled(label, k, label[k])
                      /\ U = {i \in D : ms[i].protocol = label[k]}
          OBVIOUS
    <2>2. T \subseteq U /\ U \subseteq D
      <3>1. \A i \in 1..k : i \in 1..n
            BY <1>1
      <3> QED
          BY <1>2, <1>3, <2>1, <3>1 DEF Labelled, LabelsOf
    <2>3. InProtocol(ms, b, label[k]) = SumFunctionOnSet(b, U)
          BY <1>1, <1>3, <1>4, <2>1, TotalIs, SMTT(30)
    <2>4. label[k] = ms[k].protocol
          BY <1>2 DEF LabelsOf
    <2>5. InProtocol(ms, b, label[k]) <= Part(capital, ProtocolShare(ms))
          BY <1>1, <2>4 DEF Within
    <2>6. PICK x, y, z : /\ x = FirstOf(b, label, k, label[k])
                         /\ y = SumFunctionOnSet(b, U) /\ z = Part(capital, ProtocolShare(ms))
          OBVIOUS
    <2>7. x <= y /\ x \in Int /\ y \in Int
          BY <1>5, <2>1, <2>2, <2>6 DEF FirstOf
    <2>8. y <= z
          BY <2>3, <2>5, <2>6
    <2>9. z \in Nat
          BY <2>6, SharesOf, PartOf
    <2> QED
        BY <2>6, <2>7, <2>8, <2>9
  <1>8. ASSUME NEW k \in 1..n
        PROVE  /\ b[k] <= Part(capital, MarketShare(ms))
               /\ b[k] <= LimitsOf(ms, n, capital)[k]
        BY <1>1 DEF Within, LimitsOf
  <1> QED
      BY <1>2, <1>6, <1>7, <1>8 DEF KeepsCaps

(* What amounts earn is the sum of their worth.                             *)
RatesOf(ms, n, days) == [k \in 1..n |-> PeriodReturn(ms[k], days)]

LEMMA EarnedIs ==
  ASSUME NEW ms, NEW n \in Nat, NEW days, NEW v \in [1..n -> Int],
         NEW r, r = RatesOf(ms, n, days), r \in [1..n -> Nat]
  PROVE  Earned(ms, v, days) = First(Worth(v, r, n), n)
  <1>1. PICK w : w = Worth(v, r, n)
        OBVIOUS
  <1>2. w \in [1..n -> Int]
        BY <1>1 DEF Worth
  <1>3. w = [i \in DOMAIN v |-> v[i] * PeriodReturn(ms[i], days)]
        BY <1>1 DEF Worth, RatesOf
  <1>4. Earned(ms, v, days) = Total(w)
        BY <1>3 DEF Earned, Total
  <1> QED
      BY <1>1, <1>2, <1>4, TotalIs DEF First

(* The plan of the strategy engine keeps every cap, and nothing that keeps  *)
(* them earns more: allocateYieldCapital, for any markets and capital.  As  *)
(* long as capital is left it has put at least as much under each protocol, *)
(* among the first k markets, as any other spread does, whatever k is, and  *)
(* the rates fall with k.                                                   *)
THEOREM PlansAreOptimal ==
  ASSUME NEW markets, NEW capital \in Nat, NEW days, NEW mode, OffersFit(markets, days)
  PROVE  PlanIsOptimal(markets, capital, days, mode)
  <1>1. PICK plan, ms, a : /\ plan = Plan(markets, capital, days, mode)
                           /\ ms = plan.markets /\ a = plan.amounts
        OBVIOUS
  <1>2. PICK n : a = Amounts(ms, capital) /\ InOrderOfReturn(ms, n, days)
        BY <1>1, PlanInOrder
  <1>3. n \in Nat /\ DOMAIN ms = 1..n /\ MarketsFit(ms, n, capital)
        BY <1>2, MarketsOfPlanFit DEF InOrderOfReturn
  <1>4. Within(ms, a, capital) /\ a \in [1..n -> Int]
        BY <1>2, PlanIsWithin
  <1>5. PICK label, p, m, limit, r :
          /\ label = LabelsOf(ms, n) /\ p = Part(capital, ProtocolShare(ms))
          /\ m = Part(capital, MarketShare(ms)) /\ limit = LimitsOf(ms, n, capital)
          /\ r = RatesOf(ms, n, days)
        OBVIOUS
  <1>6. Takes(a, n, label, capital, p, m, limit)
        BY <1>2, <1>3, <1>5, AmountsAre
  <1>7. p \in Nat /\ m \in Nat /\ limit \in [1..n -> Nat]
    <2>1. p \in Nat /\ m \in Nat
          BY <1>5, SharesOf, PartOf
    <2> QED
        BY <1>3, <1>5, <2>1 DEF LimitsOf, MarketsFit
  <1>8. r \in [1..n -> Nat] /\ \A i, j \in 1..n : i < j => r[j] <= r[i]
        BY <1>2, <1>5 DEF RatesOf, InOrderOfReturn
  <1>9. ASSUME NEW b \in [DOMAIN ms -> 0 .. capital], Within(ms, b, capital)
        PROVE  Earned(ms, b, days) <= Earned(ms, a, days)
    <2>1. b \in [1..n -> Nat] /\ b \in [1..n -> Int]
          BY <1>3
    <2>2. KeepsCaps(b, n, label, capital, p, m, limit)
          BY <1>2, <1>5, <1>9, <2>1, OtherKeepsCaps
    <2>3. \A k \in 0..n : First(b, k) <= First(a, k)
          BY <1>3, <1>6, <1>7, <2>2, GreedyIsAhead
    <2>4. First(Worth(b, r, n), n) <= First(Worth(a, r, n), n)
          BY <1>3, <1>4, <1>8, <2>1, <2>3, AheadEarnsMore
    <2>5. /\ Earned(ms, b, days) = First(Worth(b, r, n), n)
          /\ Earned(ms, a, days) = First(Worth(a, r, n), n)
      <3>1. r = RatesOf(ms, n, days) /\ r \in [1..n -> Nat] /\ n \in Nat
            BY <1>3, <1>5, <1>8
      <3>2. Earned(ms, b, days) = First(Worth(b, r, n), n)
            BY <2>1, <3>1, EarnedIs
      <3>3. Earned(ms, a, days) = First(Worth(a, r, n), n)
            BY <1>4, <3>1, EarnedIs, SMTT(30)
      <3> QED
          BY <3>2, <3>3
    <2> QED
        BY <2>4, <2>5
  <1> QED
      BY <1>1, <1>4, <1>9 DEF PlanIsOptimal

(* The markets of the run can be given to the strategy engine.              *)
LEMMA SixAreFinite ==
  ASSUME NEW a, NEW b, NEW c, NEW d, NEW e, NEW f
  PROVE  IsFiniteSet({a, b, c, d, e, f})
  <1>1. /\ IsFiniteSet({}) /\ \A S, x : IsFiniteSet(S) => IsFiniteSet(S \cup {x})
        BY FS_EmptySet, FS_AddElement
  <1>2. IsFiniteSet({} \cup {a} \cup {b} \cup {c} \cup {d} \cup {e} \cup {f})
        BY <1>1, Zenon
  <1>3. {} \cup {a} \cup {b} \cup {c} \cup {d} \cup {e} \cup {f} = {a, b, c, d, e, f}
        OBVIOUS
  <1> QED
      BY <1>2, <1>3

LEMMA OffersAreSix ==
  IsFiniteSet(Offers) /\ \A m \in Offers : m.tvl \in Nat
  <1>1. /\ OfferTvl.deep \in Nat /\ OfferTvl.mid \in Nat
        /\ OfferTvl.low \in Nat /\ OfferTvl.least \in Nat
        BY SMT DEF OfferTvl
  <1>2. ASSUME NEW m \in Offers PROVE m.tvl \in Nat
    <2>1. PICK p, l, r, c, g :
            \/ m = Offered(p, l, r, c, OfferTvl.deep, g)
            \/ m = Offered(p, l, r, c, OfferTvl.mid, g)
            \/ m = Offered(p, l, r, c, OfferTvl.low, g)
            \/ m = Offered(p, l, r, c, OfferTvl.least, g)
          BY <1>2, ZenonT(40) DEF Offers
    <2>2. ASSUME NEW t PROVE Offered(p, l, r, c, t, g).tvl = t
          BY Zenon DEF Offered, Unavailable
    <2>3. m.tvl \in {OfferTvl.deep, OfferTvl.mid, OfferTvl.low, OfferTvl.least}
          BY <2>1, <2>2, Zenon
    <2> QED
        BY <1>1, <2>3
  <1> QED
      BY <1>2, SixAreFinite, ZenonT(40) DEF Offers

LEMMA OffersAskedFit ==
  ASSUME NEW days \in Periods, NEW m \in Offers
  PROVE  OfferFits(m, days)
  <1>1. m.label = "Reward APY" => Compounded[<<m.rate, days>>] \in Nat
        BY CompoundedAssumption
  <1>2. m.tvl \in Nat
        BY OffersAreSix
  <1> QED
      BY <1>1, <1>2 DEF OfferFits

LEMMA AskAllocationHolds ==
  ASSUME AskAllocation
  PROVE  YieldsSound'
  <1>1. PICK S \in SUBSET Offers, capital \in {7, 10}, days \in Periods,
             mode \in {"recommend", "explore"} :
          Question("allocation", <<SetToSeq(S), capital, days, mode>>)
        BY DEF AskAllocation
  <1>2. PICK markets : markets = SetToSeq(S)
        OBVIOUS
  <1>3. IsFiniteSet(S)
    <2>1. IsFiniteSet(Offers)
          BY OffersAreSix
    <2> QED
        BY <2>1, FS_Subset
  <1>4. markets \in Seq(S)
        BY <1>2, <1>3, SetsAreListed
  <1>5. OffersFit(markets, days)
    <2>1. Len(markets) \in Nat /\ DOMAIN markets = 1..Len(markets)
          BY <1>4
    <2>2. IsFiniteSet(DOMAIN markets) /\ DOMAIN markets \subseteq Nat
          BY <2>1, FS_Interval
    <2>3. \A i \in DOMAIN markets : markets[i] \in Offers
          BY <1>4, <2>1
    <2>4. days \in Nat
          BY DEF Periods
    <2> QED
        BY <2>2, <2>3, <2>4, OffersAskedFit DEF OffersFit
  <1>6. capital \in Nat
        OBVIOUS
  <1>7. PlanIsOptimal(markets, capital, days, mode)
        BY <1>5, <1>6, PlansAreOptimal
  <1>8. /\ question'[1] = "allocation" /\ question'[2][1] = markets /\ question'[2][2] = capital
        /\ question'[2][3] = days /\ question'[2][4] = mode
        BY <1>1, <1>2 DEF Question
  <1> QED
      BY <1>7, <1>8 DEF YieldsSound

-----------------------------------------------------------------------------
(* YieldCatalog.                                                            *)

(* What the protocols and the feed can answer: a symbol that                *)
(* stands for a position in Zest is not itself an asset that Zest lends.    *)
SurveyFits(w) ==
    /\ w = [enabled |-> w.enabled, tip |-> w.tip, age |-> w.age,
            strategyApproved |-> w.strategyApproved, feed |-> w.feed, zest |-> w.zest,
            strategy |-> w.strategy, granite |-> w.granite, bitflow |-> w.bitflow,
            hermetica |-> w.hermetica, stacking |-> w.stacking]
    /\ \A asset \in DOMAIN w.zest :
         /\ asset \notin DOMAIN Receipt
         /\ w.zest[asset] = NoAnswer \/ SupplyRate(w.zest[asset]) \in Int
    /\ \/ w.feed = NoAnswer
       \/ IsFiniteSet(w.feed.records) /\ \A r \in w.feed.records : r.rate \in Int

(* What a market shows of where it is from, and that nobody else has spoken *)
(* of its rate.                                                             *)
MadeOf(m, protocol, assets) ==
    m.protocol = protocol /\ m.assets = assets /\ m.rateEvidence = NoEvidence

(* The families of markets, but for Zest's own.                             *)
LEMMA StrategyIs ==
  ASSUME NEW w
  PROVE  /\ "zest" \notin w.enabled => StrategyMarkets(w) = {}
         /\ \E b : StrategyMarkets(w) \subseteq {b} /\ MadeOf(b, "zest", {"zvstBTC"})
  <1> PICK a, b : /\ a = Unavailable("zest", {"zvstBTC"}, "Reward APY", w.age)
                  /\ b = Pinned(a, w.strategy.growth, 90)
      OBVIOUS
  <1>1. MadeOf(a, "zest", {"zvstBTC"}) /\ MadeOf(b, "zest", {"zvstBTC"})
        BY DEF Unavailable, Pinned, MadeOf
  <1>2. "zest" \notin w.enabled => StrategyMarkets(w) = {}
        BY Zenon DEF StrategyMarkets
  <1>3. StrategyMarkets(w) \subseteq {a} \/ StrategyMarkets(w) \subseteq {b}
        BY Zenon DEF StrategyMarkets
  <1> QED
      BY <1>1, <1>2, <1>3

LEMMA GraniteIs ==
  ASSUME NEW w
  PROVE  /\ "granite" \notin w.enabled => GraniteMarkets(w) = {}
         /\ \E b : /\ GraniteMarkets(w) \subseteq {b}
                   /\ MadeOf(b, "granite", {"gUSDC", "aeUSDC"})
  <1> PICK reserve : reserve = IF w.granite.reserve = Missing THEN GraniteReserve
                               ELSE w.granite.reserve
      OBVIOUS
  <1> PICK x : x = (w.granite.borrow * (HundredPercent - reserve)) \div HundredPercent
      OBVIOUS
  <1> PICK a : a = [Unavailable("granite", {"gUSDC", "aeUSDC"}, "Supply APR", w.age)
                      EXCEPT !.source = "granite-rates"]
      OBVIOUS
  <1> PICK b : b = WithCapacity(Pinned(a, x, 90), "granite-state", w.granite.tvl)
      OBVIOUS
  <1>1. MadeOf(a, "granite", {"gUSDC", "aeUSDC"}) /\ MadeOf(b, "granite", {"gUSDC", "aeUSDC"})
        BY DEF Unavailable, Pinned, WithCapacity, MadeOf
  <1>2. "granite" \notin w.enabled => GraniteMarkets(w) = {}
        BY Zenon DEF GraniteMarkets
  <1>3. GraniteMarkets(w) \subseteq {a} \/ GraniteMarkets(w) \subseteq {b}
        BY Zenon DEF GraniteMarkets
  <1> QED
      BY <1>1, <1>2, <1>3

(* What a protocol says of itself.                                          *)
SelfReported(m, protocol, assets, confidence) ==
    /\ MadeOf(m, protocol, assets)
    /\ \/ m.rate = Missing
       \/ m.state = "provider-reported" /\ m.confidence = confidence

LEMMA BitflowIs ==
  ASSUME NEW w
  PROVE  /\ "bitflow" \notin w.enabled => BitflowMarkets(w) = {}
         /\ \A m \in BitflowMarkets(w) : \E p : SelfReported(m, "bitflow", {p}, 70)
  <1>1. ASSUME NEW p PROVE SelfReported(BitflowMarket(w, p), "bitflow", {p}, 70)
    <2> PICK a, b : /\ a = [Unavailable("bitflow", {p}, "Fee APR", w.age) EXCEPT !.source = p]
                    /\ b = WithCapacity(Reported(a, w.bitflow[p].rate, 70), "bitflow-tvl",
                                        w.bitflow[p].tvl)
        OBVIOUS
    <2>1. SelfReported(a, "bitflow", {p}, 70) /\ SelfReported(b, "bitflow", {p}, 70)
          BY DEF Unavailable, Reported, WithCapacity, MadeOf, SelfReported
    <2>2. BitflowMarket(w, p) = a \/ BitflowMarket(w, p) = b
          BY Zenon DEF BitflowMarket
    <2> QED
        BY <2>1, <2>2
  <1> QED
      BY <1>1, Zenon DEF BitflowMarkets

LEMMA HermeticaIs ==
  ASSUME NEW w
  PROVE  /\ "hermetica" \notin w.enabled => HermeticaMarkets(w) = {}
         /\ \E b : /\ HermeticaMarkets(w) \subseteq {b}
                   /\ SelfReported(b, "hermetica", {"USDH", "sUSDh"}, 78)
  <1> PICK a, b : /\ a = Unavailable("hermetica", {"USDH", "sUSDh"}, "Reward APY", w.age)
                  /\ b = WithCapacity(Reported(a, w.hermetica.rate, 78), "hermetica-tvl",
                                      w.hermetica.tvl)
      OBVIOUS
  <1>1. /\ SelfReported(a, "hermetica", {"USDH", "sUSDh"}, 78)
        /\ SelfReported(b, "hermetica", {"USDH", "sUSDh"}, 78)
        BY DEF Unavailable, Reported, WithCapacity, MadeOf, SelfReported
  <1>2. "hermetica" \notin w.enabled => HermeticaMarkets(w) = {}
        BY Zenon DEF HermeticaMarkets
  <1>3. HermeticaMarkets(w) \subseteq {a} \/ HermeticaMarkets(w) \subseteq {b}
        BY Zenon DEF HermeticaMarkets
  <1> QED
      BY <1>1, <1>2, <1>3

LEMMA StackingDaoIs ==
  ASSUME NEW w
  PROVE  /\ "stackingdao" \notin w.enabled => StackingDaoMarkets(w) = {}
         /\ \A m \in StackingDaoMarkets(w) : \E assets :
              SelfReported(m, "stackingdao", assets, 76)
         /\ \A m, n \in StackingDaoMarkets(w) :
              /\ m.rate # Missing /\ n.rate # Missing /\ m.assets \cap n.assets # {}
              => m = n
  <1> DEFINE Of(assets) == Unavailable("stackingdao", assets, "Reward APY", w.age)
             Said(a) == Reported(Of({a}), w.stacking[a], 76)
  <1>1. ASSUME NEW assets
        PROVE  SelfReported(Of(assets), "stackingdao", assets, 76) /\ Of(assets).rate = Missing
        BY DEF Unavailable, MadeOf, SelfReported
  <1>2. ASSUME NEW a
        PROVE  SelfReported(Said(a), "stackingdao", {a}, 76) /\ Said(a).assets = {a}
        BY DEF Unavailable, Reported, MadeOf, SelfReported
  <1>3. \/ StackingDaoMarkets(w) = {}
        \/ StackingDaoMarkets(w) = {Of({"stSTX", "stBTC", "stSTXbtc"})}
        \/ StackingDaoMarkets(w) = {Said(a) : a \in DOMAIN w.stacking}
        BY Zenon DEF StackingDaoMarkets
  <1>4. "stackingdao" \notin w.enabled => StackingDaoMarkets(w) = {}
        BY Zenon DEF StackingDaoMarkets
  <1> HIDE DEF Of, Said
  <1>5. \A m \in StackingDaoMarkets(w) :
           \/ m = Of({"stSTX", "stBTC", "stSTXbtc"})
           \/ \E a : m = Said(a)
        BY <1>3
  <1>6. ASSUME NEW m \in StackingDaoMarkets(w)
        PROVE  \E assets : SelfReported(m, "stackingdao", assets, 76)
    <2>1. CASE m = Of({"stSTX", "stBTC", "stSTXbtc"})
          BY <1>1, <2>1
    <2>2. CASE \E a : m = Said(a)
          BY <1>2, <2>2
    <2> QED
        BY <1>5, <2>1, <2>2
  <1>7. ASSUME NEW m \in StackingDaoMarkets(w), NEW n \in StackingDaoMarkets(w),
               m.rate # Missing, n.rate # Missing, m.assets \cap n.assets # {}
        PROVE  m = n
    <2>1. PICK a, b : m = Said(a) /\ n = Said(b)
          BY <1>1, <1>5, <1>7
    <2>2. m.assets = {a} /\ n.assets = {b}
          BY <1>2, <2>1
    <2>3. a = b
          BY <1>7, <2>2
    <2> QED
        BY <2>1, <2>3
  <1> QED
      BY <1>4, <1>6, <1>7

(* Zest's own: with the record of the feed that agrees, the only one of its *)
(* asset, or without what makes it worth recommending.                      *)
MarketRecord(m) ==
    m = [protocol |-> m.protocol, assets |-> m.assets, label |-> m.label, rate |-> m.rate,
         state |-> m.state, confidence |-> m.confidence, atBlock |-> m.atBlock, age |-> m.age,
         tvl |-> m.tvl, rateEvidence |-> m.rateEvidence,
         capacityEvidence |-> m.capacityEvidence, source |-> m.source, eligible |-> m.eligible]

LEMMA ZestMarketIs ==
  ASSUME NEW w, NEW asset
  PROVE  LET z == ZestMarket(w, asset)
         IN  /\ MadeOf(z, "zest", {asset}) /\ MarketRecord(z)
             /\ \/ z.rate = Missing
                \/ w.zest[asset] # NoAnswer /\ z.rate = SupplyRate(w.zest[asset])
  <1> PICK a, v, e : /\ a = [Unavailable("zest", {asset}, "Supply APR", w.age)
                               EXCEPT !.source = asset]
                     /\ v = w.zest[asset] /\ e = (SupplyRate(v) > 0)
      OBVIOUS
  <1> PICK b : b = [Pinned(a, SupplyRate(v), 92) EXCEPT !.eligible = e]
      OBVIOUS
  <1>1. ZestMarket(w, asset) = a \/ (ZestMarket(w, asset) = b /\ v # NoAnswer)
        BY Zenon DEF ZestMarket
  <1>2. MadeOf(a, "zest", {asset}) /\ MadeOf(b, "zest", {asset})
        BY DEF Unavailable, Pinned, MadeOf
  <1>3. a.rate = Missing /\ b.rate = SupplyRate(v)
        BY DEF Unavailable, Pinned
  <1>4. MarketRecord(a) /\ MarketRecord(b)
        BY DEF Unavailable, Pinned, MarketRecord
  <1> QED
      BY <1>1, <1>2, <1>3, <1>4, Zenon

ZestReconciled(w, asset) == Reconciled(w, ZestMarket(w, asset))
TheMatch(w, m) == CHOOSE x \in Matching(w, m) : TRUE

LEMMA ReconciledIs ==
  ASSUME NEW w, NEW asset
  PROVE  LET z == ZestMarket(w, asset)
             m == ZestReconciled(w, asset)
         IN  /\ m.protocol = "zest" /\ m.assets = {asset} /\ m.rate = z.rate
             /\ RecommendGate(m) /\ z.rate # Missing =>
                  /\ Cardinality(Matching(w, z)) = 1
                  /\ ~(Gap(z.rate, TheMatch(w, z).rate) > MaxRateDifference)
                  /\ m.tvl = TheMatch(w, z).tvl
  <1> PICK z : z = ZestMarket(w, asset)
      OBVIOUS
  <1>1. MadeOf(z, "zest", {asset}) /\ MarketRecord(z)
        BY ZestMarketIs
  <1> DEFINE r == TheMatch(w, z)
             a == [z EXCEPT
                    !.rateEvidence = [source |-> r.pool, age |-> w.feed.age, says |-> r.rate],
                    !.capacityEvidence = [source |-> r.pool, age |-> w.feed.age, says |-> r.tvl]]
             m1 == [z EXCEPT !.eligible = FALSE]
             m2 == [a EXCEPT !.eligible = FALSE]
             m3 == [a EXCEPT !.tvl = r.tvl, !.confidence = 95, !.eligible = z.rate > 0]
  <1>2. Reconciled(w, z)
          = IF z.rate = Missing THEN z
            ELSE IF Cardinality(Matching(w, z)) # 1 THEN m1
            ELSE IF Gap(z.rate, r.rate) > MaxRateDifference THEN m2 ELSE m3
        BY Zenon DEF Reconciled, TheMatch
  <1>3. PICK e, c, g, t : /\ e = [source |-> r.pool, age |-> w.feed.age, says |-> r.rate]
                          /\ c = [source |-> r.pool, age |-> w.feed.age, says |-> r.tvl]
                          /\ g = (z.rate > 0) /\ t = r.tvl
        OBVIOUS
  <1>4. /\ m2 = [[z EXCEPT !.rateEvidence = e, !.capacityEvidence = c] EXCEPT !.eligible = FALSE]
        /\ m3 = [[z EXCEPT !.rateEvidence = e, !.capacityEvidence = c]
                  EXCEPT !.tvl = t, !.confidence = 95, !.eligible = g]
        BY <1>3
  <1>5. /\ m1.protocol = "zest" /\ m1.assets = {asset} /\ m1.rate = z.rate
        /\ m1.rateEvidence = NoEvidence
        BY <1>1 DEF MadeOf, MarketRecord
  <1> HIDE DEF r, m2, m3
  <1>6. /\ m2.protocol = "zest" /\ m2.assets = {asset} /\ m2.rate = z.rate
        /\ m2.eligible = FALSE
        BY <1>1, <1>4 DEF MadeOf, MarketRecord
  <1>7. m3.protocol = "zest" /\ m3.assets = {asset} /\ m3.rate = z.rate /\ m3.tvl = t
        BY <1>1, <1>4 DEF MadeOf, MarketRecord
  <1> HIDE DEF m1
  <1>8. ~RecommendGate(m1) /\ ~RecommendGate(m2)
        BY <1>5, <1>6, Zenon DEF RecommendGate, Corroborated
  <1>9. ZestReconciled(w, asset) = Reconciled(w, z)
        BY DEF ZestReconciled
  <1>10. z.protocol = "zest" /\ z.assets = {asset}
         BY <1>1 DEF MadeOf
  <1>11. CASE z.rate = Missing
    <2>1. ZestReconciled(w, asset) = z
          BY <1>2, <1>9, <1>11
    <2> QED
        BY <1>10, <1>11, <2>1
  <1>12. CASE z.rate # Missing /\ Cardinality(Matching(w, z)) # 1
    <2>1. ZestReconciled(w, asset) = m1
          BY <1>2, <1>9, <1>12
    <2> QED
        BY <1>5, <1>8, <2>1
  <1>13. CASE /\ z.rate # Missing /\ Cardinality(Matching(w, z)) = 1
              /\ Gap(z.rate, r.rate) > MaxRateDifference
    <2>1. ZestReconciled(w, asset) = m2
          BY <1>2, <1>9, <1>13, Zenon
    <2> QED
        BY <1>6, <1>8, <2>1
  <1>14. CASE /\ z.rate # Missing /\ Cardinality(Matching(w, z)) = 1
              /\ ~(Gap(z.rate, r.rate) > MaxRateDifference)
    <2>1. ZestReconciled(w, asset) = m3
          BY <1>2, <1>9, <1>14, Zenon
    <2>2. m3.tvl = r.tvl
          BY <1>3, <1>7
    <2> QED
        BY <1>7, <1>14, <2>1, <2>2, Zenon DEF r
  <1> QED
      BY <1>11, <1>12, <1>13, <1>14

(* The markets of a catalog: those of Zest, those that a family lists, and  *)
(* the enabled protocols that show none.                                    *)
Families(w) ==
    StrategyMarkets(w) \cup GraniteMarkets(w) \cup BitflowMarkets(w)
    \cup HermeticaMarkets(w) \cup StackingDaoMarkets(w)
Blank(w, p) ==
    Unavailable(p, {p}, IF p = "stackingdao" THEN "Reward APY" ELSE "Supply APR", w.age)

LEMMA CatalogIs ==
  ASSUME NEW w
  PROVE  /\ \A m \in Catalog(w) :
              \/ \E asset \in DOMAIN w.zest : m = ZestReconciled(w, asset)
              \/ m \in Families(w)
              \/ \E p : m = Blank(w, p)
         /\ ZestMarkets(w) \cup Families(w) \subseteq Catalog(w)
         /\ \A p \in w.enabled :
              \/ \E m \in ZestMarkets(w) \cup Families(w) : m.protocol = p
              \/ Blank(w, p) \in Catalog(w)
         /\ \A m \in Catalog(w) : \/ m \in ZestMarkets(w) \cup Families(w)
                                 \/ \E p \in w.enabled : m = Blank(w, p)
  <1>1. PICK found : found = ZestMarkets(w) \cup Families(w)
        OBVIOUS
  <1>2. Catalog(w) = found \cup {Blank(w, p) : p \in w.enabled \ {m.protocol : m \in found}}
    <2>1. found = ZestMarkets(w) \cup StrategyMarkets(w) \cup GraniteMarkets(w)
                   \cup BitflowMarkets(w) \cup HermeticaMarkets(w) \cup StackingDaoMarkets(w)
          BY <1>1 DEF Families
    <2> QED
        BY <2>1, Zenon DEF Catalog, Blank
  <1>3. \A m \in ZestMarkets(w) : \E asset \in DOMAIN w.zest : m = ZestReconciled(w, asset)
        BY Zenon DEF ZestMarkets, ZestReconciled
  <1> QED
      BY <1>1, <1>2, <1>3

LEMMA BlankIs ==
  ASSUME NEW w, NEW p
  PROVE  MadeOf(Blank(w, p), p, {p}) /\ Blank(w, p).rate = Missing
  BY DEF Blank, Unavailable, MadeOf

(* Only the record of somebody else corroborates.                           *)
LEMMA UnheardIsNotRecommended ==
  ASSUME NEW m, m.rateEvidence = NoEvidence
  PROVE  ~RecommendGate(m)
  BY Zenon DEF RecommendGate, Corroborated

LEMMA FamiliesAreUnheard ==
  ASSUME NEW w, NEW m \in Families(w)
  PROVE  m.rateEvidence = NoEvidence
  <1>1. CASE m \in StrategyMarkets(w)
        BY <1>1, StrategyIs DEF MadeOf
  <1>2. CASE m \in GraniteMarkets(w)
        BY <1>2, GraniteIs DEF MadeOf
  <1>3. CASE m \in BitflowMarkets(w)
        BY <1>3, BitflowIs DEF SelfReported, MadeOf
  <1>4. CASE m \in HermeticaMarkets(w)
        BY <1>4, HermeticaIs DEF SelfReported, MadeOf
  <1>5. CASE m \in StackingDaoMarkets(w)
        BY <1>5, StackingDaoIs DEF SelfReported, MadeOf
  <1> QED
      BY <1>1, <1>2, <1>3, <1>4, <1>5 DEF Families

UsableOf(w, asset) ==
    {r \in w.feed.records : r.underlying = asset /\ ~r.outlier /\ r.count >= 2}

LEMMA GapIsSymmetric ==
  ASSUME NEW x \in Int, NEW y \in Int, ~(Gap(x, y) > MaxRateDifference)
  PROVE  Gap(y, x) <= MaxRateDifference
  BY DEF Gap, MaxRateDifference

LEMMA OnlyOne ==
  ASSUME NEW S, IsFiniteSet(S), Cardinality(S) = 1, NEW x, x = CHOOSE y \in S : TRUE
  PROVE  S = {x}
  <1>1. \E y : S = {y}
        BY FS_Singleton
  <1> QED
      BY <1>1

LEMMA RecommendedRests ==
  ASSUME NEW w, SurveyFits(w), NEW m \in Recommended(w)
  PROVE  /\ w.feed # NoAnswer
         /\ \E asset \in DOMAIN w.zest :
              /\ m.assets = {asset} /\ w.zest[asset] # NoAnswer
              /\ \E r \in UsableOf(w, asset) :
                   /\ UsableOf(w, asset) = {r} /\ r.tvl = m.tvl
                   /\ Gap(r.rate, m.rate) <= MaxRateDifference
  <1>1. m \in Catalog(w) /\ PassesGate(m, "recommend")
        BY DEF Recommended, OpenTo
  <1>2. RecommendGate(m) /\ m.rate # Missing
        BY <1>1, Zenon DEF PassesGate, InBounds
  <1>3. m \notin Families(w)
        BY <1>2, FamiliesAreUnheard, UnheardIsNotRecommended
  <1>4. \A p : m # Blank(w, p)
        BY <1>2, BlankIs DEF MadeOf
  <1>5. PICK asset \in DOMAIN w.zest : m = ZestReconciled(w, asset)
        BY <1>1, <1>3, <1>4, CatalogIs
  <1>6. PICK z, r : z = ZestMarket(w, asset) /\ r = TheMatch(w, z)
        OBVIOUS
  <1>7. m.assets = {asset} /\ m.rate = z.rate
        BY <1>5, <1>6, ReconciledIs
  <1>8. /\ Cardinality(Matching(w, z)) = 1 /\ m.tvl = r.tvl
        /\ ~(Gap(z.rate, r.rate) > MaxRateDifference)
        BY <1>2, <1>5, <1>6, <1>7, ReconciledIs
  <1>9. /\ z.assets = {asset} /\ w.zest[asset] # NoAnswer
        /\ z.rate = SupplyRate(w.zest[asset])
        BY <1>2, <1>6, <1>7, ZestMarketIs DEF MadeOf
  <1>10. Cardinality({}) = 0 /\ 0 # 1
         BY FS_EmptySet
  <1>11. Matching(w, z) # {} /\ References(w) # {}
         BY <1>8, <1>10 DEF Matching
  <1>12. w.feed # NoAnswer /\ References(w) = {x \in w.feed.records : ~x.outlier /\ x.count >= 2}
         BY <1>11, Zenon DEF References
  <1>13. Matching(w, z) = UsableOf(w, asset)
         BY <1>9, <1>12 DEF Matching, UsableOf
  <1>14. IsFiniteSet(w.feed.records) /\ \A x \in w.feed.records : x.rate \in Int
         BY <1>12 DEF SurveyFits
  <1>15. IsFiniteSet(Matching(w, z))
         BY <1>13, <1>14, FS_Subset DEF UsableOf
  <1>16. Matching(w, z) = {r}
         BY <1>6, <1>8, <1>15, OnlyOne DEF TheMatch
  <1>17. r \in w.feed.records /\ r.rate \in Int
         BY <1>13, <1>14, <1>16 DEF UsableOf
  <1>18. z.rate \in Int
         BY <1>9 DEF SurveyFits
  <1>19. Gap(r.rate, m.rate) <= MaxRateDifference
         BY <1>7, <1>8, <1>17, <1>18, GapIsSymmetric
  <1> QED
      BY <1>7, <1>8, <1>9, <1>12, <1>13, <1>16, <1>19

(* Each family is of an enabled protocol.                                   *)
LEMMA FamiliesAreEnabled ==
  ASSUME NEW w, NEW m \in ZestMarkets(w) \cup Families(w)
  PROVE  m.protocol \in w.enabled
  <1>1. CASE m \in ZestMarkets(w)
    <2>1. "zest" \in w.enabled /\ \E asset : m = ZestReconciled(w, asset)
          BY <1>1, Zenon DEF ZestMarkets, ZestReconciled
    <2> QED
        BY <2>1, ReconciledIs
  <1>2. CASE m \in StrategyMarkets(w)
        BY <1>2, StrategyIs DEF MadeOf
  <1>3. CASE m \in GraniteMarkets(w)
        BY <1>3, GraniteIs DEF MadeOf
  <1>4. CASE m \in BitflowMarkets(w)
        BY <1>4, BitflowIs DEF SelfReported, MadeOf
  <1>5. CASE m \in HermeticaMarkets(w)
        BY <1>5, HermeticaIs DEF SelfReported, MadeOf
  <1>6. CASE m \in StackingDaoMarkets(w)
        BY <1>6, StackingDaoIs DEF SelfReported, MadeOf
  <1> QED
      BY <1>1, <1>2, <1>3, <1>4, <1>5, <1>6 DEF Families

LEMMA EveryProtocolIsListed ==
  ASSUME NEW w
  PROVE  {m.protocol : m \in Catalog(w)} = w.enabled
  <1>1. \A m \in Catalog(w) : m.protocol \in w.enabled
    <2>1. \A p : Blank(w, p).protocol = p
          BY BlankIs DEF MadeOf
    <2> QED
        BY <2>1, CatalogIs, FamiliesAreEnabled
  <1>2. \A p \in w.enabled : \E m \in Catalog(w) : m.protocol = p
    <2>1. \A p : Blank(w, p).protocol = p
          BY BlankIs DEF MadeOf
    <2> QED
        BY <2>1, CatalogIs
  <1> QED
      BY <1>1, <1>2

(* What a position is shown is of one market of its protocol.               *)
LEMMA SourceIsOfFamily ==
  ASSUME NEW w, NEW p, NEW symbol, NEW m \in RateSources(Catalog(w), p, symbol)
  PROVE  /\ m.protocol = p /\ m.rate # Missing /\ Trusted(m) /\ Concerns(m, p, symbol)
         /\ \/ p = "zest" /\ \E asset \in DOMAIN w.zest : m = ZestReconciled(w, asset)
            \/ p = "zest" /\ m \in StrategyMarkets(w)
            \/ p = "granite" /\ m \in GraniteMarkets(w)
            \/ p = "hermetica" /\ m \in HermeticaMarkets(w)
            \/ p = "stackingdao" /\ m \in StackingDaoMarkets(w)
  <1>1. m \in Catalog(w) /\ m.rate # Missing /\ Trusted(m) /\ Concerns(m, p, symbol)
        BY DEF RateSources
  <1>2. m.protocol = p
        BY <1>1, Zenon DEF Concerns
  <1>3. CASE \E asset \in DOMAIN w.zest : m = ZestReconciled(w, asset)
        BY <1>1, <1>2, <1>3, ReconciledIs
  <1>4. CASE \E q : m = Blank(w, q)
        BY <1>1, <1>4, BlankIs
  <1>5. CASE m \in StrategyMarkets(w)
        BY <1>1, <1>2, <1>5, StrategyIs DEF MadeOf
  <1>6. CASE m \in GraniteMarkets(w)
        BY <1>1, <1>2, <1>6, GraniteIs DEF MadeOf
  <1>7. m \notin BitflowMarkets(w)
    <2> SUFFICES ASSUME m \in BitflowMarkets(w) PROVE FALSE
        OBVIOUS
    <2>1. m.state = "provider-reported" /\ m.confidence = 70
          BY <1>1, BitflowIs, ZenonT(40) DEF SelfReported
    <2> QED
        BY <1>1, <2>1 DEF Trusted
  <1>8. CASE m \in HermeticaMarkets(w)
        BY <1>1, <1>2, <1>8, HermeticaIs DEF SelfReported, MadeOf
  <1>9. CASE m \in StackingDaoMarkets(w)
        BY <1>1, <1>2, <1>9, StackingDaoIs DEF SelfReported, MadeOf
  <1> QED
      BY <1>1, <1>3, <1>4, <1>5, <1>6, <1>7, <1>8, <1>9, CatalogIs DEF Families

LEMMA ReceiptsAre ==
  /\ "zvstBTC" \in DOMAIN Receipt /\ Receipt["zvstBTC"] = "zvstBTC"
  /\ \A s \in DOMAIN Receipt : Receipt[s] = "zvstBTC" => s = "zvstBTC"
  BY DEF Receipt

LEMMA OneRateOfZest ==
  ASSUME NEW w, SurveyFits(w), NEW symbol,
         NEW m \in RateSources(Catalog(w), "zest", symbol),
         NEW n \in RateSources(Catalog(w), "zest", symbol)
  PROVE  m = n
  <1> DEFINE About(x) == \/ symbol \in x.assets
                         \/ symbol \in DOMAIN Receipt /\ Receipt[symbol] \in x.assets
             Lent(x) == \E asset \in DOMAIN w.zest : x = ZestReconciled(w, asset)
  <1>1. \A x : Concerns(x, "zest", symbol) => About(x)
        BY DEF Concerns
  <1>2. /\ About(m) /\ (Lent(m) \/ m \in StrategyMarkets(w))
        /\ About(n) /\ (Lent(n) \/ n \in StrategyMarkets(w))
        BY <1>1, SourceIsOfFamily
  <1>3. \A x : Lent(x) => \E asset \in DOMAIN w.zest : /\ x = ZestReconciled(w, asset)
                                                      /\ x.assets = {asset}
                                                      /\ asset \notin DOMAIN Receipt
        BY ReconciledIs DEF SurveyFits
  <1>4. \A x \in StrategyMarkets(w) : x.assets = {"zvstBTC"}
        BY StrategyIs DEF MadeOf
  <1>5. \A x \in StrategyMarkets(w) : About(x) => symbol = "zvstBTC"
        BY <1>4, ReceiptsAre
  <1>6. \A x : Lent(x) /\ About(x) => symbol # "zvstBTC"
        BY <1>3, ReceiptsAre
  <1>7. CASE m \in StrategyMarkets(w) /\ n \in StrategyMarkets(w)
        BY <1>7, StrategyIs
  <1>8. CASE Lent(m) /\ Lent(n)
    <2>1. PICK a, b : /\ m = ZestReconciled(w, a) /\ m.assets = {a} /\ a \notin DOMAIN Receipt
                      /\ n = ZestReconciled(w, b) /\ n.assets = {b} /\ b \notin DOMAIN Receipt
          BY <1>3, <1>8
    <2>2. a = b
          BY <1>2, <2>1
    <2> QED
        BY <2>1, <2>2
  <1> QED
      BY <1>2, <1>5, <1>6, <1>7, <1>8

LEMMA OneRateShown ==
  ASSUME NEW w, SurveyFits(w), NEW p, NEW symbol
  PROVE  LET ms == RateSources(Catalog(w), p, symbol)
         IN  Cardinality(ms) <= 1 /\ (p = "bitflow" => ms = {})
  <1> PICK ms : ms = RateSources(Catalog(w), p, symbol)
      OBVIOUS
  <1>1. ASSUME NEW m \in ms, NEW n \in ms PROVE m = n
    <2>1. CASE p = "zest"
          BY <2>1, OneRateOfZest
    <2>2. CASE p = "granite"
          BY <2>2, SourceIsOfFamily, GraniteIs
    <2>3. CASE p = "hermetica"
          BY <2>3, SourceIsOfFamily, HermeticaIs
    <2>4. CASE p = "stackingdao"
      <3>1. m \in StackingDaoMarkets(w) /\ n \in StackingDaoMarkets(w)
            BY <2>4, SourceIsOfFamily
      <3>2. /\ Concerns(m, p, symbol) /\ Concerns(n, p, symbol)
            /\ m.rate # Missing /\ n.rate # Missing
            BY SourceIsOfFamily
      <3>3. symbol \in m.assets /\ symbol \in n.assets
            BY <2>4, <3>2 DEF Concerns
      <3> QED
          BY <3>1, <3>2, <3>3, StackingDaoIs
    <2> QED
        BY <2>1, <2>2, <2>3, <2>4, SourceIsOfFamily
  <1>2. p = "bitflow" => ms = {}
        BY SourceIsOfFamily
  <1>3. ms = {} \/ \E m : ms = {m}
        BY <1>1, SMTT(30)
  <1>4. Cardinality(ms) \in {0, 1}
        BY <1>3, FS_EmptySet, FS_Singleton
  <1> QED
      BY <1>2, <1>4

(* The catalog of yield markets, for anything the protocols and the feed    *)
(* answer: discover and the gates of the strategy engine.  Only a Zest      *)
(* market carries the word of somebody else about its rate, and it does     *)
(* only when one record of the feed is of its asset and agrees with the     *)
(* rate that was computed from the vault; the others have no such word, and *)
(* the gate asks for one.                                                   *)
THEOREM CatalogHolds ==
  ASSUME NEW w, SurveyFits(w)
  PROVE  CatalogIsSound(w)
  <1>1. {m.protocol : m \in Catalog(w)} = w.enabled
        BY EveryProtocolIsListed
  <1>2. \A mode \in DOMAIN MaxAge, m \in Catalog(w) : PassesGate(m, mode) => mode \in Modes(m)
    <2> TAKE mode \in DOMAIN MaxAge, m \in Catalog(w)
    <2>1. mode = "recommend" \/ mode = "explore"
          BY DEF MaxAge
    <2>2. PassesGate(m, mode) => m.rate # Missing
          BY Zenon DEF PassesGate, InBounds
    <2>3. PassesGate(m, "recommend") => m.eligible
          BY Zenon DEF PassesGate, RecommendGate
    <2> QED
        BY <2>1, <2>2, <2>3 DEF Modes
  <1>3. \A m \in Recommended(w) :
          \E asset \in DOMAIN w.zest :
             /\ m.assets = {asset} /\ w.zest[asset] # NoAnswer
             /\ \E r \in UsableOf(w, asset) : /\ UsableOf(w, asset) = {r} /\ r.tvl = m.tvl
                                             /\ Gap(r.rate, m.rate) <= MaxRateDifference
        BY RecommendedRests
  <1>4. Recommended([w EXCEPT !.feed = NoAnswer]) = {}
    <2>1. PICK v : v = [w EXCEPT !.feed = NoAnswer]
          OBVIOUS
    <2>2. SurveyFits(v) /\ v.feed = NoAnswer
          BY <2>1 DEF SurveyFits
    <2> QED
        BY <2>1, <2>2, RecommendedRests
  <1>5. Recommended([w EXCEPT !.zest = [a \in DOMAIN w.zest |-> NoAnswer]]) = {}
    <2>1. PICK silent : silent = [a \in DOMAIN w.zest |-> NoAnswer]
          OBVIOUS
    <2>2. PICK v : v = [w EXCEPT !.zest = silent]
          OBVIOUS
    <2>3. /\ v = [enabled |-> w.enabled, tip |-> w.tip, age |-> w.age,
                  strategyApproved |-> w.strategyApproved, feed |-> w.feed, zest |-> silent,
                  strategy |-> w.strategy, granite |-> w.granite, bitflow |-> w.bitflow,
                  hermetica |-> w.hermetica, stacking |-> w.stacking]
          BY <2>2 DEF SurveyFits
    <2>4. v.zest = silent /\ v.feed = w.feed /\ \A a \in DOMAIN v.zest : v.zest[a] = NoAnswer
          BY <2>1, <2>3
    <2>5. DOMAIN v.zest = DOMAIN w.zest
          BY <2>1, <2>4
    <2>6. SurveyFits(v)
          BY <2>3, <2>4, <2>5 DEF SurveyFits
    <2> QED
        BY <2>1, <2>2, <2>4, <2>6, RecommendedRests, ZenonT(40)
  <1>6. \A p, symbol : LET ms == RateSources(Catalog(w), p, symbol)
                       IN  Cardinality(ms) <= 1 /\ (p = "bitflow" => ms = {})
        BY OneRateShown
  <1> QED
      BY <1>1, <1>2, <1>3, <1>4, <1>5, <1>6 DEF CatalogIsSound, UsableOf

(* What the protocols and the feed are asked about in the run fits.         *)
LEMMA RateIsInt ==
  ASSUME NEW v, v.borrow \in Int, v.utilization \in Int, v.reserve \in Int
  PROVE  SupplyRate(v) \in Int
  <1> PICK h : h = HundredPercent
      OBVIOUS
  <1>1. h \in Nat /\ h > 0
        BY DEF HundredPercent
  <1>2. \A a \in Int : a \div h \in Int /\ a % h \in Int
        BY <1>1
  <1> PICK x : x = v.borrow * v.utilization
      OBVIOUS
  <1> PICK k : k = h - v.reserve
      OBVIOUS
  <1>3. x \in Int /\ k \in Int
        BY <1>1
  <1> PICK high : high = (x \div h) * k
      OBVIOUS
  <1> PICK y : y = (x % h) * k
      OBVIOUS
  <1> PICK low : low = y \div h
      OBVIOUS
  <1>4. high \in Int /\ y \in Int
        BY <1>2, <1>3
  <1>5. low \in Int
        BY <1>2, <1>4
  <1>6. (high + low) \div h \in Int
        BY <1>2, <1>4, <1>5
  <1> QED
      BY <1>6 DEF SupplyRate

LEMMA VaultRates ==
  /\ \A stx \in StxVaults : stx = NoAnswer \/ SupplyRate(stx) \in Int
  /\ SupplyRate(BtcVault) \in Int
  <1>1. ASSUME NEW v, v.borrow \in Int /\ v.utilization \in Int /\ v.reserve \in Int
        PROVE  SupplyRate(v) \in Int
        BY <1>1, RateIsInt
  <1>2. \A stx \in StxVaults :
           stx = NoAnswer \/ (stx.borrow \in Int /\ stx.utilization \in Int /\ stx.reserve \in Int)
        BY DEF StxVaults, Vault
  <1>3. BtcVault.borrow \in Int /\ BtcVault.utilization \in Int /\ BtcVault.reserve \in Int
        BY DEF BtcVault, Vault
  <1> QED
      BY <1>1, <1>2, <1>3

LEMMA RecordsFit ==
  IsFiniteSet(Records) /\ \A r \in Records : r.rate \in Int
  <1>1. \A r \in Records : r.rate \in Int
        BY DEF Records, SteadyPool, HigherPool, SparsePool, BtcPool, FeedRecord
  <1>2. IsFiniteSet(Records)
    <2>1. Records = {SteadyPool, HigherPool, SparsePool, BtcPool, BtcPool, BtcPool}
          BY DEF Records
    <2> QED
        BY <2>1, SixAreFinite
  <1> QED
      BY <1>1, <1>2

(* The world that is asked about.                                           *)
LEMMA CatalogAskedFits ==
  ASSUME AskCatalog
  PROVE  \E w : question' = <<"catalog", w>> /\ SurveyFits(w)
  <1>1. \A f \in FeedAnswers : f = NoAnswer \/ f.records \subseteq Records
        BY DEF FeedAnswers
  <1>2. PICK enabled \in {Protocols, {"zest"}, Protocols \ {"zest"}}, tip, answers \in BOOLEAN,
             stx \in StxVaults, growth \in Growths, age \in VaultAges, feed \in FeedAnswers :
          Question("catalog", Survey(enabled, tip, answers, stx, growth, age, feed))
        BY Zenon DEF AskCatalog
  <1> PICK w : w = Survey(enabled, tip, answers, stx, growth, age, feed)
      OBVIOUS
  <1> PICK zest : zest = [STX |-> stx, sBTC |-> BtcVault]
      OBVIOUS
  <1>3. question' = <<"catalog", w>>
        BY <1>2 DEF Question
  <1>7. w.feed = feed /\ w.zest = zest
        BY DEF Survey
  <1>4. w.feed = NoAnswer \/ (IsFiniteSet(w.feed.records) /\ \A r \in w.feed.records : r.rate \in Int)
    <2>1. feed = NoAnswer \/ (IsFiniteSet(feed.records) /\ \A r \in feed.records : r.rate \in Int)
          BY <1>1, RecordsFit, FS_Subset
    <2> QED
        BY <2>1, <1>7
  <1>5. \A asset \in DOMAIN w.zest :
           /\ asset \notin DOMAIN Receipt
           /\ w.zest[asset] = NoAnswer \/ SupplyRate(w.zest[asset]) \in Int
    <2>1. DOMAIN zest = {"STX", "sBTC"} /\ zest["STX"] = stx /\ zest["sBTC"] = BtcVault
          OBVIOUS
    <2>2. DOMAIN Receipt = {"zSTX", "zsBTC", "zstSTX", "zvstBTC"}
          BY DEF Receipt
    <2> QED
        BY <1>7, <2>1, <2>2, VaultRates
  <1>6. w = [enabled |-> w.enabled, tip |-> w.tip, age |-> w.age,
            strategyApproved |-> w.strategyApproved, feed |-> w.feed, zest |-> w.zest,
            strategy |-> w.strategy, granite |-> w.granite, bitflow |-> w.bitflow,
            hermetica |-> w.hermetica, stacking |-> w.stacking]
        BY DEF Survey
  <1> QED
      BY <1>3, <1>4, <1>5, <1>6 DEF SurveyFits

(* The strategy engine and the catalog, for every question of the run:      *)
(* PlansAreOptimal and CatalogHolds, of any markets, capital and answers,   *)
(* applied to those that are asked about.                                   *)
THEOREM YieldsHold ==
  Decisions => []YieldsSound
  <1>1. AskNothing => YieldsSound
        BY DEF AskNothing, NotAsked, YieldsSound
  <1>2. ASSUME AskAny PROVE YieldsSound'
    <2>1. CASE AskAllocation
          BY <2>1, AskAllocationHolds
    <2>2. CASE AskCatalog
      <3>1. PICK w : question' = <<"catalog", w>> /\ SurveyFits(w)
            BY <2>2, CatalogAskedFits
      <3>2. CatalogIsSound(w)
            BY <3>1, CatalogHolds
      <3>3. question'[1] = "catalog" /\ question'[2] = w
            BY <3>1
      <3> QED
          BY <3>2, <3>3 DEF YieldsSound
    <2>3. ASSUME NEW s, NEW i, question' = <<s, i>>, s \notin {"allocation", "catalog"}
          PROVE  YieldsSound'
      <3>1. question'[1] = s
            BY <2>3
      <3> QED
          BY <2>3, <3>1 DEF YieldsSound
    <2> QED
        BY <1>2, <2>1, <2>2, <2>3, SubjectsAsked DEF AskAny
  <1>3. YieldsSound /\ UNCHANGED question => YieldsSound'
        BY DEF YieldsSound
  <1>4. YieldsSound /\ [AskAny]_question => YieldsSound'
        BY <1>2, <1>3
  <1> QED
      BY <1>1, <1>4, PTL DEF Decisions

-----------------------------------------------------------------------------
(* Sums over parts that share nothing, and the larger of two.              *)

(* A sum over disjoint parts is the sum of the sums over each.              *)
Disjoint(part, P, D) ==
    /\ \A x \in P : part[x] \in SUBSET D
    /\ \A x, y \in P : x # y => part[x] \cap part[y] = {}
UnionOf(part, Q) == UNION {part[x] : x \in Q}

LEMMA JoinOneMore ==
  ASSUME NEW part, NEW P, NEW D, Disjoint(part, P, D), NEW Q \in SUBSET P, NEW x \in P \ Q
  PROVE  /\ UnionOf(part, Q) \in SUBSET D /\ UnionOf(part, Q) \cap part[x] = {}
         /\ UnionOf(part, Q \cup {x}) = UnionOf(part, Q) \cup part[x]
  BY DEF Disjoint, UnionOf

LEMMA PartsAddUp ==
  ASSUME NEW D, IsFiniteSet(D), NEW v \in [D -> Int], NEW P, IsFiniteSet(P),
         NEW part, Disjoint(part, P, D), NEW m \in [P -> Int],
         \A x \in P : m[x] = SumFunctionOnSet(v, part[x])
  PROVE  SumFunction(m) = SumFunctionOnSet(v, UnionOf(part, P))
  <1> DEFINE S == {Q \in SUBSET P : SumFunctionOnSet(m, Q) = SumFunctionOnSet(v, UnionOf(part, Q))}
  <1>1. {} \in S
    <2>1. UnionOf(part, {}) = {}
          BY DEF UnionOf
    <2>2. SumFunctionOnSet(m, {}) = 0 /\ SumFunctionOnSet(v, {}) = 0
          BY SumStep
    <2> QED
        BY <2>1, <2>2
  <1>2. ASSUME NEW Q \in SUBSET P, NEW x \in P \ Q, Q \in S PROVE Q \cup {x} \in S
    <2>1. SumFunctionOnSet(m, Q \cup {x}) = SumFunctionOnSet(m, Q) + m[x]
          BY SumStep
    <2>2. PICK T, U : T = UnionOf(part, Q) /\ U = part[x]
          OBVIOUS
    <2>3. /\ T \in SUBSET D /\ U \in SUBSET D /\ T \cap U = {}
          /\ UnionOf(part, Q \cup {x}) = T \cup U
          BY <2>2, JoinOneMore, ZenonT(40) DEF Disjoint
    <2>4. SumFunctionOnSet(v, T \cup U) = SumFunctionOnSet(v, T) + SumFunctionOnSet(v, U)
          BY <2>3, TotalsJoin
    <2> QED
        BY <1>2, <2>1, <2>2, <2>3, <2>4
  <1>3. SUBSET P \subseteq S
    <2> HIDE DEF S
    <2> QED
        BY <1>1, <1>2, SubsetInduction
  <1>4. SumFunctionOnSet(m, P) = SumFunctionOnSet(v, UnionOf(part, P))
        BY <1>3
  <1>5. DOMAIN m = P
        OBVIOUS
  <1> QED
      BY <1>4, <1>5 DEF SumFunction

(* The same of the classes of a key: what the parts are called.             *)
Class(D, key, z) == {i \in D : key[i] = z}
Names(P, name, D, key) ==
    /\ \A x, y \in P : name[x] = name[y] => x = y
    /\ \A i \in D : \E x \in P : name[x] = key[i]

LEMMA ClassesAddUp ==
  ASSUME NEW D, IsFiniteSet(D), NEW v \in [D -> Int], NEW P, IsFiniteSet(P),
         NEW key, NEW name, Names(P, name, D, key), NEW m \in [P -> Int],
         \A x \in P : m[x] = SumFunctionOnSet(v, Class(D, key, name[x]))
  PROVE  SumFunction(m) = SumFunctionOnSet(v, D)
  <1>1. PICK part : part = [x \in P |-> Class(D, key, name[x])]
        OBVIOUS
  <1>2. Disjoint(part, P, D)
        BY <1>1 DEF Disjoint, Class, Names
  <1>3. UnionOf(part, P) = D
        BY <1>1 DEF UnionOf, Class, Names
  <1>4. \A x \in P : m[x] = SumFunctionOnSet(v, part[x])
        BY <1>1
  <1> QED
      BY <1>2, <1>3, <1>4, PartsAddUp

(* What is counted is a sum of ones.                                        *)
Ones(D, F) == [i \in D |-> IF i \in F THEN 1 ELSE 0]

LEMMA CountsAreTotals ==
  ASSUME NEW D, IsFiniteSet(D), NEW F
  PROVE  /\ Ones(D, F) \in [D -> Int]
         /\ \A T \in SUBSET D : SumFunctionOnSet(Ones(D, F), T) = Cardinality(T \cap F)
  <1>1. PICK v : v = Ones(D, F)
        OBVIOUS
  <1>2. v \in [D -> Int] /\ \A i \in D : v[i] = IF i \in F THEN 1 ELSE 0
        BY <1>1 DEF Ones
  <1> DEFINE S == {T \in SUBSET D : SumFunctionOnSet(v, T) = Cardinality(T \cap F)}
  <1>3. {} \in S
    <2>1. SumFunctionOnSet(v, {}) = 0
          BY <1>2, SumStep
    <2>2. {} \cap F = {}
          OBVIOUS
    <2> QED
        BY <2>1, <2>2, FS_EmptySet
  <1>4. ASSUME NEW T \in SUBSET D, NEW x \in D \ T, T \in S PROVE T \cup {x} \in S
    <2>1. SumFunctionOnSet(v, T \cup {x}) = SumFunctionOnSet(v, T) + v[x]
          BY <1>2, SumStep
    <2>2. PICK U : U = T \cap F
          OBVIOUS
    <2>3. IsFiniteSet(U) /\ Cardinality(U) \in Nat /\ x \notin U
          BY <2>2, FS_Subset, FS_CardinalityType
    <2>4. CASE x \in F
      <3>1. (T \cup {x}) \cap F = U \cup {x}
            BY <2>2, <2>4
      <3>2. Cardinality(U \cup {x}) = Cardinality(U) + 1
            BY <2>3, FS_AddElement
      <3> QED
          BY <1>2, <1>4, <2>1, <2>2, <2>4, <3>1, <3>2
    <2>5. CASE x \notin F
      <3>1. (T \cup {x}) \cap F = U
            BY <2>2, <2>5
      <3>2. v[x] = 0 /\ SumFunctionOnSet(v, T) = Cardinality(U)
            BY <1>2, <1>4, <2>2, <2>5
      <3> QED
          BY <2>1, <2>3, <3>1, <3>2
    <2> QED
        BY <2>4, <2>5
  <1>5. SUBSET D \subseteq S
    <2> HIDE DEF S
    <2> QED
        BY <1>3, <1>4, SubsetInduction
  <1> QED
      BY <1>1, <1>2, <1>5

LEMMA OfTwo ==
  ASSUME NEW a \in Int, NEW b \in Int
  PROVE  Max({a, b}) = (IF a <= b THEN b ELSE a) /\ Min({a, b}) = (IF a <= b THEN a ELSE b)
  <1>1. PICK p, q : /\ p \in {a, b} /\ q \in {a, b}
                    /\ p = (IF a <= b THEN b ELSE a) /\ q = (IF a <= b THEN a ELSE b)
        OBVIOUS
  <1>2. /\ \A x \in {a, b} : p >= x /\ q <= x
        /\ \A x \in {a, b} : (\A y \in {a, b} : x >= y) => x = p
        /\ \A x \in {a, b} : (\A y \in {a, b} : x <= y) => x = q
        BY <1>1
  <1>3. Max({a, b}) = p
        BY <1>1, <1>2 DEF Max
  <1>4. Min({a, b}) = q
        BY <1>1, <1>2 DEF Min
  <1> QED
      BY <1>1, <1>3, <1>4

-----------------------------------------------------------------------------
(* UsageAnalytics.  What is counted of the requests of a window.            *)

(* Requests as they are asked: each later than the one before.              *)
RequestsFit(requests) ==
    /\ IsFiniteSet(DOMAIN requests) /\ DOMAIN requests \subseteq Int
    /\ \A i \in DOMAIN requests :
         /\ requests[i].took \in Nat /\ requests[i].at \in Int /\ requests[i].status \in Int
         /\ requests[i].address # NoHash
    /\ \A i, j \in DOMAIN requests : i < j => requests[i].at < requests[j].at

LogFits(es, salted) ==
    /\ IsFiniteSet(DOMAIN es) /\ DOMAIN es \subseteq Int
    /\ \A i \in DOMAIN es :
         /\ es[i].took \in Nat /\ es[i].at \in Int /\ es[i].status \in Int
         /\ es[i].kind \in WorkflowKinds => es[i].status < 400
    /\ \A i, j \in DOMAIN es : i < j => es[i].at < es[j].at
    /\ salted => NoHash \notin Hashes(es)

LEMMA SearchesAreOverviews ==
  ASSUME NEW q, EventKind(q) \in WorkflowKinds, q.status \in Int
  PROVE  q.status < 400 /\ (EventKind(q) = "address-search" => q.route = "overview")
  <1>1. PICK of : of = {w \in Workflows : w[1] = q.method /\ w[2] = q.route}
        OBVIOUS
  <1>2. "api-request" \notin WorkflowKinds
        BY DEF WorkflowKinds, Workflows
  <1>3. EventKind(q) = IF q.status >= 400 \/ of = {} THEN "api-request"
                       ELSE (CHOOSE w \in of : TRUE)[3]
        BY <1>1 DEF EventKind
  <1>4. ~(q.status >= 400) /\ of # {}
        BY <1>2, <1>3
  <1>5. PICK chosen : chosen = CHOOSE w \in of : TRUE
        OBVIOUS
  <1>6. chosen \in of /\ EventKind(q) = chosen[3]
        BY <1>3, <1>4, <1>5
  <1>7. chosen \in Workflows /\ chosen[2] = q.route
        BY <1>1, <1>6
  <1>8. chosen[3] = "address-search" => chosen[2] = "overview"
        BY <1>7 DEF Workflows
  <1> QED
      BY <1>4, <1>6, <1>7, <1>8

LEMMA RecordedFits ==
  ASSUME NEW requests, RequestsFit(requests), NEW salted \in BOOLEAN, NEW since
  PROVE  LogFits(InWindow(Recorded(requests, salted), since), salted)
  <1>1. PICK log : log = Recorded(requests, salted)
        OBVIOUS
  <1>2. PICK D, E : D = DOMAIN requests /\ E = {k \in D : requests[k].route \notin Unrecorded}
        OBVIOUS
  <1>3. log = [i \in E |-> RecordOf(requests[i], salted)]
        BY <1>1, <1>2 DEF Recorded
  <1>4. PICK es, W : es = InWindow(log, since) /\ W = {i \in E : log[i].at >= since}
        OBVIOUS
  <1>5. es = [i \in W |-> log[i]]
        BY <1>3, <1>4 DEF InWindow, Restrict
  <1>6. /\ DOMAIN es = W /\ W \subseteq D
        /\ \A i \in W : es[i] = RecordOf(requests[i], salted)
        BY <1>2, <1>3, <1>4, <1>5
  <1>7. IsFiniteSet(W) /\ W \subseteq Int
        BY <1>2, <1>6, FS_Subset DEF RequestsFit
  <1>8. ASSUME NEW i \in W
        PROVE  /\ es[i].took = requests[i].took /\ es[i].at = requests[i].at
               /\ es[i].status = requests[i].status /\ es[i].kind = EventKind(requests[i])
               /\ es[i].hash = AddressHash(requests[i], salted)
        BY <1>6 DEF RecordOf
  <1>9. ASSUME NEW i \in W
        PROVE  /\ requests[i].took \in Nat /\ requests[i].at \in Int
               /\ requests[i].status \in Int /\ requests[i].address # NoHash
        BY <1>2, <1>6 DEF RequestsFit
  <1>10. ASSUME NEW i \in W, es[i].kind \in WorkflowKinds PROVE es[i].status < 400
         BY <1>8, <1>9, <1>10, SearchesAreOverviews
  <1>11. ASSUME NEW i \in W, NEW j \in W, i < j PROVE es[i].at < es[j].at
         BY <1>2, <1>6, <1>8, <1>11 DEF RequestsFit
  <1>12. ASSUME salted, NEW i \in OfKind(es, "address-search") PROVE es[i].hash # NoHash
    <2>1. PICK q : q = requests[i]
          OBVIOUS
    <2>2. i \in W /\ EventKind(q) = "address-search" /\ q.status \in Int /\ q.address # NoHash
          BY <1>6, <1>8, <1>9, <2>1 DEF OfKind
    <2>3. "address-search" \in WorkflowKinds
          BY DEF WorkflowKinds, Workflows
    <2>4. q.status < 400 /\ q.route = "overview"
          BY <2>2, <2>3, SearchesAreOverviews
    <2>5. es[i].hash = q.address
          BY <1>8, <1>12, <2>1, <2>2, <2>4 DEF AddressHash
    <2> QED
        BY <2>2, <2>5
  <1>13. salted => NoHash \notin Hashes(es)
         BY <1>12 DEF Hashes
  <1>14. LogFits(es, salted)
         BY <1>6, <1>7, <1>8, <1>9, <1>10, <1>11, <1>13, ZenonT(40) DEF LogFits
  <1> QED
      BY <1>1, <1>4, <1>14

(* The latest by their time are the last recorded.                          *)
LEMMA RecentAgree ==
  ASSUME NEW es, NEW salted, LogFits(es, salted)
  PROVE  MemoryRecent(es) = PostgresRecent(es)
  <1>1. PICK D : D = DOMAIN es
        OBVIOUS
  <1>2. /\ \A i \in D : i \in Int /\ es[i].at \in Int
        /\ \A i, j \in D : i < j => es[i].at < es[j].at
        BY <1>1 DEF LogFits
  <1>3. \A i, j \in D : i > j <=> es[i].at > es[j].at
        BY <1>2
  <1>4. {p \in Pairs(D) : p[1] > p[2]} = {p \in Pairs(D) : es[p[1]].at > es[p[2]].at}
        BY <1>3 DEF Pairs
  <1> QED
      BY <1>1, <1>4 DEF MemoryRecent, PostgresRecent

(* Some of them are the busiest.                                            *)
LEMMA SomeAreBusiest ==
  ASSUME NEW E, IsFiniteSet(E), NEW b, \A x \in E : b[x] \in Int, NEW k \in Nat, k <= Cardinality(E)
  PROVE  \E S \in SUBSET E : Cardinality(S) = k /\ \A x \in S, y \in E \ S : b[x] >= b[y]
  <1> DEFINE Upto == {n \in Nat : n <= Cardinality(E) =>
                        \E S \in SUBSET E : Cardinality(S) = n /\ \A x \in S, y \in E \ S : b[x] >= b[y]}
  <1>1. 0 \in Upto
    <2>1. {} \in SUBSET E /\ Cardinality({}) = 0
          BY FS_EmptySet
    <2> QED
        BY <2>1
  <1>2. ASSUME NEW n \in Nat, n \in Upto PROVE n + 1 \in Upto
    <2>1. SUFFICES ASSUME n + 1 <= Cardinality(E)
                   PROVE  \E S \in SUBSET E : /\ Cardinality(S) = n + 1
                                              /\ \A x \in S, y \in E \ S : b[x] >= b[y]
          OBVIOUS
    <2>2. Cardinality(E) \in Nat
          BY FS_CardinalityType
    <2>3. PICK S \in SUBSET E : Cardinality(S) = n /\ \A x \in S, y \in E \ S : b[x] >= b[y]
          BY <1>2, <2>1, <2>2
    <2>4. PICK R : R = {p \in Pairs(E) : b[p[1]] >= b[p[2]]}
          OBVIOUS
    <2>5. S # E
          BY <2>1, <2>2, <2>3
    <2>6. IsFiniteSet(S) /\ IsFiniteSet(E \ S) /\ E \ S # {}
          BY <2>5, FS_Subset
    <2>7. \A x, y \in E : <<x, y>> \in R <=> b[x] >= b[y]
          BY <2>4 DEF Pairs
    <2>8. PICK z \in E \ S : \A y \in (E \ S) \ {z} : <<z, y>> \in R
      <3>1. PICK C : C = E \ S
            OBVIOUS
      <3>2. IsFiniteSet(C) /\ C # {} /\ \A x \in C : x \in E /\ b[x] \in Int
            BY <2>6, <3>1
      <3>3. \A x, y \in C : x # y => <<x, y>> \in R \/ <<y, x>> \in R
            BY <2>7, <3>2
      <3>4. \A x, y, w \in C : <<x, y>> \in R /\ <<y, w>> \in R => <<x, w>> \in R
            BY <2>7, <3>2
      <3>5. \E x \in C : \A y \in C \ {x} : <<x, y>> \in R
            BY <3>2, <3>3, <3>4, FirstOfFinite, SMTT(30)
      <3> QED
          BY <3>1, <3>5
    <2>9. Cardinality(S \cup {z}) = n + 1
          BY <2>3, <2>6, <2>8, FS_AddElement
    <2>10. \A x \in S \cup {z}, y \in E \ (S \cup {z}) : b[x] >= b[y]
           BY <2>3, <2>7, <2>8
    <2> QED
        BY <2>8, <2>9, <2>10
  <1>3. Nat \subseteq Upto
    <2> HIDE DEF Upto
    <2> QED
        BY <1>1, <1>2, NatSetInduction
  <1> QED
      BY <1>3

(* What is counted of responses, as sums over the log: of ones, of ones for *)
(* failures, of durations.                                                  *)
Took(es) == [i \in DOMAIN es |-> es[i].took]
Counts(c, es, U) ==
    /\ c["requests"] = SumFunctionOnSet(Ones(DOMAIN es, DOMAIN es), U)
    /\ c["errors"] = SumFunctionOnSet(Ones(DOMAIN es, Failing(es)), U)
    /\ c["took"] = SumFunctionOnSet(Took(es), U)
Excerpt(es, f, U) == DOMAIN f = U /\ \A i \in U : f[i] = es[i]

LEMMA CountedIs ==
  ASSUME NEW es, NEW salted, LogFits(es, salted), NEW U \in SUBSET DOMAIN es, NEW f, Excerpt(es, f, U)
  PROVE  Counts(Counted(f), es, U)
  <1>1. PICK D : D = DOMAIN es
        OBVIOUS
  <1>2. IsFiniteSet(D) /\ U \in SUBSET D /\ IsFiniteSet(U)
        BY <1>1, FS_Subset DEF LogFits
  <1>3. Cardinality(DOMAIN f) = SumFunctionOnSet(Ones(D, D), U)
    <2>1. SumFunctionOnSet(Ones(D, D), U) = Cardinality(U \cap D)
          BY <1>2, CountsAreTotals
    <2>2. U \cap D = U /\ DOMAIN f = U
          BY <1>2 DEF Excerpt
    <2> QED
        BY <2>1, <2>2
  <1>4. Cardinality(Failing(f)) = SumFunctionOnSet(Ones(D, Failing(es)), U)
    <2>1. PICK F : F = Failing(es)
          OBVIOUS
    <2>2. SumFunctionOnSet(Ones(D, F), U) = Cardinality(U \cap F)
          BY <1>2, CountsAreTotals
    <2>3. Failing(f) = U \cap F
          BY <1>1, <1>2, <2>1 DEF Failing, Excerpt
    <2> QED
        BY <2>1, <2>2, <2>3
  <1>5. PICK v, w : v = Took(es) /\ w = [i \in U |-> f[i].took]
        OBVIOUS
  <1>6. SumFunction([i \in DOMAIN f |-> f[i].took]) = SumFunctionOnSet(Took(es), U)
    <2>1. v \in [D -> Int]
          BY <1>1, <1>5 DEF Took, LogFits
    <2>2. w \in [U -> Int] /\ \A i \in U : w[i] = v[i]
          BY <1>1, <1>2, <1>5, <2>1 DEF Took, Excerpt
    <2>3. SumFunctionOnSet(w, U) = SumFunctionOnSet(v, U)
          BY <1>2, <2>1, <2>2, SumsAgree DEF Summable, AgreeOn
    <2>4. SumFunction(w) = SumFunctionOnSet(w, U)
          BY <2>2 DEF SumFunction
    <2>5. [i \in DOMAIN f |-> f[i].took] = w
          BY <1>5 DEF Excerpt
    <2> QED
        BY <1>5, <2>3, <2>4, <2>5
  <1>7. /\ Counted(f)["requests"] = Cardinality(DOMAIN f)
        /\ Counted(f)["errors"] = Cardinality(Failing(f))
        /\ Counted(f)["took"] = SumFunction([i \in DOMAIN f |-> f[i].took])
        BY DEF Counted
  <1> QED
      BY <1>1, <1>3, <1>4, <1>6, <1>7 DEF Counts

(* What is measured of each part adds up to what is measured of all, when   *)
(* the parts are the classes of a key.                                      *)
LEMMA AcrossClasses ==
  ASSUME NEW es, NEW salted, LogFits(es, salted), NEW parts, IsFiniteSet(parts),
         NEW key, NEW name, Names(parts, name, DOMAIN es, key),
         NEW field, NEW v \in [DOMAIN es -> Int],
         \A x \in parts : x[field] = SumFunctionOnSet(v, Class(DOMAIN es, key, name[x]))
  PROVE  Across(parts, field) = SumFunctionOnSet(v, DOMAIN es)
  <1>1. PICK D : D = DOMAIN es
        OBVIOUS
  <1>2. PICK m : m = [x \in parts |-> x[field]]
        OBVIOUS
  <1>3. IsFiniteSet(D) /\ v \in [D -> Int] /\ Names(parts, name, D, key)
        BY <1>1 DEF LogFits
  <1>4. ASSUME NEW x \in parts PROVE m[x] \in Int /\ m[x] = SumFunctionOnSet(v, Class(D, key, name[x]))
    <2>1. PICK T : T = Class(D, key, name[x])
          OBVIOUS
    <2>2. T \in SUBSET D
          BY <2>1 DEF Class
    <2>3. SumFunctionOnSet(v, T) \in Int
          BY <1>3, <2>2, SumStep
    <2> QED
        BY <1>1, <1>2, <2>1, <2>3
  <1>5. m \in [parts -> Int]
        BY <1>2, <1>4
  <1>6. SumFunction(m) = SumFunctionOnSet(v, D)
        BY <1>3, <1>4, <1>5, ClassesAddUp
  <1> QED
      BY <1>1, <1>2, <1>6 DEF Across

AddsUp(es, parts) ==
    \A field \in {"requests", "errors", "took"} : Across(parts, field) = Counted(es)[field]

LEMMA CountedAddsUp ==
  ASSUME NEW es, NEW salted, LogFits(es, salted), NEW parts, IsFiniteSet(parts),
         NEW key, NEW name, Names(parts, name, DOMAIN es, key),
         \A x \in parts : Counts(x, es, Class(DOMAIN es, key, name[x]))
  PROVE  AddsUp(es, parts)
  <1>1. PICK D : D = DOMAIN es
        OBVIOUS
  <1>2. Counts(Counted(es), es, D)
    <2>1. D \in SUBSET DOMAIN es /\ Excerpt(es, es, D)
          BY <1>1 DEF Excerpt
    <2> QED
        BY <2>1, CountedIs
  <1>3. PICK ones, fails, took : /\ ones = Ones(D, D) /\ fails = Ones(D, Failing(es))
                                 /\ took = Took(es)
        OBVIOUS
  <1>4. ones \in [D -> Int] /\ fails \in [D -> Int] /\ took \in [D -> Int]
    <2>1. IsFiniteSet(D)
          BY <1>1 DEF LogFits
    <2>2. ones \in [D -> Int] /\ fails \in [D -> Int]
          BY <1>3, <2>1, CountsAreTotals
    <2>3. took \in [D -> Int]
          BY <1>1, <1>3 DEF Took, LogFits
    <2> QED
        BY <2>2, <2>3
  <1>5. Across(parts, "requests") = SumFunctionOnSet(ones, D)
    <2>1. \A x \in parts : x["requests"] = SumFunctionOnSet(ones, Class(D, key, name[x]))
          BY <1>1, <1>3 DEF Counts
    <2> QED
        BY <1>1, <1>4, <2>1, AcrossClasses
  <1>6. Across(parts, "errors") = SumFunctionOnSet(fails, D)
    <2>1. \A x \in parts : x["errors"] = SumFunctionOnSet(fails, Class(D, key, name[x]))
          BY <1>1, <1>3 DEF Counts
    <2> QED
        BY <1>1, <1>4, <2>1, AcrossClasses
  <1>7. Across(parts, "took") = SumFunctionOnSet(took, D)
    <2>1. \A x \in parts : x["took"] = SumFunctionOnSet(took, Class(D, key, name[x]))
          BY <1>1, <1>3 DEF Counts
    <2> QED
        BY <1>1, <1>4, <2>1, AcrossClasses
  <1>8. /\ Counted(es)["requests"] = SumFunctionOnSet(ones, D)
        /\ Counted(es)["errors"] = SumFunctionOnSet(fails, D)
        /\ Counted(es)["took"] = SumFunctionOnSet(took, D)
        BY <1>1, <1>2, <1>3 DEF Counts
  <1> QED
      BY <1>5, <1>6, <1>7, <1>8 DEF AddsUp

(* Every response is of one route and in one hour.                          *)
LEMMA EndpointsAddUp ==
  ASSUME NEW es, NEW salted, LogFits(es, salted)
  PROVE  IsFiniteSet(Endpoints(es)) /\ AddsUp(es, Endpoints(es))
  <1>1. PICK D : D = DOMAIN es
        OBVIOUS
  <1>2. PICK key, point : /\ key = [i \in D |-> es[i].route]
                          /\ point = [i \in D |-> Endpoint(es, es[i].route)]
        OBVIOUS
  <1>3. PICK P : P = Endpoints(es)
        OBVIOUS
  <1>4. P = {point[i] : i \in D}
        BY <1>1, <1>2, <1>3 DEF Endpoints
  <1>5. IsFiniteSet(P)
    <2>1. IsFiniteSet(D)
          BY <1>1 DEF LogFits
    <2> QED
        BY <1>4, <2>1, ImageIsFinite
  <1>6. PICK name : name = [x \in P |-> x.route]
        OBVIOUS
  <1>7. ASSUME NEW i \in D
        PROVE  /\ point[i].route = key[i]
               /\ Counts(point[i], es, Class(D, key, key[i]))
    <2>1. PICK r, U, f, c : /\ r = es[i].route /\ U = {j \in D : es[j].route = r}
                            /\ f = Restrict(es, U) /\ c = Counted(f)
          OBVIOUS
    <2>2. point[i] = [route |-> r, requests |-> c.requests, errors |-> c.errors, took |-> c.took]
          BY <1>1, <1>2, <2>1 DEF Endpoint
    <2>3. U \in SUBSET DOMAIN es /\ Excerpt(es, f, U)
          BY <1>1, <2>1 DEF Excerpt, Restrict
    <2>4. Counts(c, es, U)
          BY <2>1, <2>3, CountedIs
    <2>5. U = Class(D, key, key[i]) /\ key[i] = r
          BY <1>2, <2>1 DEF Class
    <2>6. /\ point[i]["requests"] = c["requests"] /\ point[i]["errors"] = c["errors"]
          /\ point[i]["took"] = c["took"] /\ point[i].route = r
          BY <2>2
    <2> QED
        BY <2>4, <2>5, <2>6 DEF Counts
  <1>8. ASSUME NEW i \in D, NEW j \in D, key[i] = key[j] PROVE point[i] = point[j]
        BY <1>2, <1>8
  <1>9. Names(P, name, D, key)
    <2>1. \A x \in P : \E i \in D : x = point[i] /\ name[x] = key[i]
          BY <1>4, <1>6, <1>7
    <2>2. \A x, y \in P : name[x] = name[y] => x = y
          BY <1>8, <2>1
    <2>3. \A i \in D : point[i] \in P /\ name[point[i]] = key[i]
          BY <1>4, <1>6, <1>7
    <2> QED
        BY <2>2, <2>3 DEF Names
  <1>10. \A x \in P : Counts(x, es, Class(D, key, name[x]))
         BY <1>4, <1>6, <1>7
  <1> QED
      BY <1>1, <1>3, <1>5, <1>9, <1>10, CountedAddsUp

LEMMA TimelineAddsUp ==
  ASSUME NEW es, NEW salted, LogFits(es, salted)
  PROVE  /\ AddsUp(es, Timeline(es))
         /\ Across(Timeline(es), "searches") = Cardinality(OfKind(es, "address-search"))
  <1>1. PICK D : D = DOMAIN es
        OBVIOUS
  <1>2. PICK key, hour : /\ key = [i \in D |-> HourOf(es[i])]
                         /\ hour = [i \in D |-> Hourly(es, HourOf(es[i]))]
        OBVIOUS
  <1>3. PICK P : P = Timeline(es)
        OBVIOUS
  <1>4. P = {hour[i] : i \in D}
        BY <1>1, <1>2, <1>3 DEF Timeline
  <1>5. IsFiniteSet(D) /\ IsFiniteSet(P)
    <2>1. IsFiniteSet(D)
          BY <1>1 DEF LogFits
    <2> QED
        BY <1>4, <2>1, ImageIsFinite
  <1>6. PICK name : name = [x \in P |-> x.hour]
        OBVIOUS
  <1>7. PICK F : F = OfKind(es, "address-search")
        OBVIOUS
  <1>8. ASSUME NEW i \in D
        PROVE  /\ hour[i].hour = key[i]
               /\ hour[i]["searches"] = Cardinality(Class(D, key, key[i]) \cap F)
               /\ Counts(hour[i], es, Class(D, key, key[i]))
    <2>1. PICK r, U, f, c, n : /\ r = HourOf(es[i]) /\ U = {j \in D : HourOf(es[j]) = r}
                               /\ f = Restrict(es, U) /\ c = Counted(f)
                               /\ n = Cardinality(OfKind(f, "address-search"))
          OBVIOUS
    <2>2. hour[i] = [hour |-> r, searches |-> n, requests |-> c.requests, errors |-> c.errors,
                     took |-> c.took]
          BY <1>1, <1>2, <2>1 DEF Hourly
    <2>3. U \in SUBSET DOMAIN es /\ Excerpt(es, f, U)
          BY <1>1, <2>1 DEF Excerpt, Restrict
    <2>4. Counts(c, es, U)
          BY <2>1, <2>3, CountedIs
    <2>5. U = Class(D, key, key[i]) /\ key[i] = r
          BY <1>2, <2>1 DEF Class
    <2>6. /\ hour[i]["requests"] = c["requests"] /\ hour[i]["errors"] = c["errors"]
          /\ hour[i]["took"] = c["took"] /\ hour[i].hour = r /\ hour[i]["searches"] = n
          BY <2>2
    <2>7. OfKind(f, "address-search") = U \cap F
          BY <1>7, <2>3 DEF OfKind, Excerpt
    <2> QED
        BY <2>1, <2>4, <2>5, <2>6, <2>7 DEF Counts
  <1>9. ASSUME NEW i \in D, NEW j \in D, key[i] = key[j] PROVE hour[i] = hour[j]
        BY <1>2, <1>9
  <1>10. Names(P, name, D, key)
    <2>1. \A x \in P : \E i \in D : x = hour[i] /\ name[x] = key[i]
          BY <1>4, <1>6, <1>8
    <2>2. \A x, y \in P : name[x] = name[y] => x = y
          BY <1>9, <2>1
    <2>3. \A i \in D : hour[i] \in P /\ name[hour[i]] = key[i]
          BY <1>4, <1>6, <1>8
    <2> QED
        BY <2>2, <2>3 DEF Names
  <1>11. \A x \in P : Counts(x, es, Class(D, key, name[x]))
         BY <1>4, <1>6, <1>8
  <1>12. AddsUp(es, P)
         BY <1>1, <1>5, <1>10, <1>11, CountedAddsUp
  <1>13. PICK v : v = Ones(D, F)
         OBVIOUS
  <1>14. v \in [D -> Int] /\ \A T \in SUBSET D : SumFunctionOnSet(v, T) = Cardinality(T \cap F)
         BY <1>5, <1>13, CountsAreTotals
  <1>15. ASSUME NEW x \in P
         PROVE  x["searches"] = SumFunctionOnSet(v, Class(D, key, name[x]))
    <2>1. PICK T : T = Class(D, key, name[x])
          OBVIOUS
    <2>2. PICK i \in D : x = hour[i]
          BY <1>4
    <2>3. name[x] = key[i]
          BY <1>6, <1>8, <2>2
    <2>4. x["searches"] = Cardinality(T \cap F)
          BY <1>8, <2>1, <2>2, <2>3
    <2>5. T \in SUBSET D
          BY <2>1 DEF Class
    <2> QED
        BY <1>14, <2>1, <2>4, <2>5
  <1>16. Across(P, "searches") = SumFunctionOnSet(v, D)
         BY <1>1, <1>5, <1>10, <1>14, <1>15, AcrossClasses
  <1>17. D \cap F = F /\ D \in SUBSET D
         BY <1>1, <1>7 DEF OfKind
  <1> QED
      BY <1>3, <1>7, <1>12, <1>14, <1>16, <1>17

(* No response is of two workflows, and none of any failed.                 *)
LEMMA WorkflowsAreFinite ==
  IsFiniteSet(WorkflowKinds)
  <1>1. PICK name : name = [w \in Workflows |-> w[3]]
        OBVIOUS
  <1>2. WorkflowKinds = {name[w] : w \in Workflows}
        BY <1>1 DEF WorkflowKinds
  <1>3. IsFiniteSet(Workflows)
    <2>1. \A a, b, c, d, e, f, g, h : IsFiniteSet({a, b, c, d, e, f, g, h})
      <3> TAKE a, b, c, d, e, f, g, h
      <3>1. PICK S, T : S = {a, b, c, d, e, f} /\ T = {g, h, h, h, h, h}
            OBVIOUS
      <3>2. IsFiniteSet(S) /\ IsFiniteSet(T)
            BY <3>1, SixAreFinite
      <3>3. {a, b, c, d, e, f, g, h} = S \cup T
            BY <3>1
      <3> QED
          BY <3>2, <3>3, FS_Union
    <2> QED
        BY <2>1, Zenon DEF Workflows
  <1> QED
      BY <1>2, <1>3, ImageIsFinite

LEMMA WorkflowsSucceed ==
  ASSUME NEW es, NEW salted, LogFits(es, salted),
         NEW w, w = [k \in WorkflowKinds |-> Cardinality(OfKind(es, k))]
  PROVE  SumFunction(w) <= Counted(es).requests - Counted(es).errors
  <1>1. PICK D, P, F : D = DOMAIN es /\ P = WorkflowKinds /\ F = Failing(es)
        OBVIOUS
  <1>2. PICK part : part = [k \in P |-> OfKind(es, k)]
        OBVIOUS
  <1>3. IsFiniteSet(D) /\ IsFiniteSet(P)
        BY <1>1, WorkflowsAreFinite DEF LogFits
  <1>4. PICK v : v = Ones(D, D)
        OBVIOUS
  <1>5. v \in [D -> Int] /\ \A T \in SUBSET D : SumFunctionOnSet(v, T) = Cardinality(T \cap D)
        BY <1>3, <1>4, CountsAreTotals
  <1>6. \A k \in P : part[k] = {i \in D : es[i].kind = k}
        BY <1>1, <1>2 DEF OfKind
  <1>7. Disjoint(part, P, D)
        BY <1>6 DEF Disjoint
  <1>8. w \in [P -> Int] /\ \A k \in P : w[k] = SumFunctionOnSet(v, part[k])
    <2>1. \A k \in P : part[k] \in SUBSET D /\ part[k] \cap D = part[k]
          BY <1>6
    <2>2. \A k \in P : IsFiniteSet(part[k]) /\ Cardinality(part[k]) \in Nat
          BY <1>3, <2>1, FS_Subset, FS_CardinalityType
    <2>3. \A k \in P : w[k] = Cardinality(part[k])
          BY <1>1, <1>2
    <2>4. w = [k \in P |-> Cardinality(part[k])]
          BY <1>1, <1>2
    <2> QED
        BY <1>5, <2>1, <2>2, <2>3, <2>4
  <1>9. PICK U : U = UnionOf(part, P)
        OBVIOUS
  <1>10. SumFunction(w) = SumFunctionOnSet(v, U)
         BY <1>3, <1>5, <1>7, <1>8, <1>9, PartsAddUp
  <1>11. F \in SUBSET D /\ U \in SUBSET (D \ F)
    <2>1. \A i \in D : es[i].kind \in P => ~(es[i].status >= 400)
          BY <1>1 DEF LogFits
    <2> QED
        BY <1>1, <1>6, <1>9, <2>1 DEF UnionOf, Failing
  <1>12. SumFunctionOnSet(v, U) = Cardinality(U)
    <2>1. U \in SUBSET D /\ U \cap D = U
          BY <1>11
    <2> QED
        BY <1>5, <2>1
  <1>13. /\ IsFiniteSet(D \ F) /\ Cardinality(D \ F) = Cardinality(D) - Cardinality(D \cap F)
         /\ D \cap F = F
         BY <1>3, <1>11, FS_Difference
  <1>14. Cardinality(U) <= Cardinality(D \ F)
         BY <1>11, <1>13, FS_Subset
  <1>15. Counted(es).requests = Cardinality(D) /\ Counted(es).errors = Cardinality(F)
         BY <1>1 DEF Counted
  <1> QED
      BY <1>10, <1>12, <1>13, <1>14, <1>15

(* Addresses are counted once.                                              *)
LEMMA AddressesAreCounted ==
  ASSUME NEW es, NEW salted \in BOOLEAN, LogFits(es, salted)
  PROVE  /\ Cardinality(Hashes(es) \ {NoHash}) <= Cardinality(Hashes(es))
         /\ salted => Cardinality(Hashes(es) \ {NoHash}) = Cardinality(Hashes(es))
         /\ Cardinality(Hashes(es)) <= Cardinality(OfKind(es, "address-search"))
  <1>1. PICK F, H : F = OfKind(es, "address-search") /\ H = Hashes(es)
        OBVIOUS
  <1>2. F \subseteq DOMAIN es /\ IsFiniteSet(DOMAIN es)
        BY <1>1 DEF OfKind, LogFits
  <1>3. IsFiniteSet(F)
        BY <1>2, FS_Subset
  <1>4. PICK hash : hash = [i \in F |-> es[i].hash]
        OBVIOUS
  <1>5. H = {hash[i] : i \in F}
        BY <1>1, <1>4 DEF Hashes
  <1>6. IsFiniteSet(H) /\ Cardinality(H) <= Cardinality(F)
        BY <1>3, <1>5, ImageIsFinite
  <1>7. Cardinality(H \ {NoHash}) <= Cardinality(H)
    <2>1. H \ {NoHash} \in SUBSET H
          OBVIOUS
    <2> QED
        BY <1>6, <2>1, FS_Subset
  <1>8. salted => H \ {NoHash} = H
        BY <1>1 DEF LogFits
  <1> QED
      BY <1>1, <1>6, <1>7, <1>8

(* The durations, the shortest first.                                       *)
Ascending(ds, n) ==
    /\ n \in Nat /\ Len(ds) = n /\ DOMAIN ds = 1..n /\ (ds = <<>> <=> n = 0)
    /\ \A k \in 1..n : ds[k] \in Nat
    /\ \A i, j \in 1..n : i <= j => ds[i] <= ds[j]

LEMMA DurationsAscend ==
  ASSUME NEW es, NEW salted, LogFits(es, salted)
  PROVE  Ascending(Durations(es), Cardinality(DOMAIN es))
  <1>1. PICK D, n, ds : D = DOMAIN es /\ n = Cardinality(D) /\ ds = Durations(es)
        OBVIOUS
  <1>2. PICK R : R = {p \in Pairs(D) : Shorter(es, p[1], p[2])}
        OBVIOUS
  <1>3. IsFiniteSet(D) /\ \A i \in D : i \in Int /\ es[i].took \in Nat
        BY <1>1 DEF LogFits
  <1>4. PICK took : took = [i \in D |-> es[i].took]
        OBVIOUS
  <1>5. /\ \A i \in D : took[i] \in Nat /\ i \in Int
        /\ \A i, j \in D : <<i, j>> \in R <=> took[i] < took[j] \/ (took[i] = took[j] /\ i < j)
        BY <1>2, <1>3, <1>4 DEF Pairs, Shorter
  <1>6. Orders(R, D)
    <2>1. \A i \in D : <<i, i>> \notin R
          BY <1>5
    <2>2. \A i, j \in D : i # j => <<i, j>> \in R \/ <<j, i>> \in R
          BY <1>5
    <2>3. \A i, j, k \in D : <<i, j>> \in R /\ <<j, k>> \in R => <<i, k>> \in R
          BY <1>5
    <2> QED
        BY <2>1, <2>2, <2>3 DEF Orders
  <1>7. PICK order : order = InOrder(D, R)
        OBVIOUS
  <1>8. n \in Nat /\ ListsInOrder(order, n, R, D)
        BY <1>1, <1>3, <1>6, <1>7, InOrderLists
  <1>9. DOMAIN order = 1..n /\ \A k \in 1..n : order[k] \in D
        BY <1>8 DEF ListsInOrder
  <1>10. ds = [k \in 1..n |-> es[order[k]].took]
         BY <1>1, <1>2, <1>7, <1>9 DEF Durations
  <1>11. \A k \in 1..n : ds[k] = took[order[k]] /\ ds[k] \in Nat
         BY <1>4, <1>5, <1>9, <1>10
  <1>12. ASSUME NEW i \in 1..n, NEW j \in 1..n, i <= j PROVE ds[i] <= ds[j]
    <2>1. CASE i = j
          BY <1>11, <2>1
    <2>2. CASE i < j
      <3>1. PICK x, y : x = order[i] /\ y = order[j]
            OBVIOUS
      <3>2. x \in D /\ y \in D /\ <<x, y>> \in R
            BY <1>8, <2>2, <3>1 DEF ListsInOrder
      <3>3. took[x] <= took[y]
            BY <1>5, <3>2
      <3> QED
          BY <1>11, <3>1, <3>3
    <2> QED
        BY <1>8, <1>12, <2>1, <2>2
  <1>13. ds \in Seq(Nat) /\ Len(ds) = n /\ DOMAIN ds = 1..n
    <2>1. ds \in [1..n -> Nat]
          BY <1>10, <1>11
    <2>2. ds \in Seq(Nat)
          BY <1>8, <2>1
    <2> QED
        BY <1>8, <2>1, <2>2
  <1>14. ds = <<>> <=> n = 0
         BY <1>8, <1>13
  <1> QED
      BY <1>1, <1>8, <1>11, <1>12, <1>13, <1>14 DEF Ascending

(* The two percentiles lie between a duration and the next.                 *)
LEMMA PlacesAreClose ==
  ASSUME NEW n \in Nat \ {0}
  PROVE  LET low == (95 * (n - 1)) \div 100 + 1
             a == (95 * n + 99) \div 100
         IN  low \in 1..n /\ a \in 1..n /\ (a = low \/ a = low + 1)
  <1>1. PICK p, x, y : p = 95 * (n - 1) /\ x = p \div 100 /\ y = (95 * n + 99) \div 100
        OBVIOUS
  <1>2. p \in Nat /\ 95 * n + 99 \in Nat /\ 95 * n + 99 = p + 194
        BY <1>1
  <1>3. x \in Nat /\ 100 * x <= p /\ p <= 100 * x + 99
        BY <1>1, <1>2, RoundedDown
  <1>4. y \in Nat /\ 100 * y <= p + 194 /\ p + 194 <= 100 * y + 99
        BY <1>1, <1>2, RoundedDown
  <1>5. p = 95 * n - 95
        BY <1>1
  <1>6. x + 1 \in 1..n /\ y \in 1..n
        BY <1>2, <1>3, <1>4, <1>5
  <1>7. y = x + 1 \/ y = x + 2
        BY <1>2, <1>3, <1>4
  <1> QED
      BY <1>1, <1>6, <1>7

LEMMA PartOfTheWay ==
  ASSUME NEW x \in Nat, NEW y \in Nat, x <= y, NEW f \in 0..99
  PROVE  100 * x + f * (y - x) \in 100 * x .. 100 * y
  <1>1. PICK d \in Nat : d = y - x
        OBVIOUS
  <1>2. f * d \in Nat /\ d * f <= d * 100 /\ f * d = d * f
    <2>1. d * f <= d * 100
          BY ProductGrows
    <2>2. f * d \in Int /\ f * d = d * f
          BY Products
    <2>3. d * 0 <= d * f
          BY ProductGrows
    <2> QED
        BY <2>1, <2>2, <2>3
  <1>3. y = x + d
        BY <1>1
  <1> QED
      BY <1>1, <1>2, <1>3

PercentilesClose(ds) ==
    ds # <<>> => \E i \in DOMAIN ds :
      {DiscretePercentile(ds), ContinuousPercentile(ds)}
        \subseteq 100 * ds[i] .. 100 * ds[Min({i + 1, Len(ds)})]

LEMMA PercentilesAreClose ==
  ASSUME NEW ds, NEW n, Ascending(ds, n)
  PROVE  PercentilesClose(ds)
  <1>1. SUFFICES ASSUME ds # <<>>
                 PROVE  \E i \in DOMAIN ds :
                          {DiscretePercentile(ds), ContinuousPercentile(ds)}
                            \subseteq 100 * ds[i] .. 100 * ds[Min({i + 1, Len(ds)})]
        BY DEF PercentilesClose
  <1>2. n \in Nat \ {0} /\ Len(ds) = n /\ DOMAIN ds = 1..n
        BY <1>1 DEF Ascending
  <1>3. PICK p, low, a : p = 95 * (n - 1) /\ low = p \div 100 + 1 /\ a = (95 * n + 99) \div 100
        OBVIOUS
  <1>4. low \in 1..n /\ a \in 1..n /\ (a = low \/ a = low + 1)
        BY <1>2, <1>3, PlacesAreClose
  <1>5. PICK next : next = Min({low + 1, n})
        OBVIOUS
  <1>6. next = (IF low + 1 <= n THEN low + 1 ELSE n)
    <2>1. PICK m : m = low + 1
          OBVIOUS
    <2>2. m \in Int /\ n \in Int /\ next = Min({m, n})
          BY <1>2, <1>4, <1>5, <2>1
    <2>3. next = (IF m <= n THEN m ELSE n)
          BY <2>2, OfTwo
    <2> QED
        BY <2>1, <2>3
  <1>7. next \in 1..n /\ low <= next /\ low <= a /\ a <= next
        BY <1>2, <1>4, <1>6
  <1>8. PICK x, y, z : x = ds[low] /\ y = ds[next] /\ z = ds[a]
        OBVIOUS
  <1>9. x \in Nat /\ y \in Nat /\ z \in Nat /\ x <= y /\ x <= z /\ z <= y
        BY <1>4, <1>7, <1>8 DEF Ascending
  <1>10. DiscretePercentile(ds) = 100 * z
    <2>1. Max({1, a}) = a
          BY <1>4, OfTwo
    <2> QED
        BY <1>1, <1>2, <1>3, <1>8, <2>1 DEF DiscretePercentile
  <1>11. PICK f : f = p % 100
         OBVIOUS
  <1>12. f \in 0..99
         BY <1>2, <1>3, <1>11
  <1>13. ContinuousPercentile(ds) = 100 * x + f * (y - x)
         BY <1>1, <1>2, <1>3, <1>5, <1>8, <1>11 DEF ContinuousPercentile
  <1>14. 100 * x + f * (y - x) \in 100 * x .. 100 * y
         BY <1>9, <1>12, PartOfTheWay
  <1>15. 100 * z \in 100 * x .. 100 * y
         BY <1>9
  <1>16. {DiscretePercentile(ds), ContinuousPercentile(ds)} \subseteq 100 * x .. 100 * y
         BY <1>10, <1>13, <1>14, <1>15
  <1> QED
      BY <1>2, <1>4, <1>5, <1>8, <1>16

(* The two stores agree on what they count, over any log of requests.       *)
LEMMA EndpointsAreListed ==
  ASSUME NEW es, NEW salted, LogFits(es, salted)
  PROVE  (CHOOSE S \in Busiest(es) : TRUE) \subseteq Endpoints(es)
  <1>1. PICK E, b : E = Endpoints(es) /\ b = [x \in E |-> x.requests]
        OBVIOUS
  <1>2. IsFiniteSet(E) /\ Cardinality(E) \in Nat
        BY <1>1, EndpointsAddUp, FS_CardinalityType
  <1>3. \A x \in E : b[x] \in Int
    <2>1. \A i \in DOMAIN es : Endpoint(es, es[i].route).requests \in Int
      <3> TAKE i \in DOMAIN es
      <3>1. PICK r, f : /\ r = es[i].route
                        /\ f = Restrict(es, {j \in DOMAIN es : es[j].route = r})
            OBVIOUS
      <3>2. Endpoint(es, r).requests = Cardinality(DOMAIN f)
            BY <3>1 DEF Endpoint, Counted
      <3>3. DOMAIN f \in SUBSET DOMAIN es
            BY <3>1 DEF Restrict
      <3>4. IsFiniteSet(DOMAIN f) /\ Cardinality(DOMAIN f) \in Nat
            BY <3>3, FS_Subset, FS_CardinalityType DEF LogFits
      <3> QED
          BY <3>1, <3>2, <3>4
    <2> QED
        BY <1>1, <2>1 DEF Endpoints
  <1>4. PICK k : k = Min({MostEndpoints, Cardinality(E)})
        OBVIOUS
  <1>5. k \in Nat /\ k <= Cardinality(E)
    <2>1. PICK m, c : m = MostEndpoints /\ c = Cardinality(E)
          OBVIOUS
    <2>2. m \in Nat /\ c \in Nat /\ k = Min({m, c})
          BY <1>2, <1>4, <2>1, UsageAssumption DEF UsageAssumption
    <2>3. k = (IF m <= c THEN m ELSE c)
          BY <2>2, OfTwo
    <2> QED
        BY <2>1, <2>2, <2>3
  <1>6. PICK S \in SUBSET E : Cardinality(S) = k /\ \A x \in S, y \in E \ S : b[x] >= b[y]
        BY <1>2, <1>3, <1>5, SomeAreBusiest
  <1>7. \A x \in S, y \in E \ S : x.requests >= y.requests
        BY <1>1, <1>6
  <1>8. S \in Busiest(es)
        BY <1>1, <1>4, <1>6, <1>7 DEF Busiest
  <1>9. Busiest(es) \subseteq SUBSET E
        BY <1>1 DEF Busiest
  <1>10. (CHOOSE T \in Busiest(es) : TRUE) \in Busiest(es)
         BY <1>8, SMTT(30)
  <1> QED
      BY <1>1, <1>9, <1>10

UsageAgrees(q, memory, postgres, ds) ==
    /\ memory.traffic = postgres.traffic /\ memory.workflows = postgres.workflows
    /\ memory.recent = postgres.recent
    /\ postgres.endpoints \subseteq memory.endpoints
    /\ postgres.unique <= memory.unique /\ (q.salted => postgres.unique = memory.unique)
    /\ memory.unique <= postgres.workflows["address-search"]
    /\ \A parts \in {memory.endpoints, postgres.timeline}, field \in {"requests", "errors", "took"} :
         Across(parts, field) = memory.traffic[field]
    /\ Across(postgres.timeline, "searches") = memory.workflows["address-search"]
    /\ SumFunction(memory.workflows) <= memory.traffic.requests - memory.traffic.errors
    /\ ds # <<>> => \E i \in DOMAIN ds :
         {memory.p95, postgres.p95} \subseteq 100 * ds[i] .. 100 * ds[Min({i + 1, Len(ds)})]

(* The use of the API is counted once, over any log of requests: the stores *)
(* agree, every response is in one hour and of one route, a failed one in   *)
(* no workflow, and the percentiles are at most one response apart.         *)
THEOREM UsageCountsOnce ==
  ASSUME NEW q, RequestsFit(q.requests), q.salted \in BOOLEAN
  PROVE  UsageIsSound(q)
  <1>1. SUFFICES ASSUME NEW log \in {Recorded(q.requests, q.salted)},
                        NEW memory \in {MemorySnapshot(log, q.since)},
                        NEW postgres \in {PostgresSnapshot(log, q.since)},
                        NEW ds \in {Durations(InWindow(log, q.since))}
                 PROVE  UsageAgrees(q, memory, postgres, ds)
        BY DEF UsageIsSound, UsageAgrees
  <1>2. PICK es : es = InWindow(log, q.since) /\ LogFits(es, q.salted)
        BY RecordedFits
  <1>3. /\ memory = MemorySnapshot(log, q.since) /\ postgres = PostgresSnapshot(log, q.since)
        /\ ds = Durations(es)
        BY <1>2
  <1>4. PICK works : works = [k \in WorkflowKinds |-> Cardinality(OfKind(es, k))]
        OBVIOUS
  <1>5. /\ memory.traffic = Counted(es) /\ memory.unique = Cardinality(Hashes(es))
        /\ memory.workflows = works /\ memory.endpoints = Endpoints(es)
        /\ memory.p95 = DiscretePercentile(ds) /\ memory.recent = MemoryRecent(es)
        BY <1>2, <1>3, <1>4 DEF MemorySnapshot
  <1>6. /\ postgres.traffic = Counted(es)
        /\ postgres.unique = Cardinality(Hashes(es) \ {NoHash})
        /\ postgres.workflows = works
        /\ postgres.endpoints = (CHOOSE S \in Busiest(es) : TRUE)
        /\ postgres.timeline = Timeline(es)
        /\ postgres.p95 = ContinuousPercentile(ds) /\ postgres.recent = PostgresRecent(es)
        BY <1>2, <1>3, <1>4 DEF PostgresSnapshot
  <1>7. "address-search" \in WorkflowKinds
        BY DEF WorkflowKinds, Workflows
  <1>8. works["address-search"] = Cardinality(OfKind(es, "address-search"))
        BY <1>4, <1>7
  <1>9. /\ memory.traffic = postgres.traffic /\ memory.workflows = postgres.workflows
        /\ memory.recent = postgres.recent
        BY <1>2, <1>5, <1>6, RecentAgree
  <1>10. postgres.endpoints \subseteq memory.endpoints
         BY <1>2, <1>5, <1>6, EndpointsAreListed
  <1>11. /\ postgres.unique <= memory.unique /\ (q.salted => postgres.unique = memory.unique)
         /\ memory.unique <= postgres.workflows["address-search"]
         BY <1>2, <1>5, <1>6, <1>8, AddressesAreCounted
  <1>12. \A parts \in {memory.endpoints, postgres.timeline}, field \in {"requests", "errors", "took"} :
           Across(parts, field) = memory.traffic[field]
    <2>1. AddsUp(es, Endpoints(es)) /\ AddsUp(es, Timeline(es))
          BY <1>2, EndpointsAddUp, TimelineAddsUp
    <2> QED
        BY <1>5, <1>6, <2>1 DEF AddsUp
  <1>13. Across(postgres.timeline, "searches") = memory.workflows["address-search"]
         BY <1>2, <1>5, <1>6, <1>8, TimelineAddsUp
  <1>14. SumFunction(memory.workflows) <= memory.traffic.requests - memory.traffic.errors
         BY <1>2, <1>4, <1>5, WorkflowsSucceed
  <1>15. ds # <<>> => \E i \in DOMAIN ds :
           {memory.p95, postgres.p95} \subseteq 100 * ds[i] .. 100 * ds[Min({i + 1, Len(ds)})]
    <2>1. PercentilesClose(ds)
          BY <1>2, <1>3, DurationsAscend, PercentilesAreClose
    <2> QED
        BY <1>5, <1>6, <2>1, ZenonT(40) DEF PercentilesClose
  <1> QED
      BY <1>9, <1>10, <1>11, <1>12, <1>13, <1>14, <1>15 DEF UsageAgrees

-----------------------------------------------------------------------------
(* PortfolioHistory.  What a save keeps.                                    *)

(* A save: some positions, each with an id of its own, read at heights of   *)
(* blocks.                                                                  *)
PositionsFit(positions) ==
    /\ IsFiniteSet(positions)
    /\ \A p \in positions : IsFiniteSet(p.heights) /\ p.heights \subseteq Int
    /\ \A p, r \in positions : p.id = r.id => p = r

LEMMA HeightsAreFinite ==
  ASSUME NEW P, PositionsFit(P)
  PROVE  IsFiniteSet(HeightsOf(P)) /\ HeightsOf(P) \subseteq Int
  <1>1. PICK f, H : f = [p \in P |-> p.heights] /\ H = {f[p] : p \in P}
        OBVIOUS
  <1>2. H = {p.heights : p \in P}
        BY <1>1
  <1>3. IsFiniteSet(H)
        BY <1>1, ImageIsFinite DEF PositionsFit
  <1>4. \A T \in H : IsFiniteSet(T) /\ T \subseteq Int
        BY <1>2 DEF PositionsFit
  <1>5. IsFiniteSet(UNION H)
        BY <1>3, <1>4, FS_UNION
  <1>6. HeightsOf(P) = UNION H
        BY <1>2 DEF HeightsOf
  <1> QED
      BY <1>4, <1>5, <1>6

LEMMA MostEvidenceIsFound ==
  ASSUME NEW P, PositionsFit(P), HeightsOf(P) # {}
  PROVE  /\ SnapshotHeight(P) \in HeightsOf(P)
         /\ \A k \in HeightsOf(P) :
              /\ Cardinality(ReadAt(P, k)) <= Cardinality(ReadAt(P, SnapshotHeight(P)))
              /\ k > SnapshotHeight(P) => Cardinality(ReadAt(P, k)) < Cardinality(ReadAt(P, SnapshotHeight(P)))
  <1>1. PICK H : H = HeightsOf(P)
        OBVIOUS
  <1>2. IsFiniteSet(H) /\ H \subseteq Int /\ H # {}
        BY <1>1, HeightsAreFinite
  <1>3. PICK much : much = [h \in H |-> Cardinality(ReadAt(P, h))]
        OBVIOUS
  <1>4. ASSUME NEW h \in H PROVE much[h] \in Nat
    <2>1. IsFiniteSet(ReadAt(P, h))
          BY FS_Subset DEF ReadAt, PositionsFit
    <2> QED
        BY <1>3, <2>1, FS_CardinalityType
  <1>5. PICK R : R = {p \in Pairs(H) : MoreEvidence(P, p[1], p[2])}
        OBVIOUS
  <1>6. \A h, k \in H : MoreEvidence(P, h, k) <=> much[h] > much[k] \/ (much[h] = much[k] /\ h >= k)
        BY <1>3 DEF MoreEvidence
  <1>7. \A h, k \in H : <<h, k>> \in R <=> MoreEvidence(P, h, k)
        BY <1>5 DEF Pairs
  <1>8. \A h, k \in H : h # k => <<h, k>> \in R \/ <<k, h>> \in R
        BY <1>2, <1>4, <1>6, <1>7
  <1>9. \A h, k, l \in H : <<h, k>> \in R /\ <<k, l>> \in R => <<h, l>> \in R
        BY <1>2, <1>4, <1>6, <1>7
  <1>10. \E x \in H : \A y \in H \ {x} : <<x, y>> \in R
    <2>1. PICK C : C = H
          OBVIOUS
    <2>2. IsFiniteSet(C) /\ C # {}
          BY <1>2, <2>1
    <2>3. /\ \A x, y \in C : x # y => <<x, y>> \in R \/ <<y, x>> \in R
          /\ \A x, y, z \in C : <<x, y>> \in R /\ <<y, z>> \in R => <<x, z>> \in R
          BY <1>8, <1>9, <2>1
    <2>4. \E x \in C : \A y \in C \ {x} : <<x, y>> \in R
          BY <2>2, <2>3, FirstOfFinite
    <2> QED
        BY <2>1, <2>4
  <1>11. \E h \in H : \A k \in H : MoreEvidence(P, h, k)
    <2>1. PICK h \in H : \A y \in H \ {h} : <<h, y>> \in R
          BY <1>10
    <2>2. MoreEvidence(P, h, h)
          BY <1>2, <1>4, <1>6, <2>1
    <2>3. \A k \in H \ {h} : MoreEvidence(P, h, k)
          BY <1>7, <2>1
    <2> QED
        BY <2>1, <2>2, <2>3
  <1>12. PICK best : best = SnapshotHeight(P)
         OBVIOUS
  <1>13. best \in H /\ \A k \in H : MoreEvidence(P, best, k)
         BY <1>1, <1>11, <1>12 DEF SnapshotHeight
  <1>14. \A k \in H : much[k] <= much[best] /\ (k > best => much[k] < much[best])
         BY <1>2, <1>4, <1>6, <1>13
  <1> QED
      BY <1>1, <1>3, <1>12, <1>13, <1>14

(* Positions are as many as their ids.                                      *)
IdsOf(Q) == {p.id : p \in Q}

LEMMA IdsCount ==
  ASSUME NEW Q, IsFiniteSet(Q), \A p, r \in Q : p.id = r.id => p = r
  PROVE  IsFiniteSet(IdsOf(Q)) /\ Cardinality(IdsOf(Q)) = Cardinality(Q)
  <1>1. PICK ids, f : ids = IdsOf(Q) /\ f = [p \in Q |-> p.id]
        OBVIOUS
  <1>2. ids = {f[p] : p \in Q}
        BY <1>1 DEF IdsOf
  <1>3. IsFiniteSet(ids) /\ Cardinality(ids) <= Cardinality(Q)
        BY <1>2, ImageIsFinite
  <1>4. PICK g : g = [x \in ids |-> CHOOSE p \in Q : p.id = x]
        OBVIOUS
  <1>5. ASSUME NEW x \in ids PROVE g[x] \in Q /\ g[x].id = x
    <2>1. \E p \in Q : p.id = x
          BY <1>1 DEF IdsOf
    <2>2. g[x] = CHOOSE p \in Q : p.id = x
          BY <1>4
    <2> QED
        BY <2>1, <2>2
  <1>6. ASSUME NEW p \in Q PROVE p.id \in ids /\ g[p.id] = p
        BY <1>1, <1>5 DEF IdsOf
  <1>7. Q = {g[x] : x \in ids}
        BY <1>5, <1>6
  <1>8. Cardinality(Q) <= Cardinality(ids)
    <2>1. Cardinality({g[x] : x \in ids}) <= Cardinality(ids)
          BY <1>3, ImageIsFinite
    <2> QED
        BY <1>7, <2>1
  <1>9. Cardinality(Q) \in Nat /\ Cardinality(ids) \in Nat
        BY <1>3, FS_CardinalityType
  <1> QED
      BY <1>1, <1>3, <1>8, <1>9

(* What is kept is what was read at the height with the most evidence.      *)
LEMMA RowsAreOfOneHeight ==
  ASSUME NEW s, RowsOf(s) # {}
  PROVE  /\ HeightsOf(s.positions) # {}
         /\ RowsOf(s) = RowsAt(s, SnapshotHeight(s.positions))
         /\ \A h : RowsAt(s, h) # {} => /\ HasBlock(s, h)
                                        /\ \A r \in RowsAt(s, h) : r.height = h /\ r.block = SnapshotBlock(s, h)
                                        /\ IdsOf(RowsAt(s, h)) = IdsOf(ReadAt(s.positions, h))
  <1>1. /\ HeightsOf(s.positions) # {}
        /\ RowsOf(s) = RowsAt(s, SnapshotHeight(s.positions))
        BY DEF RowsOf
  <1>2. ASSUME NEW h, RowsAt(s, h) # {}
        PROVE  /\ HasBlock(s, h)
               /\ \A r \in RowsAt(s, h) : r.height = h /\ r.block = SnapshotBlock(s, h)
               /\ IdsOf(RowsAt(s, h)) = IdsOf(ReadAt(s.positions, h))
    <2>1. HasBlock(s, h)
          BY <1>2 DEF RowsAt
    <2>2. PICK b, Q : b = SnapshotBlock(s, h) /\ Q = ReadAt(s.positions, h)
          OBVIOUS
    <2>3. RowsAt(s, h) = {[block |-> b, height |-> h, version |-> s.version, id |-> p.id,
                           reading |-> p.reading] : p \in Q}
          BY <2>1, <2>2 DEF RowsAt
    <2>4. \A r \in RowsAt(s, h) : r.height = h /\ r.block = b
          BY <2>3
    <2>5. IdsOf(RowsAt(s, h)) = IdsOf(Q)
      <3>1. PICK row : row = [p \in Q |-> [block |-> b, height |-> h, version |-> s.version,
                                            id |-> p.id, reading |-> p.reading]]
            OBVIOUS
      <3>2. RowsAt(s, h) = {row[p] : p \in Q} /\ \A p \in Q : row[p].id = p.id
            BY <2>3, <3>1
      <3> QED
          BY <3>2 DEF IdsOf
    <2> QED
        BY <2>1, <2>2, <2>4, <2>5
  <1> QED
      BY <1>1, <1>2

(* A snapshot is of one block, the best read one and the latest of those,   *)
(* whatever was read at which heights.                                      *)
THEOREM SnapshotsAreOfOneBlock ==
  ASSUME NEW s, PositionsFit(s.positions)
  PROVE  SnapshotIsOfOneBlock(s)
  <1>1. PICK rows, P, H : rows = RowsOf(s) /\ P = s.positions /\ H = HeightsOf(P)
        OBVIOUS
  <1>2. SUFFICES ASSUME rows # {}
                 PROVE  \E h \in H :
                           /\ IdsOf(rows) = IdsOf(ReadAt(P, h))
                           /\ \A r \in rows : r.height = h
                           /\ \A k \in H :
                                /\ Cardinality(IdsOf(ReadAt(P, k))) <= Cardinality(IdsOf(ReadAt(P, h)))
                                /\ k > h => Cardinality(IdsOf(ReadAt(P, k))) < Cardinality(IdsOf(ReadAt(P, h)))
        BY <1>1 DEF SnapshotIsOfOneBlock, IdsOf
  <1>3. PICK best : best = SnapshotHeight(P)
        OBVIOUS
  <1>4. H # {} /\ rows = RowsAt(s, best)
        BY <1>1, <1>2, <1>3, RowsAreOfOneHeight
  <1>5. IdsOf(rows) = IdsOf(ReadAt(P, best)) /\ \A r \in rows : r.height = best
        BY <1>1, <1>2, <1>4, RowsAreOfOneHeight
  <1>6. best \in H /\ \A k \in H :
           /\ Cardinality(ReadAt(P, k)) <= Cardinality(ReadAt(P, best))
           /\ k > best => Cardinality(ReadAt(P, k)) < Cardinality(ReadAt(P, best))
        BY <1>1, <1>3, <1>4, MostEvidenceIsFound
  <1>7. ASSUME NEW k \in H PROVE Cardinality(IdsOf(ReadAt(P, k))) = Cardinality(ReadAt(P, k))
    <2>1. PICK Q : Q = ReadAt(P, k)
          OBVIOUS
    <2>2. Q \subseteq P
          BY <2>1 DEF ReadAt
    <2>3. IsFiniteSet(Q) /\ \A p, r \in Q : p.id = r.id => p = r
          BY <1>1, <2>2, FS_Subset DEF PositionsFit
    <2> QED
        BY <2>1, <2>3, IdsCount
  <1> QED
      BY <1>5, <1>6, <1>7

-----------------------------------------------------------------------------
(* PortfolioHistory.  What a history and its routes show.                   *)

(* Rows as they are kept: a block has a height, a canonical height one      *)
(* block, and of the rows of a position each was inserted at a time of its  *)
(* own.                                                                     *)
RowsFit(S) ==
    /\ IsFiniteSet(S)
    /\ \A r \in S : r.height \in Int /\ r.first \in Int /\ r.last \in Int /\ r.first <= r.last
    /\ \A r, s \in S : r.block = s.block => r.height = s.height
    /\ \A r, s \in S : SamePosition(r, s) /\ r # s => r.first # s.first
OneBlockEach(S) == \A r, s \in S : r.height = s.height => r.block = s.block

HeightsIn(S) == {r.height : r \in S}
Higher(H) == {p \in Pairs(H) : p[1] > p[2]}
FiniteInts(H) == IsFiniteSet(H) /\ \A h \in H : h \in Int
Depths(rank, H) == rank = [h \in H |-> Cardinality({k \in H : k > h})]

(* How many heights are above: 0 at the highest, and so on down.            *)
LEMMA DepthsAreTaken ==
  ASSUME NEW H, FiniteInts(H), NEW rank, Depths(rank, H)
  PROVE  /\ Cardinality(H) \in Nat /\ \A h \in H : rank[h] \in 0 .. Cardinality(H) - 1
         /\ \A h, k \in H : h > k => rank[h] < rank[k]
         /\ \A i \in 0 .. Cardinality(H) - 1 : \E h \in H : rank[h] = i
  <1>1. PICK R : R = Higher(H)
        OBVIOUS
  <1>2. \A h, k \in H : <<h, k>> \in R <=> h > k
        BY <1>1 DEF Higher, Pairs
  <1>3. Orders(R, H)
    <2>1. \A h \in H : <<h, h>> \notin R
          BY <1>2 DEF FiniteInts
    <2>2. \A h, k \in H : h # k => <<h, k>> \in R \/ <<k, h>> \in R
          BY <1>2 DEF FiniteInts
    <2>3. \A h, k, l \in H : <<h, k>> \in R /\ <<k, l>> \in R => <<h, l>> \in R
          BY <1>2 DEF FiniteInts
    <2> QED
        BY <2>1, <2>2, <2>3 DEF Orders
  <1>4. \A h \in H : Before(R, H, h) = {k \in H : k > h}
        BY <1>2 DEF Before
  <1>5. \A h \in H : rank[h] = Cardinality(Before(R, H, h))
        BY <1>4 DEF Depths
  <1>6. /\ \A h \in H : Cardinality(Before(R, H, h)) \in 0 .. Cardinality(H) - 1
        /\ \A h, k \in H : <<h, k>> \in R => Cardinality(Before(R, H, h)) < Cardinality(Before(R, H, k))
        /\ \A i \in 0 .. Cardinality(H) - 1 : \E h \in H : Cardinality(Before(R, H, h)) = i
        BY <1>3, PlacesAreTaken DEF FiniteInts
  <1>7. Cardinality(H) \in Nat
        BY FS_CardinalityType DEF FiniteInts
  <1>8. \A h \in H : rank[h] \in 0 .. Cardinality(H) - 1
        BY <1>5, <1>6
  <1>9. ASSUME NEW h \in H, NEW k \in H, h > k PROVE rank[h] < rank[k]
    <2>1. <<h, k>> \in R
          BY <1>2, <1>9
    <2>2. Cardinality(Before(R, H, h)) < Cardinality(Before(R, H, k))
          BY <1>6, <2>1
    <2>3. rank[h] = Cardinality(Before(R, H, h)) /\ rank[k] = Cardinality(Before(R, H, k))
          BY <1>5
    <2> QED
        BY <2>2, <2>3
  <1>10. \A i \in 0 .. Cardinality(H) - 1 : \E h \in H : rank[h] = i
         BY <1>5, <1>6
  <1> QED
      BY <1>7, <1>8, <1>9, <1>10

(* Of the newest heights there are depth at most, and as many when one is   *)
(* left out.                                                                *)
LEMMA NewestCount ==
  ASSUME NEW H, FiniteInts(H), NEW rank, Depths(rank, H), NEW depth \in Nat, NEW T, T = {h \in H : rank[h] < depth}
  PROVE  /\ IsFiniteSet(T) /\ Cardinality(T) <= depth
         /\ T # H => Cardinality(T) = depth
         /\ \A h \in T, k \in H \ T : k < h
  <1>1. PICK n : n = Cardinality(H)
        OBVIOUS
  <1>2. /\ n \in Nat /\ \A h \in H : rank[h] \in 0 .. n - 1
        /\ \A h, k \in H : h > k => rank[h] < rank[k]
        /\ \A i \in 0 .. n - 1 : \E h \in H : rank[h] = i
        BY <1>1, DepthsAreTaken
  <1>3. IsFiniteSet(T)
        BY FS_Subset DEF FiniteInts
  <1>4. PICK I : I = 0 .. depth - 1
        OBVIOUS
  <1>5. IsFiniteSet(I) /\ Cardinality(I) = depth
    <2>1. 0 \in Int /\ depth - 1 \in Int
          OBVIOUS
    <2>2. IsFiniteSet(0 .. depth - 1) /\
          Cardinality(0 .. depth - 1) = IF 0 > depth - 1 THEN 0 ELSE (depth - 1) - 0 + 1
          BY <2>1, FS_Interval
    <2> QED
        BY <1>4, <2>2
  <1>6. PICK g : g = [h \in T |-> rank[h]]
        OBVIOUS
  <1>7. \A h \in T : h \in H /\ g[h] = rank[h] /\ g[h] \in I
        BY <1>2, <1>4, <1>6
  <1>8. \A h, k \in T : h # k => g[h] # g[k]
    <2> SUFFICES ASSUME NEW h \in T, NEW k \in T, h # k PROVE g[h] # g[k]
        OBVIOUS
    <2>1. h \in H /\ k \in H /\ h \in Int /\ k \in Int
          BY <1>7 DEF FiniteInts
    <2>2. rank[h] < rank[k] \/ rank[k] < rank[h]
          BY <1>2, <2>1
    <2>3. rank[h] \in Int /\ rank[k] \in Int
          BY <1>2, <2>1
    <2> QED
        BY <1>7, <2>2, <2>3
  <1>9. g \in Injection(T, I)
    <2>1. g \in [T -> I]
          BY <1>6, <1>7
    <2> QED
        BY <1>8, <2>1 DEF Injection, IsInjective
  <1>10. Cardinality(T) <= depth
         BY <1>5, <1>9, FS_Injection
  <1>11. ASSUME T # H PROVE Cardinality(T) = depth
    <2>1. PICK k \in H : ~(rank[k] < depth)
          BY <1>11
    <2>2. depth <= n
          BY <1>2, <2>1
    <2>3. \A i \in I : \E h \in T : g[h] = i
      <3> TAKE i \in I
      <3>1. i \in 0 .. n - 1 /\ i < depth
            BY <1>2, <1>4, <2>2
      <3>2. PICK h \in H : rank[h] = i
            BY <1>2, <3>1
      <3> QED
          BY <1>7, <3>1, <3>2
    <2>4. g \in Surjection(T, I)
          BY <1>9, <2>3 DEF Injection, Surjection
    <2>5. Cardinality(I) <= Cardinality(T)
          BY <1>3, <2>4, FS_Surjection
    <2>6. Cardinality(T) \in Nat
          BY <1>3, FS_CardinalityType
    <2> QED
        BY <1>5, <1>10, <2>5, <2>6
  <1>12. ASSUME NEW h \in T, NEW k \in H \ T PROVE k < h
    <2>1. h \in H /\ k \in H /\ h \in Int /\ k \in Int
          BY <1>7 DEF FiniteInts
    <2>2. rank[h] < depth /\ ~(rank[k] < depth) /\ rank[h] \in Int /\ rank[k] \in Int
          BY <1>2, <2>1
    <2>3. ~(k > h) /\ k # h
          BY <1>2, <2>1, <2>2
    <2> QED
        BY <2>1, <2>3
  <1> QED
      BY <1>3, <1>10, <1>11, <1>12

(* The rows of the newest blocks are those at the newest heights.           *)
LEMMA NewestBlocksAre ==
  ASSUME NEW S, RowsFit(S), NEW depth \in Nat, NEW rank, Depths(rank, HeightsIn(S)),
         NEW Q, Q \subseteq S, HeightsIn(Q) = HeightsIn(S)
  PROVE  NewestBlocks(Q, depth) = {r \in Q : rank[r.height] < depth}
  <1>1. PICK H : H = HeightsIn(S)
        OBVIOUS
  <1>2. ASSUME NEW r \in Q
        PROVE  Cardinality({s.height : s \in {o \in Q : o.height > r.height}}) = rank[r.height]
    <2>1. r.height \in H
          BY <1>1 DEF HeightsIn
    <2>2. {s.height : s \in {o \in Q : o.height > r.height}} = {k \in HeightsIn(Q) : k > r.height}
          BY DEF HeightsIn
    <2> QED
        BY <1>1, <2>1, <2>2 DEF Depths
  <1> QED
      BY <1>2 DEF NewestBlocks

(* Of each position the row that was inserted last, exactly one.            *)
LatestIn(Q) == {r \in Q : \A s \in Q : SamePosition(r, s) => s.first <= r.first}

LEMMA PartsOfRowsFit ==
  ASSUME NEW S, RowsFit(S), NEW Q, Q \subseteq S
  PROVE  RowsFit(Q)
  <1>1. IsFiniteSet(Q)
        BY FS_Subset DEF RowsFit
  <1> QED
      BY <1>1 DEF RowsFit

LEMMA LatestIsOne ==
  ASSUME NEW S, RowsFit(S), NEW r \in S
  PROVE  /\ \E o \in LatestIn(S) : SamePosition(o, r)
         /\ Cardinality({o \in LatestIn(S) : SamePosition(o, r)}) = 1
  <1>1. PICK C : C = {s \in S : SamePosition(s, r)}
        OBVIOUS
  <1>2. IsFiniteSet(C) /\ C # {}
        BY <1>1, FS_Subset DEF RowsFit, SamePosition
  <1>3. PICK R : R = {p \in Pairs(C) : p[1].first >= p[2].first}
        OBVIOUS
  <1>4. \A s, t \in C : <<s, t>> \in R <=> s.first >= t.first
        BY <1>3 DEF Pairs
  <1>5. \A s \in C : s \in S /\ s.first \in Int
        BY <1>1 DEF RowsFit
  <1>6. \A s, t \in C : SamePosition(s, t) /\ (s # t => s.first # t.first)
        BY <1>1, <1>5 DEF RowsFit, SamePosition
  <1>7. \A s, t \in C : s # t => <<s, t>> \in R \/ <<t, s>> \in R
        BY <1>4, <1>5
  <1>8. \A s, t, u \in C : <<s, t>> \in R /\ <<t, u>> \in R => <<s, u>> \in R
        BY <1>4, <1>5
  <1>9. \E o \in C : \A t \in C \ {o} : <<o, t>> \in R
        BY <1>2, <1>7, <1>8, FirstOfFinite
  <1>10. PICK o \in C : \A t \in C \ {o} : <<o, t>> \in R
         BY <1>9
  <1>11. \A t \in C : t.first <= o.first /\ (t # o => t.first < o.first)
    <2>1. \A t \in C : t # o => t.first < o.first
      <3> SUFFICES ASSUME NEW t \in C, t # o PROVE t.first < o.first
          OBVIOUS
      <3>1. o.first >= t.first
            BY <1>4, <1>10
      <3>2. t.first # o.first /\ t.first \in Int /\ o.first \in Int
            BY <1>5, <1>6
      <3> QED
          BY <3>1, <3>2
    <2>2. \A t \in C : t.first \in Int
          BY <1>5
    <2> QED
        BY <2>1, <2>2
  <1>12. \A s \in S : SamePosition(o, s) <=> s \in C
         BY <1>1, <1>5 DEF SamePosition
  <1>13. o \in LatestIn(S) /\ SamePosition(o, r)
         BY <1>1, <1>5, <1>11, <1>12 DEF LatestIn
  <1>14. ASSUME NEW s \in LatestIn(S), SamePosition(s, r) PROVE s = o
    <2>1. s \in C
          BY <1>1, <1>14 DEF LatestIn
    <2>2. o.first <= s.first
          BY <1>5, <1>6, <1>14, <2>1 DEF LatestIn
    <2> QED
        BY <1>5, <1>11, <2>1, <2>2
  <1>15. {s \in LatestIn(S) : SamePosition(s, r)} = {o}
         BY <1>13, <1>14
  <1> QED
      BY <1>13, <1>15, FS_Singleton

LEMMA HeightsInAreFinite ==
  ASSUME NEW S, RowsFit(S)
  PROVE  FiniteInts(HeightsIn(S))
  <1>1. PICK f : f = [r \in S |-> r.height]
        OBVIOUS
  <1>2. HeightsIn(S) = {f[r] : r \in S}
        BY <1>1 DEF HeightsIn
  <1>3. IsFiniteSet(HeightsIn(S))
        BY <1>2, ImageIsFinite DEF RowsFit
  <1> QED
      BY <1>3 DEF FiniteInts, HeightsIn, RowsFit

(* Blocks are as many as their heights.                                     *)
BlocksOf(rows) == {r.block : r \in rows}

LEMMA BlocksCount ==
  ASSUME NEW Q, RowsFit(Q), OneBlockEach(Q)
  PROVE  IsFiniteSet(BlocksOf(Q)) /\ Cardinality(BlocksOf(Q)) = Cardinality(HeightsIn(Q))
  <1>1. PICK B, H : B = BlocksOf(Q) /\ H = HeightsIn(Q)
        OBVIOUS
  <1>2. PICK block : block = [h \in H |-> (CHOOSE r \in Q : r.height = h).block]
        OBVIOUS
  <1>3. PICK height : height = [b \in B |-> (CHOOSE r \in Q : r.block = b).height]
        OBVIOUS
  <1>4. ASSUME NEW r \in Q
        PROVE  /\ r.height \in H /\ r.block \in B
               /\ block[r.height] = r.block /\ height[r.block] = r.height
    <2>1. r.height \in H /\ r.block \in B
          BY <1>1 DEF HeightsIn, BlocksOf
    <2>2. PICK s : s = CHOOSE x \in Q : x.height = r.height
          OBVIOUS
    <2>3. s \in Q /\ s.height = r.height
          BY <2>2
    <2>4. block[r.height] = s.block
          BY <1>2, <2>1, <2>2
    <2>5. PICK t : t = CHOOSE x \in Q : x.block = r.block
          OBVIOUS
    <2>6. t \in Q /\ t.block = r.block
          BY <2>5
    <2>7. height[r.block] = t.height
          BY <1>3, <2>1, <2>5
    <2> QED
        BY <2>1, <2>3, <2>4, <2>6, <2>7 DEF RowsFit, OneBlockEach
  <1>5. B = {block[h] : h \in H}
        BY <1>1, <1>4 DEF HeightsIn, BlocksOf
  <1>6. H = {height[b] : b \in B}
        BY <1>1, <1>4 DEF HeightsIn, BlocksOf
  <1>7. IsFiniteSet(H)
        BY <1>1, HeightsInAreFinite DEF FiniteInts
  <1>8. IsFiniteSet(B) /\ Cardinality(B) <= Cardinality(H)
        BY <1>5, <1>7, ImageIsFinite
  <1>9. Cardinality(H) <= Cardinality(B)
    <2>1. Cardinality({height[b] : b \in B}) <= Cardinality(B)
          BY <1>8, ImageIsFinite
    <2> QED
        BY <1>6, <2>1
  <1>10. Cardinality(H) \in Nat /\ Cardinality(B) \in Nat
         BY <1>7, <1>8, FS_CardinalityType
  <1> QED
      BY <1>1, <1>8, <1>9, <1>10

(* What is shown: of the newest heights, of each position the row inserted  *)
(* last.                                                                    *)
ShownOf(S, rank, depth) == {r \in LatestIn(S) : rank[r.height] < depth}
NewestOf(S, rank, depth) == {r \in S : rank[r.height] < depth}

LEMMA LatestOfNewest ==
  ASSUME NEW S, RowsFit(S), NEW rank, NEW depth
  PROVE  LatestIn(NewestOf(S, rank, depth)) = ShownOf(S, rank, depth)
  <1>1. \A r, s \in S : SamePosition(r, s) => r.height = s.height
        BY DEF RowsFit, SamePosition
  <1> QED
      BY <1>1 DEF LatestIn, NewestOf, ShownOf

LEMMA LatestAtAllHeights ==
  ASSUME NEW S, RowsFit(S)
  PROVE  HeightsIn(LatestIn(S)) = HeightsIn(S)
  <1>1. ASSUME NEW r \in S PROVE \E o \in LatestIn(S) : o.height = r.height
    <2>1. PICK o \in LatestIn(S) : SamePosition(o, r)
          BY LatestIsOne
    <2>2. o \in S
          BY DEF LatestIn
    <2> QED
        BY <2>1, <2>2 DEF SamePosition, RowsFit
  <1>2. LatestIn(S) \subseteq S
        BY DEF LatestIn
  <1> QED
      BY <1>1, <1>2 DEF HeightsIn

LEMMA LatestAreShown ==
  ASSUME NEW S, RowsFit(S), OneBlockEach(S), NEW depth \in Nat,
         NEW rank, Depths(rank, HeightsIn(S))
  PROVE  ShowsLatest(ShownOf(S, rank, depth), S, depth)
  <1>1. PICK H, T : H = HeightsIn(S) /\ T = {h \in H : rank[h] < depth}
        OBVIOUS
  <1>2. FiniteInts(H) /\ Depths(rank, H)
        BY <1>1, HeightsInAreFinite
  <1>3. /\ IsFiniteSet(T) /\ Cardinality(T) <= depth /\ (T # H => Cardinality(T) = depth)
        /\ \A h \in T, k \in H \ T : k < h
        BY <1>1, <1>2, NewestCount
  <1>4. PICK rows, newest : rows = ShownOf(S, rank, depth) /\ newest = NewestOf(S, rank, depth)
        OBVIOUS
  <1>5. PICK blocks : blocks = BlocksOf(rows)
        OBVIOUS
  <1>6. newest = {r \in S : r.height \in T}
        BY <1>1, <1>4 DEF NewestOf, HeightsIn
  <1>7. RowsFit(newest) /\ OneBlockEach(newest) /\ newest \subseteq S
        BY <1>6, PartsOfRowsFit DEF OneBlockEach
  <1>8. rows = LatestIn(newest)
        BY <1>4, LatestOfNewest
  <1>9. rows \subseteq newest
        BY <1>8 DEF LatestIn
  <1>10. ASSUME NEW r \in newest
         PROVE  r.block \in blocks /\ Cardinality({o \in rows : SamePosition(o, r)}) = 1
    <2>1. /\ \E o \in rows : SamePosition(o, r)
          /\ Cardinality({o \in rows : SamePosition(o, r)}) = 1
          BY <1>7, <1>8, LatestIsOne
    <2>2. r.block \in blocks
          BY <1>5, <2>1 DEF BlocksOf, SamePosition
    <2> QED
        BY <2>1, <2>2
  <1>11. blocks = BlocksOf(newest)
         BY <1>5, <1>9, <1>10 DEF BlocksOf
  <1>12. HeightsIn(newest) = T
         BY <1>1, <1>6 DEF HeightsIn
  <1>13. Cardinality(blocks) = Cardinality(T)
         BY <1>7, <1>11, <1>12, BlocksCount
  <1>14. ASSUME NEW r \in S, r.block \in blocks PROVE r \in newest
    <2>1. PICK o \in newest : o.block = r.block
          BY <1>11, <1>14 DEF BlocksOf
    <2>2. o.height = r.height
          BY <1>7, <2>1 DEF RowsFit
    <2> QED
        BY <1>6, <2>1, <2>2
  <1>15. ASSUME NEW r \in S, r.block \notin blocks
         PROVE  Cardinality(blocks) = depth /\ \A o \in rows : r.height < o.height
    <2>1. r.height \in H \ T
          BY <1>1, <1>6, <1>10, <1>15 DEF HeightsIn
    <2>2. Cardinality(T) = depth
          BY <1>3, <2>1
    <2>3. \A o \in rows : o.height \in T
          BY <1>6, <1>9
    <2> QED
        BY <1>3, <1>13, <2>1, <2>2, <2>3
  <1>16. rows \subseteq S /\ Cardinality(blocks) <= depth
         BY <1>3, <1>7, <1>9, <1>13
  <1>17. blocks = {r.block : r \in rows}
         BY <1>5 DEF BlocksOf
  <1> QED
      BY <1>4, <1>10, <1>14, <1>15, <1>16, <1>17 DEF ShowsLatest

(* When nothing repeats itself, the last row of a position in memory is the *)
(* one that was inserted last.                                              *)
LEMMA MemoryKeepsLatest ==
  ASSUME NEW kept, RowsFit(kept), NothingRepeats(kept), NEW orphaned
  PROVE  Standing(MemoryRows(kept), orphaned) = LatestIn(Standing(kept, orphaned))
  <1>1. ASSUME NEW r \in kept, NEW s \in kept, SamePosition(r, s), r # s
        PROVE  /\ r.version = s.version
               /\ s.last < r.last <=> s.first <= r.first
    <2>1. PICK a, b, c, d : a = r.first /\ b = r.last /\ c = s.first /\ d = s.last
          OBVIOUS
    <2>2. /\ a \in Int /\ b \in Int /\ c \in Int /\ d \in Int
          /\ a <= b /\ c <= d /\ a # c
          BY <1>1, <2>1 DEF RowsFit
    <2>3. SamePosition(s, r)
          BY <1>1 DEF SamePosition
    <2>4. (a < c => b < c) /\ (c < a => d < a) /\ r.version = s.version
          BY <1>1, <2>1, <2>3 DEF NothingRepeats
    <2>5. d < b <=> c <= a
          BY <2>2, <2>4
    <2> QED
        BY <2>1, <2>4, <2>5
  <1>2. \A r \in kept : r.first <= r.first /\ SamePosition(r, r)
        BY DEF RowsFit, SamePosition
  <1>3. ASSUME NEW r \in kept
        PROVE  r \in MemoryRows(kept) <=>
                 \A s \in kept : SamePosition(r, s) => s.first <= r.first
        BY <1>1, <1>2 DEF MemoryRows
  <1>4. MemoryRows(kept) \subseteq kept
        BY DEF MemoryRows
  <1>5. \A r, s \in kept : SamePosition(r, s) => r.block = s.block
        BY DEF SamePosition
  <1>6. ASSUME NEW r \in kept, r.block \notin orphaned
        PROVE  (\A s \in kept : SamePosition(r, s) => s.first <= r.first) <=>
                 \A s \in Standing(kept, orphaned) : SamePosition(r, s) => s.first <= r.first
        BY <1>5, <1>6 DEF Standing
  <1>7. ASSUME NEW r
        PROVE  r \in Standing(MemoryRows(kept), orphaned) <=>
                 r \in LatestIn(Standing(kept, orphaned))
        BY <1>3, <1>4, <1>6 DEF Standing, LatestIn
  <1> QED
      BY <1>7

(* Each position is current where it was seen last.                         *)
LEMMA CurrentIsOne ==
  ASSUME NEW S, RowsFit(S), OneBlockEach(S), NEW kept, NEW orphaned,
         S = Standing(kept, orphaned), NEW r \in S
  PROVE  Cardinality({s \in CurrentPositions(kept, orphaned) : s.id = r.id}) = 1
  <1>1. PICK C : C = {s \in S : s.id = r.id}
        OBVIOUS
  <1>2. IsFiniteSet(C) /\ C # {}
        BY <1>1, FS_Subset DEF RowsFit
  <1>3. PICK R : R = {p \in Pairs(C) : \/ p[1].height > p[2].height
                                       \/ p[1].height = p[2].height /\ p[1].first > p[2].first}
        OBVIOUS
  <1>4. \A s, t \in C : <<s, t>> \in R <=> \/ s.height > t.height
                                           \/ s.height = t.height /\ s.first > t.first
        BY <1>3 DEF Pairs
  <1>5. \A s \in C : s \in S /\ s.height \in Int /\ s.first \in Int
        BY <1>1 DEF RowsFit
  <1>6. \A s, t \in C : s.height = t.height /\ s # t => s.first # t.first
        BY <1>1, <1>5 DEF RowsFit, OneBlockEach, SamePosition
  <1>7. \A s, t \in C : s # t => <<s, t>> \in R \/ <<t, s>> \in R
        BY <1>4, <1>5, <1>6
  <1>8. \A s, t, u \in C : <<s, t>> \in R /\ <<t, u>> \in R => <<s, u>> \in R
        BY <1>4, <1>5
  <1>9. \E o \in C : \A t \in C \ {o} : <<o, t>> \in R
        BY <1>2, <1>7, <1>8, FirstOfFinite
  <1>10. PICK o \in C : \A t \in C \ {o} : <<o, t>> \in R
         BY <1>9
  <1>11. PICK current : current = CurrentPositions(kept, orphaned)
         OBVIOUS
  <1>12. \A t : t \in current /\ t.id = r.id <=> t \in C /\ \A s \in C : <<s, t>> \notin R
         BY <1>1, <1>4, <1>11, ZenonT(40) DEF CurrentPositions
  <1>13. \A t \in C : <<t, o>> \notin R
    <2>1. <<o, o>> \notin R
          BY <1>4, <1>5
    <2>2. ASSUME NEW t \in C, t # o PROVE <<t, o>> \notin R
      <3>1. <<o, t>> \in R
            BY <1>10, <2>2
      <3> QED
          BY <1>4, <1>5, <3>1
    <2> QED
        BY <2>1, <2>2
  <1>14. {s \in current : s.id = r.id} = {o}
         BY <1>10, <1>12, <1>13
  <1> QED
      BY <1>11, <1>14, FS_Singleton

LEMMA DepthIs ==
  ASSUME NEW requested \in Int
  PROVE  Depth(requested) \in Nat \ {0} /\ Depth(requested) <= MostObservations
  <1>1. PICK f, m : f = FreeObservations /\ m = MostObservations
        OBVIOUS
  <1>2. f \in Nat \ {0} /\ m \in Nat /\ f <= m
        BY <1>1, HistoryAssumption DEF HistoryAssumption
  <1>3. PICK least : least = Min({m, requested})
        OBVIOUS
  <1>4. least \in Int /\ least <= m
        BY <1>2, <1>3, OfTwo
  <1>5. PICK most : most = Max({1, least})
        OBVIOUS
  <1>6. most = (IF 1 <= least THEN least ELSE 1)
        BY <1>4, <1>5, OfTwo
  <1>7. Depth(requested) = IF requested = NotANumber THEN f ELSE most
        BY <1>1, <1>3, <1>5 DEF Depth
  <1>8. most \in Nat \ {0} /\ most <= m
        BY <1>2, <1>4, <1>6
  <1>9. PICK depth : depth = Depth(requested)
        OBVIOUS
  <1>10. depth = f \/ depth = most
         BY <1>7, <1>9
  <1>11. depth \in Nat \ {0} /\ depth <= m
         BY <1>2, <1>8, <1>10
  <1> QED
      BY <1>1, <1>9, <1>11

(* A history shows the latest blocks that stand, each whole and each        *)
(* position once, and never an orphaned row; the two stores tell the same   *)
(* history, however deep it is asked for.                                   *)
THEOREM HistoriesAreSound ==
  ASSUME NEW q, RowsFit(q.stored), OneBlockEach(Standing(q.stored, q.orphaned)),
         q.requested \in Int
  PROVE  /\ HistoryIsSound(q)
         /\ \E rank : PostgresHistory(q.stored, q.orphaned, Depth(q.requested))
                        = ShownOf(Standing(q.stored, q.orphaned), rank, Depth(q.requested))
  <1>1. PICK kept, orphaned, depth :
          kept = q.stored /\ orphaned = q.orphaned /\ depth = Depth(q.requested)
        OBVIOUS
  <1>2. PICK S : S = Standing(kept, orphaned)
        OBVIOUS
  <1>3. S \subseteq kept
        BY <1>2 DEF Standing
  <1>4. RowsFit(kept) /\ RowsFit(S) /\ OneBlockEach(S) /\ depth \in Nat
        BY <1>1, <1>2, <1>3, PartsOfRowsFit, DepthIs
  <1>5. PICK rank : Depths(rank, HeightsIn(S))
        BY DEF Depths
  <1>6. PICK rows, newest : rows = ShownOf(S, rank, depth) /\ newest = NewestBlocks(S, depth)
        OBVIOUS
  <1>7. newest = NewestOf(S, rank, depth)
        BY <1>4, <1>5, <1>6, NewestBlocksAre DEF NewestOf
  <1>8. PostgresHistory(kept, orphaned, depth) = rows
    <2>1. PostgresHistory(kept, orphaned, depth) = LatestIn(newest)
          BY <1>2, <1>6 DEF PostgresHistory, LatestIn
    <2> QED
        BY <1>4, <1>6, <1>7, <2>1, LatestOfNewest
  <1>9. ShowsLatest(rows, S, depth)
        BY <1>4, <1>5, <1>6, LatestAreShown
  <1>10. ASSUME NothingRepeats(kept) PROVE MemoryHistory(kept, orphaned, depth) = rows
    <2>1. PICK M : M = LatestIn(S)
          OBVIOUS
    <2>2. Standing(MemoryRows(kept), orphaned) = M
          BY <1>2, <1>4, <1>10, <2>1, MemoryKeepsLatest
    <2>3. M \subseteq S /\ HeightsIn(M) = HeightsIn(S)
          BY <1>4, <2>1, LatestAtAllHeights DEF LatestIn
    <2>4. NewestBlocks(M, depth) = {r \in M : rank[r.height] < depth}
          BY <1>4, <1>5, <2>3, NewestBlocksAre
    <2> QED
        BY <1>6, <2>1, <2>2, <2>4 DEF MemoryHistory, ShownOf
  <1>11. PICK current : current = CurrentPositions(kept, orphaned)
         OBVIOUS
  <1>12. current \subseteq S
         BY <1>2, <1>11 DEF CurrentPositions
  <1>13. \A r \in S : Cardinality({s \in current : s.id = r.id}) = 1
         BY <1>2, <1>4, <1>11, CurrentIsOne
  <1>14. HistoryIsSound(q)
         BY <1>1, <1>2, <1>8, <1>9, <1>10, <1>11, <1>12, <1>13 DEF HistoryIsSound
  <1> QED
      BY <1>1, <1>2, <1>6, <1>8, <1>14

(* A list is as long as its set is large.                                   *)
LEMMA ListsAreAsLong ==
  ASSUME NEW S, IsFiniteSet(S), NEW R
  PROVE  Len(InOrder(S, R)) = Cardinality(S)
  <1>1. PICK n, f : n = Cardinality(S) /\ f = InOrder(S, R)
        OBVIOUS
  <1>2. n \in Nat
        BY <1>1, FS_CardinalityType
  <1>3. f = [k \in 1..n |-> CHOOSE x \in S : Cardinality({y \in S : <<y, x>> \in R}) = k - 1]
        BY <1>1 DEF InOrder
  <1>4. PICK V : V = {f[k] : k \in 1..n}
        OBVIOUS
  <1>5. f \in [1..n -> V]
        BY <1>3, <1>4
  <1>6. f \in Seq(V) /\ Len(f) = n
        BY <1>2, <1>5
  <1> QED
      BY <1>1, <1>6

LEMMA ObservationsAreFew ==
  ASSUME NEW rows, IsFiniteSet(rows), NEW depth \in Nat, Cardinality(BlocksOf(rows)) <= depth
  PROVE  Len(Observations(rows)) \in Nat /\ Len(Observations(rows)) <= depth
  <1>1. PICK B, f : /\ B = BlocksOf(rows)
                    /\ f = [b \in B |-> Observation({r \in rows : r.block = b})]
        OBVIOUS
  <1>2. PICK each : each = {f[b] : b \in B}
        OBVIOUS
  <1>3. IsFiniteSet(B)
    <2>1. PICK g : g = [r \in rows |-> r.block]
          OBVIOUS
    <2>2. B = {g[r] : r \in rows}
          BY <1>1, <2>1 DEF BlocksOf
    <2> QED
        BY <2>2, ImageIsFinite
  <1>4. IsFiniteSet(each) /\ Cardinality(each) <= Cardinality(B)
        BY <1>2, <1>3, ImageIsFinite
  <1>5. each = {Observation({r \in rows : r.block = b}) : b \in {r.block : r \in rows}}
        BY <1>1, <1>2 DEF BlocksOf
  <1>6. Observations(rows) = InOrder(each, {p \in Pairs(each) : p[1].height < p[2].height})
        BY <1>5 DEF Observations
  <1>7. Len(Observations(rows)) = Cardinality(each)
        BY <1>4, <1>6, ListsAreAsLong
  <1>8. Cardinality(each) \in Nat /\ Cardinality(B) \in Nat
        BY <1>3, <1>4, FS_CardinalityType
  <1> QED
      BY <1>1, <1>4, <1>7, <1>8

(* Cash flows: no two at one place of a block.                              *)
FlowsFit(flows) ==
    /\ IsFiniteSet(flows) /\ \A e \in flows : e.height \in Int /\ e.index \in Int
    /\ \A e, f \in flows : e.height = f.height /\ e.index = f.index => e = f

LaterOnes(flows, of) ==
    \A e \in of \ {flows[k] : k \in DOMAIN flows} :
       Len(flows) = MostFlows /\ ~Earlier(flows[1], e)

LEMMA FlowsAreLatest ==
  ASSUME NEW events, FlowsFit(events), NEW address
  PROVE  LaterOnes(CashFlows(events, address), OwnFlows(events, address))
  <1>1. PICK of, R : of = OwnFlows(events, address) /\ R = {p \in Pairs(of) : Earlier(p[1], p[2])}
        OBVIOUS
  <1>2. PICK own, n : own = InOrder(of, R) /\ n = Cardinality(of)
        OBVIOUS
  <1>3. of \subseteq events
        BY <1>1 DEF OwnFlows
  <1>4. IsFiniteSet(of) /\ \A e \in of : e.height \in Int /\ e.index \in Int
        BY <1>3, FS_Subset DEF FlowsFit
  <1>5. \A e, f \in of : <<e, f>> \in R <=> Earlier(e, f)
        BY <1>1 DEF Pairs
  <1>6. Orders(R, of)
    <2>1. \A e \in of : <<e, e>> \notin R
          BY <1>4, <1>5 DEF Earlier
    <2>2. \A e, f \in of : e # f => <<e, f>> \in R \/ <<f, e>> \in R
      <3> SUFFICES ASSUME NEW e \in of, NEW f \in of, e # f PROVE Earlier(e, f) \/ Earlier(f, e)
          BY <1>5
      <3>1. e.height # f.height \/ e.index # f.index
            BY <1>3 DEF FlowsFit
      <3> QED
          BY <1>4, <3>1 DEF Earlier
    <2>3. \A e, f, g \in of : <<e, f>> \in R /\ <<f, g>> \in R => <<e, g>> \in R
          BY <1>4, <1>5 DEF Earlier
    <2> QED
        BY <2>1, <2>2, <2>3 DEF Orders
  <1>7. n \in Nat /\ ListsInOrder(own, n, R, of)
        BY <1>2, <1>4, <1>6, InOrderLists
  <1>8. Len(own) = n
        BY <1>2, <1>4, ListsAreAsLong
  <1>9. PICK most, a : most = MostFlows /\ a = Max({1, n - most + 1})
        OBVIOUS
  <1>10. most \in Nat \ {0}
         BY <1>9, HistoryAssumption DEF HistoryAssumption
  <1>11. a = IF 1 <= n - most + 1 THEN n - most + 1 ELSE 1
    <2>1. PICK m : m = n - most + 1
          OBVIOUS
    <2>2. m \in Int /\ a = Max({1, m})
          BY <1>7, <1>9, <1>10, <2>1
    <2>3. a = IF 1 <= m THEN m ELSE 1
          BY <2>2, OfTwo
    <2> QED
        BY <2>1, <2>3
  <1>12. a \in Int /\ 1 <= a
         BY <1>7, <1>10, <1>11
  <1>13. PICK flows : flows = SubSeq(own, a, n)
         OBVIOUS
  <1>14. /\ flows \in Seq(of) /\ Len(flows) = IF a <= n THEN n - a + 1 ELSE 0
         /\ \A i \in 1 .. n - a + 1 : flows[i] = own[a + i - 1]
    <2>1. \A i \in a .. n : own[i] \in of
          BY <1>7, <1>12 DEF ListsInOrder
    <2> QED
        BY <1>7, <1>12, <1>13, <2>1, SubSeqProperties
  <1>15. CashFlows(events, address) = flows
         BY <1>1, <1>2, <1>8, <1>9, <1>13 DEF CashFlows
  <1>16. ASSUME NEW e \in of \ {flows[k] : k \in DOMAIN flows}
         PROVE  Len(flows) = most /\ ~Earlier(flows[1], e)
    <2>1. PICK k \in 1..n : own[k] = e
          BY <1>7 DEF ListsInOrder
    <2>2. ~(a <= k)
      <3>1. SUFFICES ASSUME a <= k PROVE FALSE
            OBVIOUS
      <3>2. k - a + 1 \in 1 .. n - a + 1 /\ a + (k - a + 1) - 1 = k /\ a <= n
            BY <1>7, <1>12, <3>1
      <3>3. flows[k - a + 1] = own[k]
            BY <1>14, <3>2
      <3>4. k - a + 1 \in DOMAIN flows
            BY <1>14, <3>2
      <3> QED
          BY <1>16, <2>1, <3>3, <3>4
    <2>3. a = n - most + 1 /\ a <= n /\ k < a /\ a \in 1..n
          BY <1>7, <1>10, <1>11, <1>12, <2>2
    <2>4. Len(flows) = most
          BY <1>7, <1>10, <1>14, <2>3
    <2>5. flows[1] = own[a]
      <3>1. 1 \in 1 .. n - a + 1 /\ a + 1 - 1 = a
            BY <1>7, <2>3
      <3> QED
          BY <1>14, <3>1
    <2>6. PICK f : f = own[a]
          OBVIOUS
    <2>7. f \in of /\ <<e, f>> \in R
          BY <1>7, <2>1, <2>3, <2>6 DEF ListsInOrder
    <2>8. ~(<<f, e>> \in R)
          BY <1>6, <2>7 DEF Orders
    <2>9. ~Earlier(f, e)
          BY <1>5, <2>7, <2>8
    <2> QED
        BY <2>4, <2>5, <2>6, <2>9
  <1> QED
      BY <1>1, <1>9, <1>15, <1>16 DEF LaterOnes

(* The route shows no more than a plan pays for, and of the cash flows the  *)
(* latest.                                                                  *)
THEOREM RoutesAreSound ==
  ASSUME NEW q, RowsFit(q.stored), OneBlockEach(Standing(q.stored, q.orphaned)),
         q.requested \in Int, FlowsFit(q.flows), q.extended \in BOOLEAN
  PROVE  RouteIsSound(q)
  <1>1. PICK kept, orphaned, depth :
          kept = q.stored /\ orphaned = q.orphaned /\ depth = Depth(q.requested)
        OBVIOUS
  <1>2. PICK S, rows : S = Standing(kept, orphaned) /\ rows = PostgresHistory(kept, orphaned, depth)
        OBVIOUS
  <1>3. PICK flows, observations :
          flows = CashFlows(q.flows, q.address) /\ observations = Observations(rows)
        OBVIOUS
  <1>4. PICK route : route = HistoryRoute(q)
        OBVIOUS
  <1>5. SUFFICES ASSUME route.ok
                 PROVE  /\ Len(route.observations)
                             <= (IF q.extended THEN MostObservations ELSE FreeObservations)
                        /\ \A e \in OwnFlows(q.flows, q.address) \ Range(route.cashFlows) :
                             Len(route.cashFlows) = MostFlows /\ ~Earlier(route.cashFlows[1], e)
        BY <1>4 DEF RouteIsSound
  <1>6. /\ ~(depth > FreeObservations /\ ~q.extended)
        /\ route.observations = observations /\ route.cashFlows = flows
    <2>1. route = IF depth > FreeObservations /\ ~q.extended THEN UpgradeRequired
                  ELSE [ok |-> TRUE, observations |-> observations, cashFlows |-> flows,
                        state |-> Baseline(observations), earned |-> EarnedYield(flows)]
          BY <1>1, <1>2, <1>3, <1>4 DEF HistoryRoute
    <2>2. ~UpgradeRequired.ok
          BY DEF UpgradeRequired
    <2> QED
        BY <1>5, <2>1, <2>2
  <1>7. depth \in Nat /\ depth <= MostObservations
        BY <1>1, DepthIs
  <1>8. Len(observations) \in Nat /\ Len(observations) <= depth
    <2>1. HistoryIsSound(q)
          BY HistoriesAreSound
    <2>2. ShowsLatest(rows, S, depth)
          BY <1>1, <1>2, <2>1 DEF HistoryIsSound
    <2>3. rows \subseteq S /\ Cardinality(BlocksOf(rows)) <= depth
          BY <2>2 DEF ShowsLatest, BlocksOf
    <2>4. S \subseteq kept
          BY <1>2 DEF Standing
    <2>5. IsFiniteSet(rows)
          BY <1>1, <2>3, <2>4, FS_Subset DEF RowsFit
    <2> QED
        BY <1>3, <1>7, <2>3, <2>5, ObservationsAreFew
  <1>9. Len(observations) <= (IF q.extended THEN MostObservations ELSE FreeObservations)
    <2>1. MostObservations \in Nat /\ FreeObservations \in Nat
          BY HistoryAssumption DEF HistoryAssumption
    <2> QED
        BY <1>6, <1>7, <1>8, <2>1
  <1>10. LaterOnes(flows, OwnFlows(q.flows, q.address))
         BY <1>3, FlowsAreLatest
  <1> QED
      BY <1>6, <1>9, <1>10 DEF LaterOnes, Range

-----------------------------------------------------------------------------
(* PortfolioHistory and UsageAnalytics.  What the run asks about fits.      *)

(* Saves: each of positions that fit, and of blocks whose height is known.  *)
SavesFit(saves, heightOf) ==
    /\ IsFiniteSet(DOMAIN saves) /\ DOMAIN saves \subseteq Nat
    /\ \A i \in DOMAIN saves :
         /\ PositionsFit(saves[i].positions)
         /\ \A h : HasBlock(saves[i], h) => heightOf[SnapshotBlock(saves[i], h)] = h

LEMMA RowsOfFit ==
  ASSUME NEW s, PositionsFit(s.positions)
  PROVE  /\ IsFiniteSet(RowsOf(s))
         /\ \A r \in RowsOf(s) : /\ r.height \in Int /\ HasBlock(s, r.height)
                                 /\ r.block = SnapshotBlock(s, r.height)
         /\ \A r, t \in RowsOf(s) : r.id = t.id => r = t
  <1>1. PICK P, h, rows : P = s.positions /\ h = SnapshotHeight(P) /\ rows = RowsOf(s)
        OBVIOUS
  <1>2. CASE rows = {}
        BY <1>1, <1>2, FS_EmptySet
  <1>3. CASE rows # {}
    <2>1. HeightsOf(P) # {} /\ rows = RowsAt(s, h)
          BY <1>1, <1>3, RowsAreOfOneHeight
    <2>2. h \in Int
          BY <1>1, <2>1, MostEvidenceIsFound, HeightsAreFinite
    <2>3. /\ HasBlock(s, h)
          /\ \A r \in rows : r.height = h /\ r.block = SnapshotBlock(s, h)
          BY <1>1, <1>3, <2>1, RowsAreOfOneHeight
    <2>4. PICK Q, b : Q = ReadAt(P, h) /\ b = SnapshotBlock(s, h)
          OBVIOUS
    <2>5. PICK row : row = [p \in Q |-> [block |-> b, height |-> h, version |-> s.version,
                                          id |-> p.id, reading |-> p.reading]]
          OBVIOUS
    <2>6. rows = {row[p] : p \in Q}
          BY <1>1, <2>1, <2>3, <2>4, <2>5 DEF RowsAt
    <2>7. \A p \in Q : row[p].id = p.id /\ p \in P
          BY <2>4, <2>5 DEF ReadAt
    <2>8. \A p, o \in Q : p.id = o.id => p = o
          BY <1>1, <2>7 DEF PositionsFit
    <2>9. IsFiniteSet(Q)
          BY <1>1, <2>4, FS_Subset DEF ReadAt, PositionsFit
    <2>10. IsFiniteSet(rows)
           BY <2>6, <2>9, ImageIsFinite
    <2>11. \A r, t \in rows : r.id = t.id => r = t
           BY <2>6, <2>7, <2>8
    <2> QED
        BY <1>1, <2>2, <2>3, <2>10, <2>11
  <1> QED
      BY <1>2, <1>3

(* The first and the last time a row was saved.                             *)
TimesOf(rows, r) == {i \in DOMAIN rows : r \in rows[i]}
KeptRow(rows, r) ==
    [block |-> r.block, height |-> r.height, version |-> r.version, id |-> r.id,
     reading |-> r.reading, first |-> Min(TimesOf(rows, r)), last |-> Max(TimesOf(rows, r))]
SavedRows(saves) == [i \in DOMAIN saves |-> RowsOf(saves[i])]

LEMMA SnapshotRowsAre ==
  ASSUME NEW saves
  PROVE  SnapshotRows(saves) = {KeptRow(SavedRows(saves), r) : r \in UNION Range(SavedRows(saves))}
  <1>1. PICK rows : rows = SavedRows(saves)
        OBVIOUS
  <1>2. rows = [i \in DOMAIN saves |-> RowsOf(saves[i])] /\ DOMAIN rows = DOMAIN saves
        BY <1>1 DEF SavedRows
  <1>3. \A r : TimesOf(rows, r) = {i \in DOMAIN saves : r \in rows[i]}
        BY <1>2 DEF TimesOf
  <1>4. PICK kept : kept = [r \in UNION Range(rows) |->
                             [block |-> r.block, height |-> r.height, version |-> r.version,
                              id |-> r.id, reading |-> r.reading,
                              first |-> Min({i \in DOMAIN saves : r \in rows[i]}),
                              last |-> Max({i \in DOMAIN saves : r \in rows[i]})]]
        OBVIOUS
  <1>5. SnapshotRows(saves) = {kept[r] : r \in UNION Range(rows)}
        BY <1>2, <1>4 DEF SnapshotRows
  <1>6. ASSUME NEW r \in UNION Range(rows) PROVE kept[r] = KeptRow(rows, r)
        BY <1>3, <1>4 DEF KeptRow
  <1> QED
      BY <1>1, <1>5, <1>6

LEMMA TimesAreKept ==
  ASSUME NEW T, IsFiniteSet(T), T \subseteq Nat, T # {}
  PROVE  Min(T) \in T /\ Max(T) \in T /\ Min(T) <= Max(T)
  <1>1. PICK n \in T : \A m \in T : n <= m
        BY LeastNatural
  <1>2. PICK low : low = Min(T)
        OBVIOUS
  <1>3. low \in T /\ \A m \in T : low <= m
        BY <1>1, <1>2 DEF Min
  <1>4. Max(T) \in T
        BY GreatestOfFinite
  <1> QED
      BY <1>2, <1>3, <1>4

LEMMA SnapshotRowsFit ==
  ASSUME NEW saves, NEW heightOf, SavesFit(saves, heightOf)
  PROVE  RowsFit(SnapshotRows(saves))
  <1>1. PICK D, rows, all : D = DOMAIN saves /\ rows = SavedRows(saves) /\ all = UNION Range(rows)
        OBVIOUS
  <1>2. DOMAIN rows = D /\ \A i \in D : rows[i] = RowsOf(saves[i])
        BY <1>1 DEF SavedRows
  <1>3. ASSUME NEW i \in D
        PROVE  /\ IsFiniteSet(rows[i])
               /\ \A r \in rows[i] : r.height \in Int /\ heightOf[r.block] = r.height
               /\ \A r, t \in rows[i] : r.id = t.id => r = t
    <2>1. PICK s : s = saves[i]
          OBVIOUS
    <2>2. /\ PositionsFit(s.positions)
          /\ \A h : HasBlock(s, h) => heightOf[SnapshotBlock(s, h)] = h
          BY <1>1, <2>1 DEF SavesFit
    <2>3. rows[i] = RowsOf(s)
          BY <1>2, <2>1
    <2>4. /\ IsFiniteSet(RowsOf(s))
          /\ \A r \in RowsOf(s) : /\ r.height \in Int /\ HasBlock(s, r.height)
                                  /\ r.block = SnapshotBlock(s, r.height)
          /\ \A r, t \in RowsOf(s) : r.id = t.id => r = t
          BY <2>2, RowsOfFit
    <2>5. \A r \in RowsOf(s) : heightOf[r.block] = r.height
          BY <2>2, <2>4
    <2> QED
        BY <2>3, <2>4, <2>5
  <1>4. all = UNION {rows[i] : i \in D}
        BY <1>1, <1>2 DEF Range
  <1>5. IsFiniteSet(D) /\ D \subseteq Nat
        BY <1>1 DEF SavesFit
  <1>6. IsFiniteSet(all)
    <2>1. PICK parts : parts = {rows[i] : i \in D}
          OBVIOUS
    <2>2. IsFiniteSet(parts)
          BY <1>5, <2>1, ImageIsFinite
    <2>3. \A T \in parts : IsFiniteSet(T)
          BY <1>3, <2>1
    <2>4. IsFiniteSet(UNION parts)
          BY <2>2, <2>3, FS_UNION
    <2> QED
        BY <1>4, <2>1, <2>4
  <1>7. ASSUME NEW r \in all
        PROVE  /\ Min(TimesOf(rows, r)) \in D /\ Max(TimesOf(rows, r)) \in D
               /\ r \in rows[Min(TimesOf(rows, r))]
               /\ Min(TimesOf(rows, r)) <= Max(TimesOf(rows, r))
    <2>1. PICK T : T = TimesOf(rows, r)
          OBVIOUS
    <2>2. T = {i \in D : r \in rows[i]}
          BY <1>2, <2>1 DEF TimesOf
    <2>3. IsFiniteSet(T) /\ T \subseteq Nat /\ T # {}
          BY <1>4, <1>5, <2>2, FS_Subset
    <2>4. Min(T) \in T /\ Max(T) \in T /\ Min(T) <= Max(T)
          BY <2>3, TimesAreKept
    <2> QED
        BY <2>1, <2>2, <2>4
  <1>8. PICK kept : kept = [r \in all |-> KeptRow(rows, r)]
        OBVIOUS
  <1>9. SnapshotRows(saves) = {kept[r] : r \in all}
        BY <1>1, <1>8, SnapshotRowsAre
  <1>10. ASSUME NEW r \in all
         PROVE  /\ kept[r].block = r.block /\ kept[r].height = r.height /\ kept[r].id = r.id
                /\ kept[r].first = Min(TimesOf(rows, r)) /\ kept[r].last = Max(TimesOf(rows, r))
         BY <1>8 DEF KeptRow
  <1>11. ASSUME NEW r \in all
         PROVE  /\ kept[r].height \in Int /\ heightOf[kept[r].block] = kept[r].height
                /\ kept[r].first \in Int /\ kept[r].last \in Int /\ kept[r].first <= kept[r].last
    <2>1. r.height \in Int /\ heightOf[r.block] = r.height
          BY <1>3, <1>4
    <2>2. kept[r].first \in Nat /\ kept[r].last \in Nat /\ kept[r].first <= kept[r].last
          BY <1>5, <1>7, <1>10
    <2> QED
        BY <1>10, <2>1, <2>2
  <1>12. ASSUME NEW r \in all, NEW t \in all, kept[r].id = kept[t].id, kept[r].first = kept[t].first
         PROVE  r = t
    <2>1. PICK i : i = kept[r].first
          OBVIOUS
    <2>2. i \in D /\ r \in rows[i] /\ t \in rows[i]
          BY <1>7, <1>10, <1>12, <2>1
    <2>3. r.id = t.id
          BY <1>10, <1>12
    <2> QED
        BY <1>3, <2>2, <2>3
  <1>13. IsFiniteSet({kept[r] : r \in all})
         BY <1>6, ImageIsFinite
  <1>14. PICK K : K = {kept[r] : r \in all}
         OBVIOUS
  <1>15. \A x \in K : /\ x.height \in Int /\ x.first \in Int /\ x.last \in Int /\ x.first <= x.last
                      /\ heightOf[x.block] = x.height
         BY <1>11, <1>14
  <1>16. \A x, y \in K : SamePosition(x, y) /\ x # y => x.first # y.first
         BY <1>12, <1>14 DEF SamePosition
  <1>17. RowsFit(K)
         BY <1>13, <1>14, <1>15, <1>16 DEF RowsFit
  <1> QED
      BY <1>9, <1>14, <1>17

(* Of two blocks of one height one is orphaned.                             *)
OneStands(saves, orphaned) ==
    \A i, j \in DOMAIN saves : \A h :
      LET b == SnapshotBlock(saves[i], h)
          c == SnapshotBlock(saves[j], h)
      IN  HasBlock(saves[i], h) /\ HasBlock(saves[j], h) /\ b \notin orphaned /\ c \notin orphaned
            => b = c

LEMMA OneOfEachStands ==
  ASSUME NEW saves, NEW heightOf, SavesFit(saves, heightOf), NEW orphaned, OneStands(saves, orphaned)
  PROVE  OneBlockEach(Standing(SnapshotRows(saves), orphaned))
  <1>1. PICK D, rows, all : D = DOMAIN saves /\ rows = SavedRows(saves) /\ all = UNION Range(rows)
        OBVIOUS
  <1>2. DOMAIN rows = D /\ \A i \in D : rows[i] = RowsOf(saves[i])
        BY <1>1 DEF SavedRows
  <1>3. ASSUME NEW x \in SnapshotRows(saves)
        PROVE  \E i \in D : HasBlock(saves[i], x.height) /\ x.block = SnapshotBlock(saves[i], x.height)
    <2>1. PICK r \in all : x = KeptRow(rows, r)
          BY <1>1, SnapshotRowsAre
    <2>2. x.block = r.block /\ x.height = r.height
          BY <2>1 DEF KeptRow
    <2>3. PICK i \in D : r \in rows[i]
          BY <1>1, <1>2 DEF Range
    <2>4. PICK s : s = saves[i]
          OBVIOUS
    <2>5. PositionsFit(s.positions) /\ r \in RowsOf(s)
          BY <1>1, <1>2, <2>3, <2>4 DEF SavesFit
    <2>6. HasBlock(s, r.height) /\ r.block = SnapshotBlock(s, r.height)
          BY <2>5, RowsOfFit
    <2> QED
        BY <2>2, <2>4, <2>6
  <1>4. SUFFICES ASSUME NEW x \in Standing(SnapshotRows(saves), orphaned),
                        NEW y \in Standing(SnapshotRows(saves), orphaned), x.height = y.height
                 PROVE  x.block = y.block
        BY DEF OneBlockEach
  <1>5. /\ x \in SnapshotRows(saves) /\ x.block \notin orphaned
        /\ y \in SnapshotRows(saves) /\ y.block \notin orphaned
        BY DEF Standing
  <1>6. PICK i \in D : HasBlock(saves[i], x.height) /\ x.block = SnapshotBlock(saves[i], x.height)
        BY <1>3, <1>5
  <1>7. PICK j \in D : HasBlock(saves[j], y.height) /\ y.block = SnapshotBlock(saves[j], y.height)
        BY <1>3, <1>5
  <1> QED
      BY <1>1, <1>4, <1>5, <1>6, <1>7 DEF OneStands

(* What the run asks about fits.                                            *)
HeightOf == [b \in {"a1", "b1", "a2", "a3"} |->
               IF b \in {"a1", "b1"} THEN 1 ELSE IF b = "a2" THEN 2 ELSE 3]
SaveFits(s) ==
    /\ s.chain \in {BeforeReorg, AfterReorg} /\ s.provider = [h \in {3} |-> "a3"]
    /\ PositionsFit(s.positions)

LEMMA TwoPositionsFit ==
  ASSUME NEW S, FiniteInts(S), NEW T, FiniteInts(T), NEW v, NEW w
  PROVE  /\ PositionsFit({KnownPosition(1, S, v)})
         /\ PositionsFit({KnownPosition(1, S, v), KnownPosition(2, T, w)})
  <1>1. PICK p, r : p = KnownPosition(1, S, v) /\ r = KnownPosition(2, T, w)
        OBVIOUS
  <1>2. p.id = 1 /\ r.id = 2 /\ p.heights = S /\ r.heights = T
        BY <1>1 DEF KnownPosition
  <1>3. IsFiniteSet({p}) /\ IsFiniteSet({p, r})
    <2>1. IsFiniteSet({p}) /\ IsFiniteSet({r})
          BY FS_Singleton
    <2>2. {p, r} = {p} \cup {r}
          OBVIOUS
    <2> QED
        BY <2>1, <2>2, FS_Union
  <1>4. PositionsFit({p}) /\ PositionsFit({p, r})
        BY <1>2, <1>3 DEF PositionsFit, FiniteInts
  <1> QED
      BY <1>1, <1>4

LEMMA SmallSets ==
  FiniteInts({}) /\ FiniteInts({1}) /\ FiniteInts({2}) /\ FiniteInts({1, 2}) /\ FiniteInts({3})
    /\ FiniteInts({4})
  <1>1. \A n \in Int : FiniteInts({n})
        BY FS_Singleton DEF FiniteInts
  <1>2. FiniteInts({})
        BY FS_EmptySet DEF FiniteInts
  <1>3. FiniteInts({1, 2})
    <2>1. {1, 2} = {1} \cup {2} /\ IsFiniteSet({1}) /\ IsFiniteSet({2})
          BY FS_Singleton
    <2>2. IsFiniteSet({1, 2})
          BY <2>1, FS_Union
    <2> QED
        BY <2>2 DEF FiniteInts
  <1> QED
      BY <1>1, <1>2, <1>3

LEMMA SavesAskedFit ==
  ASSUME NEW s \in Saves \cup OtherSaves
  PROVE  SaveFits(s)
  <1>1. ASSUME NEW c \in {BeforeReorg, AfterReorg}, NEW v, NEW P, PositionsFit(P)
        PROVE  SaveFits(Save(c, v, P))
        BY <1>1 DEF SaveFits, Save
  <1>2. \A S, T, v, w : FiniteInts(S) /\ FiniteInts(T) =>
          /\ PositionsFit({KnownPosition(1, S, v)})
          /\ PositionsFit({KnownPosition(1, S, v), KnownPosition(2, T, w)})
        BY TwoPositionsFit
  <1>3. /\ PositionsFit(OfOneBlock)
        /\ PositionsFit({KnownPosition(1, {1}, 6), KnownPosition(2, {1, 2}, 7)})
        /\ PositionsFit({KnownPosition(1, {2}, 5), KnownPosition(2, {1}, 7)})
        /\ PositionsFit({KnownPosition(1, {3}, 5), KnownPosition(2, {3}, NoValue)})
        /\ PositionsFit({KnownPosition(1, {1}, 5)})
        BY <1>2, SmallSets, Zenon DEF OfOneBlock
  <1>4. /\ PositionsFit({KnownPosition(1, {3}, 5)})
        /\ PositionsFit({KnownPosition(1, {3}, 5), KnownPosition(2, {4}, 5)})
        /\ PositionsFit({KnownPosition(1, {}, 5)})
        BY <1>2, SmallSets, Zenon
  <1>5. CASE s \in Saves
        BY <1>1, <1>3, <1>5, Zenon DEF Saves
  <1>6. CASE s \in OtherSaves
        BY <1>1, <1>3, <1>4, <1>6, Zenon DEF OtherSaves
  <1> QED
      BY <1>5, <1>6

LEMMA BlocksAsked ==
  ASSUME NEW s, SaveFits(s), NEW h, HasBlock(s, h)
  PROVE  /\ h \in {1, 2, 3}
         /\ h = 1 => SnapshotBlock(s, h) \in {"a1", "b1"}
         /\ h = 2 => SnapshotBlock(s, h) = "a2"
         /\ h = 3 => SnapshotBlock(s, h) = "a3"
  <1>1. \/ /\ DOMAIN s.chain = {1, 2} /\ s.chain[1] = "a1" /\ s.chain[2] = "a2"
        \/ /\ DOMAIN s.chain = {1, 2, 3} /\ s.chain[1] = "b1" /\ s.chain[2] = "a2"
           /\ s.chain[3] = "a3"
        BY DEF SaveFits, BeforeReorg, AfterReorg
  <1>2. DOMAIN s.provider = {3} /\ s.provider[3] = "a3"
        BY DEF SaveFits
  <1>3. h \in DOMAIN s.chain \/ (h \notin DOMAIN s.chain /\ h = 3)
        BY <1>2 DEF HasBlock
  <1>4. SnapshotBlock(s, h) = IF h \in DOMAIN s.chain THEN s.chain[h] ELSE s.provider[h]
        BY DEF SnapshotBlock
  <1> QED
      BY <1>1, <1>2, <1>3, <1>4

LEMMA HistoryAskedFits ==
  ASSUME NEW n \in 0..3, NEW saves \in [1..n -> Saves \cup OtherSaves],
         NEW orphaned \in {{"a1"}, {"b1"}, {"a1", "a3"}}
  PROVE  SavesFit(saves, HeightOf) /\ OneStands(saves, orphaned)
  <1>1. DOMAIN saves = 1..n /\ \A i \in 1..n : SaveFits(saves[i])
        BY SavesAskedFit
  <1>2. IsFiniteSet(1..n) /\ 1..n \subseteq Nat
        BY FS_Interval
  <1>3. ASSUME NEW i \in 1..n, NEW h, HasBlock(saves[i], h)
        PROVE  HeightOf[SnapshotBlock(saves[i], h)] = h
    <2>1. PICK s, b : s = saves[i] /\ b = SnapshotBlock(s, h)
          OBVIOUS
    <2>2. /\ h \in {1, 2, 3} /\ (h = 1 => b \in {"a1", "b1"}) /\ (h = 2 => b = "a2")
          /\ (h = 3 => b = "a3")
          BY <1>1, <1>3, <2>1, BlocksAsked
    <2>3. HeightOf[b] = h
          BY <2>2 DEF HeightOf
    <2> QED
        BY <2>1, <2>3
  <1>4. ASSUME NEW i \in 1..n, NEW j \in 1..n, NEW h, HasBlock(saves[i], h), HasBlock(saves[j], h),
               SnapshotBlock(saves[i], h) \notin orphaned, SnapshotBlock(saves[j], h) \notin orphaned
        PROVE  SnapshotBlock(saves[i], h) = SnapshotBlock(saves[j], h)
    <2>1. PICK s, t, b, c : /\ s = saves[i] /\ t = saves[j]
                            /\ b = SnapshotBlock(s, h) /\ c = SnapshotBlock(t, h)
          OBVIOUS
    <2>2. /\ h \in {1, 2, 3} /\ (h = 1 => b \in {"a1", "b1"}) /\ (h = 2 => b = "a2")
          /\ (h = 3 => b = "a3")
          BY <1>1, <1>4, <2>1, BlocksAsked
    <2>3. (h = 1 => c \in {"a1", "b1"}) /\ (h = 2 => c = "a2") /\ (h = 3 => c = "a3")
          BY <1>1, <1>4, <2>1, BlocksAsked
    <2>4. b \notin orphaned /\ c \notin orphaned
          BY <1>4, <2>1
    <2>5. b = c
          BY <2>2, <2>3, <2>4
    <2> QED
        BY <2>1, <2>5
  <1>5. SavesFit(saves, HeightOf)
        BY <1>1, <1>2, <1>3 DEF SavesFit, SaveFits
  <1>6. OneStands(saves, orphaned)
        BY <1>1, <1>4 DEF OneStands
  <1> QED
      BY <1>5, <1>6

LEMMA FlowsAskedFit ==
  ASSUME NEW flows \in SUBSET Flows
  PROVE  FlowsFit(flows)
  <1>2. PICK a, b, c, d, e : /\ a = Flow("w1", "vault-deposit", 1, 0)
                             /\ b = Flow("w1", "vault-redeem", 1, 1)
                             /\ c = Flow("w1", "vault-deposit", 2, 0)
                             /\ d = Flow("w1", "debt-repaid", 3, 0)
                             /\ e = Flow("w2", "vault-redeem", 3, 1)
        OBVIOUS
  <1>3. Flows = {a, b, c, d, e}
        BY <1>2, Zenon DEF Flows
  <1>4. /\ a.height = 1 /\ a.index = 0 /\ b.height = 1 /\ b.index = 1
        /\ c.height = 2 /\ c.index = 0 /\ d.height = 3 /\ d.index = 0
        /\ e.height = 3 /\ e.index = 1
        BY <1>2, SMT DEF Flow
  <1>5. IsFiniteSet(Flows)
    <2>1. Flows = {a, b, c, d, e, e}
          BY <1>3
    <2> QED
        BY <2>1, SixAreFinite
  <1>6. \A x \in Flows : x.height \in Int /\ x.index \in Int
        BY <1>3, <1>4
  <1>7. \A x, y \in Flows : x.height = y.height /\ x.index = y.index => x = y
        BY <1>3, <1>4
  <1>8. IsFiniteSet(flows) /\ flows \subseteq Flows
        BY <1>5, FS_Subset
  <1> QED
      BY <1>6, <1>7, <1>8 DEF FlowsFit

LEMMA ResponsesFit ==
  ASSUME NEW r \in Responses, NEW i
  PROVE  /\ [r EXCEPT !.at = i].at = i /\ [r EXCEPT !.at = i].took \in Nat
         /\ [r EXCEPT !.at = i].status \in Int /\ [r EXCEPT !.at = i].address # NoHash
  <1>1. r.took \in Nat /\ r.status \in Int
        BY SMT DEF Responses, Asked
  <1>2. r.address \in {"w1", "w2"}
        BY SMT DEF Responses, Asked
  <1>3. "at" \in DOMAIN r
        BY SMT DEF Responses, Asked
  <1>4. PICK f : f = [r EXCEPT !["at"] = i]
        OBVIOUS
  <1>5. f["at"] = i /\ f["took"] = r["took"] /\ f["status"] = r["status"] /\ f["address"] = r["address"]
        BY <1>3, <1>4
  <1> QED
      BY <1>1, <1>2, <1>4, <1>5 DEF NoHash

LEMMA RequestsAskedFit ==
  ASSUME NEW n \in 0..4, NEW asked \in [1..n -> Responses]
  PROVE  RequestsFit([i \in 1..n |-> [asked[i] EXCEPT !.at = i]])
  <1>1. PICK requests : requests = [i \in 1..n |-> [asked[i] EXCEPT !.at = i]]
        OBVIOUS
  <1>2. DOMAIN requests = 1..n /\ IsFiniteSet(1..n) /\ 1..n \subseteq Int
    <2>1. DOMAIN requests = 1..n
          BY <1>1
    <2>2. IsFiniteSet(1..n)
          BY FS_Interval
    <2>3. 1..n \subseteq Int
          OBVIOUS
    <2> QED
        BY <2>1, <2>2, <2>3
  <1>3. ASSUME NEW i \in 1..n
        PROVE  /\ requests[i].at = i /\ requests[i].took \in Nat /\ requests[i].status \in Int
               /\ requests[i].address # NoHash
    <2>1. PICK r, f : r = asked[i] /\ f = [r EXCEPT !.at = i]
          OBVIOUS
    <2>2. r \in Responses /\ requests[i] = f
          BY <1>1, <2>1
    <2>3. f.at = i /\ f.took \in Nat /\ f.status \in Int /\ f.address # NoHash
          BY <2>1, <2>2, ResponsesFit
    <2> QED
        BY <2>2, <2>3
  <1>4. \A i, j \in 1..n : i < j => requests[i].at < requests[j].at
        BY <1>3
  <1>5. \A i \in 1..n : requests[i].at \in Int
        BY <1>2, <1>3
  <1> QED
      BY <1>1, <1>2, <1>3, <1>4, <1>5 DEF RequestsFit

LEMMA AskUsageHolds ==
  ASSUME AskUsage
  PROVE  HistorySound'
  <1>1. PICK n \in 0..4 : \E asked \in [1..n -> Responses], salted \in BOOLEAN, since \in {1, 2} :
          question' = <<"usage", [requests |-> [i \in 1..n |-> [asked[i] EXCEPT !.at = i]],
                                  salted |-> salted, since |-> since]>>
        BY DEF AskUsage, Question
  <1>2. PICK asked \in [1..n -> Responses], salted \in BOOLEAN, since \in {1, 2} :
          question' = <<"usage", [requests |-> [i \in 1..n |-> [asked[i] EXCEPT !.at = i]],
                                  salted |-> salted, since |-> since]>>
        BY <1>1
  <1>3. PICK requests : requests = [i \in 1..n |-> [asked[i] EXCEPT !.at = i]]
        OBVIOUS
  <1>4. PICK q : q = [requests |-> requests, salted |-> salted, since |-> since]
        OBVIOUS
  <1>5. q.requests = requests /\ q.salted = salted /\ q.salted \in BOOLEAN
        BY <1>4
  <1>6. RequestsFit(q.requests)
    <2>1. RequestsFit([i \in 1..n |-> [asked[i] EXCEPT !.at = i]])
          BY <1>2, RequestsAskedFit
    <2>2. RequestsFit(requests)
          BY <1>3, <2>1
    <2> QED
        BY <1>5, <2>2
  <1>7. UsageIsSound(q)
        BY <1>5, <1>6, UsageCountsOnce
  <1>8. question'[1] = "usage" /\ question'[2] = q
        BY <1>2, <1>3, <1>4
  <1> QED
      BY <1>7, <1>8 DEF HistorySound

LEMMA AskHistoryHolds ==
  ASSUME AskHistory
  PROVE  HistorySound'
  <1>1. ASSUME NEW s \in Saves \cup OtherSaves, Question("save", s) PROVE HistorySound'
    <2>1. SnapshotIsOfOneBlock(s)
          BY SavesAskedFit, SnapshotsAreOfOneBlock DEF SaveFits
    <2>2. question'[1] = "save" /\ question'[2] = s
          BY <1>1 DEF Question
    <2> QED
        BY <2>1, <2>2 DEF HistorySound
  <1>2. ASSUME NEW n \in 0..3, NEW saves \in [1..n -> IF n < 3 THEN Saves \cup OtherSaves ELSE Saves],
               NEW orphaned \in {{"a1"}, {"b1"}, {"a1", "a3"}},
               NEW requested \in {NotANumber, 9}, NEW extended \in BOOLEAN,
               NEW flows \in IF n = 0 THEN SUBSET Flows ELSE {{}},
               NEW q, q = [stored |-> SnapshotRows(saves), orphaned |-> orphaned,
                           requested |-> requested, extended |-> extended, flows |-> flows,
                           address |-> "w1"],
               question' = <<"history", q>>
        PROVE  HistorySound'
    <2>1. saves \in [1..n -> Saves \cup OtherSaves]
          BY <1>2
    <2>2. SavesFit(saves, HeightOf) /\ OneStands(saves, orphaned)
          BY <2>1, HistoryAskedFits
    <2>3. /\ RowsFit(SnapshotRows(saves))
          /\ OneBlockEach(Standing(SnapshotRows(saves), orphaned))
          BY <2>2, SnapshotRowsFit, OneOfEachStands
    <2>4. flows \in SUBSET Flows
          BY <1>2
    <2>5. FlowsFit(flows)
          BY <2>4, FlowsAskedFit
    <2>6. requested \in Int
          BY DEF NotANumber
    <2>7. /\ q.stored = SnapshotRows(saves) /\ q.orphaned = orphaned /\ q.requested = requested
          /\ q.extended = extended /\ q.flows = flows
          BY <1>2
    <2>8. /\ RowsFit(q.stored) /\ OneBlockEach(Standing(q.stored, q.orphaned))
          /\ q.requested \in Int /\ FlowsFit(q.flows) /\ q.extended \in BOOLEAN
          BY <2>3, <2>5, <2>6, <2>7
    <2>9. HistoryIsSound(q) /\ RouteIsSound(q)
          BY <2>8, HistoriesAreSound, RoutesAreSound
    <2>10. question'[1] = "history" /\ question'[2] = q
           BY <1>2
    <2> QED
        BY <2>9, <2>10 DEF HistorySound
  <1>3. CASE \E s \in Saves \cup OtherSaves : Question("save", s)
        BY <1>1, <1>3
  <1>4. CASE \E n \in 0..3 : \E saves \in [1..n -> IF n < 3 THEN Saves \cup OtherSaves ELSE Saves],
         orphaned \in {{"a1"}, {"b1"}, {"a1", "a3"}},
         requested \in {NotANumber, 9}, extended \in BOOLEAN,
         flows \in IF n = 0 THEN SUBSET Flows ELSE {{}} :
        Question("history", [stored |-> SnapshotRows(saves), orphaned |-> orphaned, requested |-> requested,
                             extended |-> extended, flows |-> flows, address |-> "w1"])
    <2>1. PICK n \in 0..3 : \E saves \in [1..n -> IF n < 3 THEN Saves \cup OtherSaves ELSE Saves],
             orphaned \in {{"a1"}, {"b1"}, {"a1", "a3"}},
             requested \in {NotANumber, 9}, extended \in BOOLEAN,
             flows \in IF n = 0 THEN SUBSET Flows ELSE {{}} :
            question' = <<"history", [stored |-> SnapshotRows(saves), orphaned |-> orphaned,
                                      requested |-> requested, extended |-> extended,
                                      flows |-> flows, address |-> "w1"]>>
          BY <1>4 DEF Question
    <2>2. PICK saves \in [1..n -> IF n < 3 THEN Saves \cup OtherSaves ELSE Saves],
               orphaned \in {{"a1"}, {"b1"}, {"a1", "a3"}},
               requested \in {NotANumber, 9}, extended \in BOOLEAN,
               flows \in IF n = 0 THEN SUBSET Flows ELSE {{}} :
            question' = <<"history", [stored |-> SnapshotRows(saves), orphaned |-> orphaned,
                                      requested |-> requested, extended |-> extended,
                                      flows |-> flows, address |-> "w1"]>>
          BY <2>1
    <2> QED
        BY <1>2, <2>2, ZenonT(40)
  <1> QED
      BY <1>3, <1>4 DEF AskHistory

(* The past as the stores tell it, for every question of the run:           *)
(* SnapshotsAreOfOneBlock, HistoriesAreSound, RoutesAreSound and            *)
(* UsageCountsOnce, of any saves and requests, applied to those that are    *)
(* asked about.                                                             *)
THEOREM HistoryHolds ==
  Decisions => []HistorySound
  <1>1. AskNothing => HistorySound
        BY DEF AskNothing, NotAsked, HistorySound
  <1>2. ASSUME AskAny PROVE HistorySound'
    <2>1. CASE AskHistory
          BY <2>1, AskHistoryHolds
    <2>2. CASE AskUsage
          BY <2>2, AskUsageHolds
    <2>3. ASSUME NEW s, NEW i, question' = <<s, i>>, s \notin {"save", "history", "usage"}
          PROVE  HistorySound'
      <3>1. question'[1] = s
            BY <2>3
      <3> QED
          BY <2>3, <3>1 DEF HistorySound
    <2> QED
        BY <1>2, <2>1, <2>2, <2>3, SubjectsAsked DEF AskAny
  <1>3. HistorySound /\ UNCHANGED question => HistorySound'
        BY DEF HistorySound
  <1>4. HistorySound /\ [AskAny]_question => HistorySound'
        BY <1>2, <1>3
  <1> QED
      BY <1>1, <1>4, PTL DEF Decisions
=============================================================================
