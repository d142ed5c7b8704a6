---------------------- MODULE RegistryBackfillProofs ----------------------
(* Proofs about RegistryBackfill: for any page size, any number of runs,    *)
(* events, failures and crashes, as long as pages are requested in order    *)
(* and are of one list.                                                     *)
EXTENDS RegistryBackfill, FiniteSetTheorems, TLAPS

USE ConstantsAssumption

(* With one request at a time, all earlier pages have been answered.        *)
LEMMA InOrderRequests ==
    ASSUME InOrder, NEW p \in Runs, NEW i \in Slots, TypeOK, Requestable(p, i)
    PROVE  \A j \in 1..i - 1 : got[p][j] # "none"
  <1>1. CASE Prefetch = 1
    BY <1>1 DEF Slots
  <1>2. CASE Concurrency = 1
    <2> DEFINE P == {j \in 1..i - 1 : got[p][j] = "none"}
    <2>1. IsFiniteSet(1..i - 1)
      BY FS_Interval DEF Slots
    <2>2. IsFiniteSet(P)
      BY <2>1, FS_Subset
    <2>3. Cardinality(P) \in Nat /\ Cardinality(P) < 1
      BY <1>2, <2>2, FS_CardinalityType DEF Requestable
    <2>4. P = {}
      BY <2>2, <2>3, FS_EmptySet
    <2> QED
      BY <2>4
  <1> QED
    BY <1>1, <1>2 DEF InOrder

(* A page has at most PageSize events, and Below never leaves the naturals. *)
LEMMA PageBounds ==
    ASSUME NEW p \in Runs, TypeOK
    PROVE  /\ Newest(p) \in Nat /\ Bottom(p) \in Nat
           /\ PageLength(p) \in 0..PageSize
           /\ Bottom(p) + PageLength(p) = Newest(p)
  <1>1. Newest(p) \in Nat
    BY DEF TypeOK, Newest
  <1> QED
    BY <1>1, SMTT(30) DEF Bottom, PageLength, Below

(* The floor of an offset moves with what it is taken from, and by steps.   *)
LEMMA Shift ==
    \A g, h, k \in Nat :
      /\ Below(g, k) \in Nat /\ Below(h, k) \in Nat
      /\ g <= h => Below(g, k) <= Below(h, k)
  BY DEF Below

LEMMA Product ==
    ASSUME NEW m \in Nat, NEW n \in Nat
    PROVE  m * n \in Nat
  OBVIOUS

LEMMA BelowType ==
    ASSUME NEW h \in Nat, NEW k \in Nat
    PROVE  Below(h, k) \in Nat /\ Below(h, k) <= h /\ Below(h, k) >= h - k
  BY DEF Below

LEMMA BelowTwice ==
    ASSUME NEW h \in Nat, NEW k \in Nat, NEW n \in Nat
    PROVE  Below(Below(h, k), n) = Below(h, k + n)
  BY DEF Below

(* The variables of a window and of a pass are of their types when reset.   *)
LEMMA WindowTypes ==
    ASSUME TypeOK, NEW p \in Runs, NEW n \in 0..Prefetch, Window(p, n)
    PROVE  /\ size' \in [Runs -> 0..Prefetch]
           /\ got' \in [Runs -> [Slots -> {"none", "page", "failed"}]]
           /\ top' \in [Runs -> [Slots -> Nat]]
           /\ slot' \in [Runs -> Slots] /\ done' \in [Runs -> 0..PageSize]
           /\ looked' \in [Runs -> BOOLEAN] /\ absent' \in [Runs -> SUBSET Nat]
  <1>1. size' \in [Runs -> 0..Prefetch]
    BY DEF Window, TypeOK
  <1>2. got' \in [Runs -> [Slots -> {"none", "page", "failed"}]]
    BY DEF Window, TypeOK
  <1>3. top' \in [Runs -> [Slots -> Nat]]
    BY DEF Window, TypeOK
  <1>4. slot' \in [Runs -> Slots] /\ done' \in [Runs -> 0..PageSize]
    BY DEF Window, TurnTo, TypeOK, Slots
  <1>5. looked' \in [Runs -> BOOLEAN] /\ absent' \in [Runs -> SUBSET Nat]
    BY DEF Window, TurnTo, TypeOK
  <1> QED
    BY <1>1, <1>2, <1>3, <1>4, <1>5

LEMMA StopTypes ==
    ASSUME TypeOK, NEW p \in Runs, Stop(p), UNCHANGED <<head, record, skewed>>,
           status' \in Statuses, next_offset' \in Nat, faults' \in 0..MaxFaults
    PROVE  TypeOK'
  <1>1. pc' \in [Runs -> {"off", "begin", "window", "work"}]
    BY DEF Stop, TypeOK
  <1>2. offset' \in [Runs -> Nat] /\ pages' \in [Runs -> Nat]
    BY DEF Stop, TypeOK
  <1>3. 0 \in 0..Prefetch /\ Window(p, 0)
    BY DEF Stop
  <1> QED
    BY <1>1, <1>2, <1>3, WindowTypes DEF TypeOK, record

LEMMA AnsweredTypes ==
    ASSUME TypeOK, NEW p \in Runs, NEW i \in Slots, NEW lag \in Nat, Answered(p, i, lag),
           skewed' \in BOOLEAN, faults' \in 0..MaxFaults
    PROVE  TypeOK'
  <1>1. head \in Nat /\ offset[p] + (i - 1) * PageSize + lag \in Nat
    <2>1. i - 1 \in Nat /\ offset[p] \in Nat /\ head \in Nat
      BY DEF Slots, TypeOK
    <2>2. (i - 1) * PageSize \in Nat
      BY <2>1, Product
    <2> QED
      BY <2>1, <2>2
  <1>2. Below(head, offset[p] + (i - 1) * PageSize + lag) \in Nat
    BY <1>1, BelowType
  <1>3. top' \in [Runs -> [Slots -> Nat]]
    BY <1>2 DEF Answered, TypeOK
  <1>4. got' \in [Runs -> [Slots -> {"none", "page", "failed"}]]
    BY DEF Answered, TypeOK
  <1> QED
    BY <1>3, <1>4 DEF Answered, TypeOK, checkpoint, record

LEMMA TypeStep ==
    ASSUME TypeOK, [Next]_vars
    PROVE  TypeOK'
  <1> USE DEF record
  <1>1. CASE UNCHANGED vars
    BY <1>1 DEF vars, TypeOK, checkpoint, work
  <1>2. CASE Arrive
    BY <1>2 DEF Arrive, TypeOK, Statuses, checkpoint, work
  <1>3. ASSUME NEW p \in Runs, Start(p)
        PROVE  TypeOK'
    BY <1>3 DEF Start, Go, TypeOK, Statuses, checkpoint, work
  <1>4. ASSUME NEW p \in Runs, SetRunning(p)
        PROVE  TypeOK'
    BY <1>4 DEF SetRunning, Go, TypeOK, Statuses, checkpoint, work
  <1>5. ASSUME NEW p \in Runs, Pause(p) \/ Exhaust(p) \/ Fail(p) \/ Crash(p)
        PROVE  TypeOK'
    <2>1. Stop(p) /\ UNCHANGED <<head, record, skewed>>
      BY <1>5 DEF Pause, Exhaust, Fail, Crash
    <2>2. status' \in Statuses /\ next_offset' \in Nat /\ faults' \in 0..MaxFaults
      BY <1>5 DEF Pause, Exhaust, Fail, Crash, TypeOK, Statuses, checkpoint
    <2> QED
      BY <2>1, <2>2, StopTypes
  <1>6. ASSUME NEW p \in Runs, OpenWindow(p)
        PROVE  TypeOK'
    <2>1. PICK n \in 0..Prefetch : Window(p, n)
      BY <1>6 DEF OpenWindow, TypeOK
    <2>2. pc' \in [Runs -> {"off", "begin", "window", "work"}]
      BY <1>6 DEF OpenWindow, Go, TypeOK
    <2>3. UNCHANGED <<head, record, checkpoint, offset, pages, skewed, faults>>
      BY <1>6 DEF OpenWindow
    <2> QED
      BY <2>1, <2>2, <2>3, WindowTypes DEF TypeOK, checkpoint
  <1>7. ASSUME NEW p \in Runs, NEW i \in Slots, FetchPage(p, i)
        PROVE  TypeOK'
    <2>1. skewed' \in BOOLEAN /\ faults' \in 0..MaxFaults /\ Answered(p, i, 0)
      BY <1>7 DEF FetchPage, TypeOK
    <2> QED
      BY <2>1, AnsweredTypes
  <1>8. ASSUME NEW p \in Runs, NEW i \in Slots, FetchElsewhere(p, i)
        PROVE  TypeOK'
    <2>1. faults' \in 0..MaxFaults
      BY <1>8 DEF FetchElsewhere, TypeOK
    <2>2. PICK lag \in Lags : Answered(p, i, lag) /\ skewed' = (skewed \/ lag # 0)
      BY <1>8 DEF FetchElsewhere
    <2> QED
      BY <2>1, <2>2, AnsweredTypes
  <1>9. ASSUME NEW p \in Runs, NEW i \in Slots, LosePage(p, i)
        PROVE  TypeOK'
    <2>1. got' \in [Runs -> [Slots -> {"none", "page", "failed"}]]
      BY <1>9 DEF LosePage, TypeOK
    <2>2. faults' \in 0..MaxFaults
      BY <1>9 DEF LosePage, TypeOK
    <2> QED
      BY <1>9, <2>1, <2>2 DEF LosePage, TypeOK, checkpoint
  <1>10. ASSUME NEW p \in Runs, JoinTransactions(p)
         PROVE  TypeOK'
    <2>1. looked' \in [Runs -> BOOLEAN]
      BY <1>10 DEF JoinTransactions, TypeOK
    <2>2. absent' \in [Runs -> SUBSET Nat]
      <3>1. PICK gone \in SUBSET (Bottom(p) + 1..Newest(p)) : absent' = [absent EXCEPT ![p] = gone]
        BY <1>10 DEF JoinTransactions
      <3>2. Bottom(p) \in Nat /\ Newest(p) \in Nat
        BY PageBounds
      <3>3. gone \in SUBSET Nat
        BY <3>2
      <3> QED
        BY <3>1, <3>3 DEF TypeOK
    <2> QED
      BY <1>10, <2>1, <2>2 DEF JoinTransactions, TypeOK, checkpoint
  <1>11. ASSUME NEW p \in Runs, IngestEvent(p)
         PROVE  TypeOK'
    <2>1. PageLength(p) \in 0..PageSize /\ Bottom(p) \in Nat
      BY PageBounds
    <2>2. done[p] \in Nat
      BY DEF TypeOK
    <2>3. done' \in [Runs -> 0..PageSize]
      BY <1>11, <2>1, <2>2 DEF IngestEvent, TypeOK
    <2>4. Bottom(p) + done[p] + 1 \in Nat \ {0}
      BY <2>1, <2>2
    <2>5. ingested' \subseteq Nat \ {0} /\ dropped' \subseteq Nat \ {0}
      BY <1>11, <2>4 DEF IngestEvent, TypeOK
    <2> QED
      BY <1>11, <2>3, <2>5 DEF IngestEvent, TypeOK, checkpoint
  <1>12. ASSUME NEW p \in Runs, Advance(p)
         PROVE  TypeOK'
    <2>1. PageLength(p) \in Nat /\ offset[p] \in Nat /\ next_offset' \in Nat
      BY <1>12, PageBounds DEF Advance, TypeOK
    <2>2. UNCHANGED <<head, record, skewed, faults>>
      BY <1>12 DEF Advance
    <2>3. CASE Stop(p) /\ status' = "complete"
      BY <2>1, <2>2, <2>3, StopTypes DEF TypeOK, Statuses
    <2>4. CASE /\ status' = "running"
               /\ offset' = [offset EXCEPT ![p] = @ + PageSize]
               /\ pages' = [pages EXCEPT ![p] = @ + 1]
      <3>1. offset' \in [Runs -> Nat] /\ pages' \in [Runs -> Nat] /\ status' \in Statuses
        BY <2>4 DEF TypeOK, Statuses
      <3>2. CASE pc' = [pc EXCEPT ![p] = "window"] /\ Window(p, 0)
        <4>1. pc' \in [Runs -> {"off", "begin", "window", "work"}] /\ 0 \in 0..Prefetch
          BY <3>2 DEF TypeOK
        <4> QED
          BY <2>1, <2>2, <3>1, <3>2, <4>1, WindowTypes DEF TypeOK
      <3>3. CASE /\ slot[p] < size[p] /\ TurnTo(p, slot[p] + 1)
                 /\ UNCHANGED <<pc, size, got, top>>
        <4>1. slot[p] + 1 \in Slots
          BY <3>3 DEF TypeOK, Slots
        <4>2. slot' \in [Runs -> Slots] /\ done' \in [Runs -> 0..PageSize]
          BY <3>3, <4>1 DEF TurnTo, TypeOK
        <4>3. looked' \in [Runs -> BOOLEAN] /\ absent' \in [Runs -> SUBSET Nat]
          BY <3>3 DEF TurnTo, TypeOK
        <4> QED
          BY <2>1, <2>2, <3>1, <3>3, <4>2, <4>3 DEF TypeOK
      <3> QED
        BY <1>12, <2>4, <3>2, <3>3 DEF Advance
    <2> QED
      BY <1>12, <2>3, <2>4 DEF Advance
  <1> QED
    BY <1>1, <1>2, <1>3, <1>4, <1>5, <1>6, <1>7, <1>8, <1>9, <1>10, <1>11,
      <1>12 DEF Next, Step

(* What a run has read and recorded stays valid while the list grows at its *)
(* head and other runs ingest.                                              *)
LEMMA Bystander ==
    ASSUME IInv, TypeOK', NEW q \in Runs,
           pc'[q] = pc[q], offset'[q] = offset[q], size'[q] = size[q],
           got'[q] = got[q], top'[q] = top[q], slot'[q] = slot[q],
           done'[q] = done[q], head <= head', Handled \subseteq Handled'
    PROVE  IngestedAbove(q)' /\ PagesMeet(q)' /\ OffsetCovered(q)'
  <1> USE DEF IInv, TypeOK
  <1>1. head \in Nat /\ head' \in Nat /\ offset[q] \in Nat
    OBVIOUS
  <1>2. Newest(q)' = Newest(q) /\ Bottom(q)' = Bottom(q) /\ PageLength(q)' = PageLength(q)
    BY DEF Newest, Bottom, PageLength, Below
  <1>3. IngestedAbove(q)'
    <2> SUFFICES ASSUME pc[q] = "work", got[q][slot[q]] = "page"
                 PROVE  IngestedAbove(q)'
      BY DEF IngestedAbove
    <2>1. Newest(q) <= Below(head, offset[q]) /\ Newest(q) \in Nat
      BY PageBounds DEF IngestedAbove
    <2>2. /\ Below(head, offset[q]) \in Nat /\ Below(head', offset[q]) \in Nat
          /\ Below(head, offset[q]) <= Below(head', offset[q])
      BY <1>1, Shift
    <2>3. Newest(q) <= Below(head', offset[q])
      BY <2>1, <2>2
    <2> QED
      BY <1>2, <2>3 DEF IngestedAbove
  <1>4. PagesMeet(q)'
    <2> SUFFICES ASSUME pc[q] = "work"
                 PROVE  PagesMeet(q)'
      BY DEF PagesMeet
    <2>1. ASSUME NEW i \in slot[q]..size[q], got[q][i] = "page"
          PROVE  top[q][i] <= Below(head', offset[q] + (i - slot[q]) * PageSize)
      <3> DEFINE x == offset[q] + (i - slot[q]) * PageSize
      <3>1. i - slot[q] \in Nat /\ i \in Slots
        BY SMTT(30) DEF Slots
      <3>2. x \in Nat
        <4>1. (i - slot[q]) * PageSize \in Nat
          BY <3>1, Product
        <4> QED
          BY <1>1, <4>1
      <3>3. top[q][i] <= Below(head, x)
        BY <2>1 DEF PagesMeet
      <3> HIDE DEF x
      <3>4. /\ Below(head, x) \in Nat /\ Below(head', x) \in Nat
            /\ Below(head, x) <= Below(head', x)
        BY <1>1, <3>2, Shift
      <3>5. top[q][i] \in Nat
        BY <3>1
      <3>6. top[q][i] <= Below(head', x)
        BY <3>3, <3>4, <3>5
      <3> QED
        BY <3>6 DEF x
    <2> QED
      BY <2>1 DEF PagesMeet, Below
  <1>5. OffsetCovered(q)'
    BY DEF OffsetCovered, Old
  <1> QED
    BY <1>3, <1>4, <1>5

LEMMA InitHolds == Init => IInv
  <1> SUFFICES ASSUME Init
               PROVE  IInv
    OBVIOUS
  <1>1. TypeOK
    <2>1. head \in Nat /\ next_offset \in Nat /\ faults \in 0..MaxFaults
      BY DEF Init
    <2>2. ingested \subseteq Nat \ {0} /\ dropped \subseteq Nat \ {0}
      BY DEF Init
    <2>3. status \in Statuses /\ skewed \in BOOLEAN
      BY DEF Init, Statuses
    <2>4. 1 \in Slots
      BY DEF Slots
    <2>5. /\ pc \in [Runs -> {"off", "begin", "window", "work"}]
          /\ offset \in [Runs -> Nat] /\ pages \in [Runs -> Nat]
          /\ size \in [Runs -> 0..Prefetch]
      BY DEF Init
    <2>6. got \in [Runs -> [Slots -> {"none", "page", "failed"}]]
      BY DEF Init
    <2>7. top \in [Runs -> [Slots -> Nat]]
      BY DEF Init
    <2>8. /\ slot \in [Runs -> Slots] /\ looked \in [Runs -> BOOLEAN]
          /\ done \in [Runs -> 0..PageSize]
      BY <2>4 DEF Init
    <2>9. absent \in [Runs -> SUBSET Nat]
      BY DEF Init
    <2> QED
      BY <2>1, <2>2, <2>3, <2>5, <2>6, <2>7, <2>8, <2>9 DEF TypeOK
  <1>2. CompleteMeansRead /\ ResumeSkipsOnlyDropped /\ head >= InitialEvents
    BY DEF Init, CompleteMeansRead, ResumeSkipsOnlyDropped, Old
  <1>3. ASSUME NEW p \in Runs
        PROVE  IngestedAbove(p) /\ PagesMeet(p) /\ OffsetCovered(p)
    BY DEF Init, IngestedAbove, PagesMeet, OffsetCovered
  <1> QED
    BY <1>1, <1>2, <1>3 DEF IInv

(* What a run does.                                                         *)
Act(p) ==
    \/ Step(p) \/ Fail(p) \/ Crash(p)
    \/ \E i \in Slots : LosePage(p, i) \/ FetchElsewhere(p, i)

(* A step of p leaves the other runs' variables alone, and what there is    *)
(* and what is handled only grows.                                          *)
LEMMA OnlyOwn ==
    ASSUME IInv, NEW p \in Runs, Act(p)
    PROVE  /\ head' = head /\ Handled \subseteq Handled'
           /\ \A q \in Runs \ {p} :
                /\ pc'[q] = pc[q] /\ offset'[q] = offset[q] /\ size'[q] = size[q]
                /\ got'[q] = got[q] /\ top'[q] = top[q] /\ slot'[q] = slot[q]
                /\ done'[q] = done[q]
  <1> USE DEF IInv, TypeOK, work, Go, Handled, record
  <1>1. CASE Start(p) \/ SetRunning(p)
    BY <1>1 DEF Start, SetRunning
  <1>2. CASE Pause(p) \/ Exhaust(p) \/ Fail(p) \/ Crash(p)
    BY <1>2 DEF Pause, Exhaust, Fail, Crash, Stop, Window, TurnTo
  <1>3. CASE OpenWindow(p)
    BY <1>3 DEF OpenWindow, Window, TurnTo
  <1>4. CASE \E i \in Slots : FetchPage(p, i) \/ FetchElsewhere(p, i)
    BY <1>4 DEF FetchPage, FetchElsewhere, Answered
  <1>5. CASE \E i \in Slots : LosePage(p, i)
    BY <1>5 DEF LosePage
  <1>6. CASE JoinTransactions(p)
    BY <1>6 DEF JoinTransactions
  <1>7. CASE IngestEvent(p)
    BY <1>7 DEF IngestEvent
  <1>8. CASE Advance(p)
    <2>1. CASE Stop(p)
      BY <1>8, <2>1 DEF Advance, Stop, Window, TurnTo
    <2>2. CASE pc' = [pc EXCEPT ![p] = "window"] /\ Window(p, 0)
                /\ offset' = [offset EXCEPT ![p] = @ + PageSize]
      BY <1>8, <2>2 DEF Advance, Window, TurnTo
    <2>3. CASE TurnTo(p, slot[p] + 1) /\ UNCHANGED <<pc, size, got, top>>
                /\ offset' = [offset EXCEPT ![p] = @ + PageSize]
      BY <1>8, <2>3 DEF Advance, TurnTo
    <2> QED
      BY <1>8, <2>1, <2>2, <2>3 DEF Advance
  <1> QED
    BY <1>1, <1>2, <1>3, <1>4, <1>5, <1>6, <1>7, <1>8 DEF Act, Step

(* A page of a list that was behind is never forgotten.                     *)
LEMMA OnlyForward ==
    ASSUME NEW p \in Runs, Act(p), ~skewed'
    PROVE  ~skewed
  BY DEF Act, Step, Start, SetRunning, Pause, OpenWindow, FetchPage, FetchElsewhere, LosePage,
         JoinTransactions, IngestEvent, Advance, Exhaust, Fail, Crash

(* So such a step keeps the invariant if it keeps p's part and the          *)
(* checkpoint's.                                                            *)
LEMMA StepOf ==
    ASSUME IInv, TypeOK', NEW p \in Runs,
           Act(p), ~skewed',
           IngestedAbove(p)', PagesMeet(p)', OffsetCovered(p)',
           CompleteMeansRead', ResumeSkipsOnlyDropped'
    PROVE  IInv'
  <1>1. ASSUME NEW q \in Runs, q # p
        PROVE  IngestedAbove(q)' /\ PagesMeet(q)' /\ OffsetCovered(q)'
    <2>1. /\ head' = head /\ Handled \subseteq Handled' /\ head \in Nat
          /\ pc'[q] = pc[q] /\ offset'[q] = offset[q] /\ size'[q] = size[q]
          /\ got'[q] = got[q] /\ top'[q] = top[q] /\ slot'[q] = slot[q]
          /\ done'[q] = done[q]
      BY <1>1, OnlyOwn DEF IInv, TypeOK
    <2>2. head <= head'
      BY <2>1
    <2> QED
      BY <2>1, <2>2, Bystander
  <1>2. (head >= InitialEvents)'
    BY OnlyOwn DEF IInv
  <1> QED
    BY <1>1, <1>2 DEF IInv

(* The page being handled is one of the window's, and it was fetched.      *)
LEMMA AtHand ==
    ASSUME IInv, NEW p \in Runs, Processing(p)
    PROVE  pc[p] = "work" /\ slot[p] \in 1..size[p] /\ got[p][slot[p]] = "page"
  BY DEF IInv, TypeOK, Slots, Processing, PagesMeet

(* When the page at hand is fully Handled, so is everything above its      *)
(* bottom.                                                                  *)
LEMMA PageDone ==
    ASSUME IInv, NEW p \in Runs, Processing(p), done[p] = PageLength(p)
    PROVE  /\ \A e \in Old : e > Bottom(p) => e \in Handled
           /\ Newest(p) <= Below(head, offset[p])
  <1>1. slot[p] \in 1..size[p] /\ got[p][slot[p]] = "page"
    BY AtHand
  <1>2. /\ \A e \in Old : e > Newest(p) => e \in Handled
        /\ \A e \in Old : Bottom(p) < e /\ e <= Bottom(p) + done[p] => e \in Handled
        /\ Newest(p) <= Below(head, offset[p])
    BY <1>1 DEF IInv, IngestedAbove, Processing
  <1>3. Newest(p) \in Nat /\ Bottom(p) \in Nat /\ Bottom(p) + done[p] = Newest(p)
    BY PageBounds DEF IInv
  <1> QED
    BY <1>2, <1>3 DEF Old

(* An action that only stops a run, or that starts one without a window,    *)
(* has the checkpoint and the covered offset to account for.                *)
LEMMA Idle ==
    ASSUME IInv, TypeOK', NEW p \in Runs, Act(p), ~skewed',
           pc'[p] # "work", UNCHANGED <<head, record>>, OffsetCovered(p)',
           status' = "complete" => status = "complete" \/ Old \subseteq Handled,
           next_offset' = next_offset
    PROVE  IInv'
  <1>1. IngestedAbove(p)' /\ PagesMeet(p)' /\ UNCHANGED Handled
    BY DEF IngestedAbove, PagesMeet, record, Handled
  <1>2. ~skewed
    BY OnlyForward
  <1>3. CompleteMeansRead'
    BY <1>1, <1>2 DEF IInv, CompleteMeansRead
  <1>4. ResumeSkipsOnlyDropped'
    BY <1>1, <1>2 DEF IInv, ResumeSkipsOnlyDropped
  <1> QED
    BY <1>1, <1>3, <1>4, StepOf

LEMMA StartKeeps ==
    ASSUME IInv, TypeOK', NEW p \in Runs, Start(p), ~skewed'
    PROVE  IInv'
  <1> USE DEF IInv, TypeOK, Start, Go, checkpoint
  <1>1. /\ pc'[p] = "begin" /\ offset'[p] = next_offset /\ ~skewed
        /\ UNCHANGED <<head, record, status, next_offset>> /\ UNCHANGED Handled
    BY DEF record, Handled
  <1>2. OffsetCovered(p)'
    BY <1>1 DEF OffsetCovered, ResumeSkipsOnlyDropped
  <1>3. pc'[p] # "work" /\ Act(p)
    BY <1>1 DEF Step, Act
  <1> QED
    BY <1>1, <1>2, <1>3, Idle

LEMMA SetRunningKeeps ==
    ASSUME IInv, TypeOK', NEW p \in Runs, SetRunning(p), ~skewed'
    PROVE  IInv'
  <1> USE DEF IInv, TypeOK, SetRunning, Go, work
  <1>1. /\ pc'[p] = "window" /\ pc[p] = "begin"
        /\ UNCHANGED <<head, record, offset>> /\ UNCHANGED Handled
    BY DEF record, Handled
  <1>2. OffsetCovered(p)'
    BY <1>1 DEF OffsetCovered
  <1>3. pc'[p] # "work" /\ Act(p)
    BY <1>1 DEF Step, Act
  <1>4. status' # "complete" /\ next_offset' = next_offset
    OBVIOUS
  <1> QED
    BY <1>1, <1>2, <1>3, <1>4, Idle

LEMMA StopKeeps ==
    ASSUME IInv, TypeOK', NEW p \in Runs, Pause(p) \/ Fail(p) \/ Crash(p), ~skewed'
    PROVE  IInv'
  <1>1. pc'[p] = "off" /\ UNCHANGED <<head, record, next_offset>>
    BY DEF IInv, TypeOK, Pause, Fail, Crash, Stop, checkpoint
  <1>2. OffsetCovered(p)'
    BY <1>1 DEF OffsetCovered
  <1>3. status' = "complete" => status = "complete"
    BY DEF Pause, Fail, Crash, checkpoint
  <1>4. Act(p)
    BY DEF Step, Act
  <1>5. pc'[p] # "work"
    BY <1>1
  <1> QED
    BY <1>1, <1>2, <1>3, <1>4, <1>5, Idle

LEMMA ExhaustKeeps ==
    ASSUME IInv, TypeOK', NEW p \in Runs, Exhaust(p), ~skewed'
    PROVE  IInv'
  <1>1. pc'[p] = "off" /\ UNCHANGED <<head, record, next_offset>>
    BY DEF IInv, TypeOK, Exhaust, Stop
  <1>2. OffsetCovered(p)' /\ pc'[p] # "work" /\ Act(p)
    BY <1>1 DEF OffsetCovered, Step, Act
  <1>3. Old \subseteq Handled
    <2>1. Newest(p) = 0 /\ Processing(p) /\ pc[p] = "work"
      BY DEF Exhaust, Processing
    <2>2. slot[p] \in 1..size[p] /\ got[p][slot[p]] = "page"
      BY <2>1, AtHand
    <2> QED
      BY <2>1, <2>2 DEF IInv, IngestedAbove, Old
  <1> QED
    BY <1>1, <1>2, <1>3, Idle

(* The checkpoint is left alone by the actions inside a window.             *)
LEMMA SameCheckpoint ==
    ASSUME IInv, UNCHANGED <<head, checkpoint, skewed>>, Handled \subseteq Handled'
    PROVE  CompleteMeansRead' /\ ResumeSkipsOnlyDropped'
  BY DEF IInv, CompleteMeansRead, ResumeSkipsOnlyDropped, checkpoint

LEMMA OpenWindowKeeps ==
    ASSUME IInv, TypeOK', NEW p \in Runs, OpenWindow(p), ~skewed'
    PROVE  IInv'
  <1>1. /\ pc'[p] = "work" /\ pc[p] = "window" /\ slot'[p] = 1 /\ done'[p] = 0
        /\ got'[p] = [i \in Slots |-> "none"]
        /\ size'[p] \in 1..Prefetch
        /\ UNCHANGED <<head, checkpoint, skewed, offset>> /\ UNCHANGED Handled
    BY DEF IInv, TypeOK, OpenWindow, Window, TurnTo, Go, record, Handled
  <1>2. \A i \in 1..size'[p] : got'[p][i] = "none"
    BY <1>1 DEF Slots
  <1>3. got'[p][1] = "none"
    BY <1>1, <1>2
  <1>4. IngestedAbove(p)'
    BY <1>1, <1>3 DEF IngestedAbove
  <1>5. PagesMeet(p)'
    <2>1. slot'[p] <= size'[p]
      BY <1>1
    <2>2. \A i \in slot'[p]..size'[p] : got'[p][i] # "page"
      BY <1>1, <1>2
    <2>3. \A i \in slot'[p] + 1..size'[p] : got'[p][i] # "page"
      BY <1>1, <1>2
    <2> QED
      BY <1>1, <1>2, <1>3, <2>1, <2>2, <2>3 DEF PagesMeet
  <1>6. OffsetCovered(p)'
    BY <1>1 DEF IInv, OffsetCovered
  <1>7. Act(p) /\ Handled \subseteq Handled'
    BY <1>1 DEF Step, Act
  <1> QED
    BY <1>1, <1>4, <1>5, <1>6, <1>7, SameCheckpoint, StepOf

LEMMA LosePageKeeps ==
    ASSUME IInv, TypeOK', NEW p \in Runs, NEW i \in Slots, LosePage(p, i), InOrder, ~skewed'
    PROVE  IInv'
  <1>1. /\ pc[p] = "work" /\ i \in 1..size[p] /\ got[p][i] = "none" /\ i > 1
        /\ got'[p] = [got[p] EXCEPT ![i] = "failed"]
        /\ UNCHANGED <<head, checkpoint, skewed, pc, offset, pages, size, top, slot, done>>
        /\ UNCHANGED Handled
    BY DEF IInv, TypeOK, LosePage, Requestable, record, Handled
  <1>2. got'[p][i] = "failed" /\ \A j \in Slots \ {i} : got'[p][j] = got[p][j]
    BY <1>1 DEF IInv, TypeOK
  <1>3. slot[p] = 1 /\ done[p] = 0 /\ size[p] \in 0..Prefetch /\ slot[p] <= size[p]
    BY <1>1 DEF IInv, TypeOK, PagesMeet
  <1>4. IngestedAbove(p)'
    <2>1. got'[p][slot'[p]] = got[p][slot[p]]
      BY <1>1, <1>2, <1>3 DEF Slots
    <2> QED
      BY <1>1, <2>1 DEF IInv, IngestedAbove, Newest, Bottom, PageLength, Below
  <1>5. PagesMeet(p)'
    <2>1. \A j \in Slots : got'[p][j] = "page" => got[p][j] = "page"
      BY <1>1, <1>2
    <2>2. \A j \in Slots : got[p][j] # "none" => got'[p][j] # "none"
      BY <1>1, <1>2
    <2>3. got'[p][1] # "failed"
      BY <1>1, <1>2, <1>3 DEF IInv, PagesMeet, Slots
    <2>4. \A j \in 1..size[p] : j \in Slots
      BY <1>3 DEF Slots
    <2>5. \A j \in 1..size[p] : \A k \in 1..j : got'[p][j] = "page" => got'[p][k] # "none"
      <3> SUFFICES ASSUME NEW j \in 1..size[p], NEW k \in 1..j, got'[p][j] = "page"
                   PROVE  got'[p][k] # "none"
        OBVIOUS
      <3>1. j \in Slots /\ k \in Slots
        BY <2>4, <1>3
      <3>2. got[p][k] # "none"
        BY <1>1, <2>1, <3>1 DEF IInv, PagesMeet
      <3> QED
        BY <2>2, <3>1, <3>2
    <2>6. \A j \in 1..size[p] : got'[p][j] = "page" =>
             top[p][j] <= Below(head, offset[p] + (j - slot[p]) * PageSize)
      BY <1>1, <1>3, <2>1, <2>4 DEF IInv, PagesMeet
    <2>7. \A j \in 2..size[p] : got'[p][j] = "page" /\ got'[p][j - 1] = "page"
             => top[p][j] >= Below(top[p][j - 1], PageSize)
      <3> SUFFICES ASSUME NEW j \in 2..size[p], got'[p][j] = "page", got'[p][j - 1] = "page"
                   PROVE  top[p][j] >= Below(top[p][j - 1], PageSize)
        OBVIOUS
      <3>1. j \in Slots /\ j - 1 \in Slots
        BY <1>3 DEF Slots
      <3>2. got[p][j] = "page" /\ got[p][j - 1] = "page"
        BY <2>1, <3>1
      <3>3. j \in slot[p] + 1..size[p]
        BY <1>3
      <3> QED
        BY <1>1, <3>2, <3>3 DEF IInv, PagesMeet
    <2> QED
      BY <1>1, <1>3, <2>3, <2>5, <2>6, <2>7 DEF PagesMeet, Below
  <1>6. OffsetCovered(p)'
    BY <1>1 DEF IInv, OffsetCovered
  <1>7. Act(p)
    BY DEF Act
  <1>8. Handled \subseteq Handled' /\ UNCHANGED <<head, checkpoint, skewed>>
    BY <1>1
  <1> QED
    BY <1>4, <1>5, <1>6, <1>7, <1>8, SameCheckpoint, StepOf

LEMMA NextMultiple ==
    ASSUME NEW n \in Nat, NEW m \in Nat
    PROVE  (n + 1) * m = n * m + m
  OBVIOUS

LEMMA FetchPageKeeps ==
    ASSUME IInv, TypeOK', NEW p \in Runs, NEW i \in Slots, Act(p), Requestable(p, i),
           Answered(p, i, 0), InOrder, ~skewed'
    PROVE  IInv'
  <1> DEFINE new == Below(head, offset[p] + (i - 1) * PageSize)
  <1>1. /\ pc[p] = "work" /\ i \in 1..size[p] /\ got[p][i] = "none"
        /\ got'[p] = [got[p] EXCEPT ![i] = "page"]
        /\ top'[p] = [top[p] EXCEPT ![i] = new]
        /\ UNCHANGED <<head, checkpoint, pc, offset, pages, size, slot, done>>
        /\ UNCHANGED Handled
    <2>1. offset[p] + (i - 1) * PageSize + 0 = offset[p] + (i - 1) * PageSize
      <3>1. offset[p] \in Nat /\ i - 1 \in Nat
        BY DEF IInv, TypeOK, Slots
      <3>2. (i - 1) * PageSize \in Nat
        BY <3>1, Product
      <3> QED
        BY <3>1, <3>2
    <2> QED
      BY <2>1 DEF IInv, TypeOK, Answered, Requestable, record, Handled
  <1>2. /\ got'[p][i] = "page" /\ top'[p][i] = new
        /\ \A j \in Slots \ {i} : got'[p][j] = got[p][j] /\ top'[p][j] = top[p][j]
    BY <1>1 DEF IInv, TypeOK
  <1> HIDE DEF new
  <1>3. slot[p] = 1 /\ done[p] = 0 /\ size[p] \in 0..Prefetch /\ slot[p] <= size[p]
    BY <1>1 DEF IInv, TypeOK, PagesMeet
  <1>4. \A j \in 1..i - 1 : got[p][j] # "none"
    BY InOrderRequests DEF IInv
  <1>5. head \in Nat /\ offset[p] \in Nat /\ i \in Nat /\ i - 1 \in Nat
        /\ \A j \in Slots : top[p][j] \in Nat
    BY SMTT(30) DEF IInv, TypeOK, Slots
  <1>6. \A j \in 1..size[p] : j \in Slots
    BY <1>3 DEF Slots
  <1>7. IngestedAbove(p)'
    <2>1. CASE i = 1
      <3>1. new = Below(head, offset[p])
        <4>1. (i - 1) * PageSize = 0
          BY <2>1
        <4> QED
          BY <4>1, <1>5 DEF new
      <3>2. Newest(p)' = new /\ new \in Nat
        <4>1. Newest(p)' = new
          BY <1>1, <1>2, <1>3, <2>1 DEF Newest
        <4>2. new \in Nat
          BY <1>5, <3>1, BelowType
        <4> QED
          BY <4>1, <4>2
      <3>3. \A e \in Old : e > new => e \in Handled
        BY <1>1, <1>5, <3>1 DEF IInv, OffsetCovered, Below, Old
      <3>4. Bottom(p)' \in Nat /\ PageLength(p)' \in Nat
        BY PageBounds, <3>2 DEF Bottom, PageLength, Below
      <3> QED
        BY <1>1, <1>3, <3>1, <3>2, <3>3, <3>4 DEF IngestedAbove, Old, Below
    <2>2. CASE i # 1
      <3>1. 1 \in Slots \ {i}
        BY <2>2 DEF Slots
      <3>2. got'[p][slot'[p]] = got[p][slot[p]] /\ top'[p][slot'[p]] = top[p][slot[p]]
        BY <1>1, <1>2, <1>3, <3>1
      <3> QED
        BY <1>1, <3>2 DEF IInv, IngestedAbove, Newest, Bottom, PageLength, Below
    <2> QED
      BY <2>1, <2>2
  <1>8. PagesMeet(p)'
    <2>1. got'[p][1] # "failed"
      BY <1>1, <1>2, <1>3, <1>6 DEF IInv, PagesMeet
    <2>2. ASSUME NEW j \in 1..size[p], NEW k \in 1..j, got'[p][j] = "page"
          PROVE  got'[p][k] # "none"
      <3>1. j \in Slots /\ k \in Slots
        BY <1>6, <1>3
      <3>2. CASE j = i
        BY <1>2, <1>4, <3>1, <3>2
      <3>3. CASE j # i
        <4>1. got[p][j] = "page"
          BY <1>2, <2>2, <3>1, <3>3
        <4>2. got[p][k] # "none"
          BY <1>1, <4>1 DEF IInv, PagesMeet
        <4> QED
          BY <1>2, <3>1, <4>2
      <3> QED
        BY <3>2, <3>3
    <2>3. ASSUME NEW j \in 1..size[p], got'[p][j] = "page"
          PROVE  top'[p][j] <= Below(head, offset[p] + (j - 1) * PageSize)
      <3>1. CASE j = i
        <4>1. (i - 1) * PageSize \in Nat
          BY <1>5, Product
        <4>2. new \in Nat
          <5>1. offset[p] + (i - 1) * PageSize \in Nat
            BY <1>5, <4>1
          <5> QED
            BY <1>5, <5>1, BelowType DEF new
        <4>3. top'[p][j] = Below(head, offset[p] + (j - 1) * PageSize)
          BY <1>2, <3>1 DEF new
        <4> QED
          BY <1>2, <3>1, <4>2, <4>3
      <3>2. CASE j # i
        BY <1>1, <1>2, <1>3, <1>6, <2>3, <3>2 DEF IInv, PagesMeet
      <3> QED
        BY <3>1, <3>2
    <2>4. ASSUME NEW j \in 2..size[p], got'[p][j] = "page", got'[p][j - 1] = "page"
          PROVE  top'[p][j] >= Below(top'[p][j - 1], PageSize)
      <3>1. j \in Slots /\ j - 1 \in Slots /\ j \in 1..size[p] /\ j - 1 \in 1..j
        BY <1>3 DEF Slots
      <3>2. CASE j = i
        <4> DEFINE x == offset[p] + (j - 2) * PageSize
        <4>1. j - 2 \in Nat /\ (j - 2) + 1 = j - 1
          OBVIOUS
        <4>2. (j - 2) * PageSize \in Nat
          BY <4>1, Product
        <4>3. (j - 1) * PageSize = (j - 2) * PageSize + PageSize
          BY <4>1, NextMultiple
        <4>4. x \in Nat /\ new = Below(head, x + PageSize)
          BY <1>5, <3>2, <4>2, <4>3 DEF new
        <4>5. top[p][j - 1] <= Below(head, x)
          <5>1. got[p][j - 1] = "page" /\ j - 1 \in 1..size[p] /\ (j - 1) - 1 = j - 2
            <6>1. j - 1 # i /\ j - 1 \in 1..size[p] /\ (j - 1) - 1 = j - 2
              BY <3>2, <1>3
            <6> QED
              BY <1>2, <2>4, <3>1, <6>1
          <5>2. j - 1 \in slot[p]..size[p]
            BY <1>3, <5>1
          <5> QED
            BY <1>1, <1>3, <5>1, <5>2 DEF IInv, PagesMeet
        <4>6. top'[p][j - 1] = top[p][j - 1] /\ top[p][j - 1] \in Nat
          BY <1>2, <1>5, <3>1, <3>2
        <4> HIDE DEF x
        <4>7. Below(head, x) \in Nat /\ Below(Below(head, x), PageSize) = Below(head, x + PageSize)
          <5>1. head \in Nat /\ x \in Nat /\ PageSize \in Nat
            BY <1>5, <4>4
          <5>2. Below(head, x) \in Nat
            BY <5>1, BelowType
          <5>3. Below(Below(head, x), PageSize) = Below(head, x + PageSize)
            BY <5>1, BelowTwice
          <5> QED
            BY <5>2, <5>3
        <4>8. Below(top[p][j - 1], PageSize) <= Below(Below(head, x), PageSize)
          BY <4>5, <4>7, <4>6, Shift
        <4>9. Below(top[p][j - 1], PageSize) \in Nat /\ new \in Nat
          BY <4>4, <4>7, <4>6, <1>5, BelowType
        <4> QED
          BY <1>2, <3>2, <4>4, <4>7, <4>6, <4>8, <4>9
      <3>3. CASE j - 1 = i
        <4>1. got[p][j] = "page"
          BY <1>2, <2>4, <3>1, <3>3
        <4>2. got[p][j - 1] # "none"
          BY <1>1, <3>1, <4>1 DEF IInv, PagesMeet
        <4> QED
          BY <1>1, <3>3, <4>2
      <3>4. CASE j # i /\ j - 1 # i
        <4>1. got[p][j] = "page" /\ got[p][j - 1] = "page"
          BY <1>2, <2>4, <3>1, <3>4
        <4>2. j \in slot[p] + 1..size[p]
          BY <1>3
        <4>3. top[p][j] >= Below(top[p][j - 1], PageSize)
          BY <1>1, <4>1, <4>2 DEF IInv, PagesMeet
        <4> QED
          BY <1>2, <3>1, <3>4, <4>3
      <3> QED
        BY <3>2, <3>3, <3>4
    <2> QED
      BY <1>1, <1>3, <2>1, <2>2, <2>3, <2>4 DEF PagesMeet, Below
  <1>9. OffsetCovered(p)'
    BY <1>1 DEF IInv, OffsetCovered
  <1>10. CompleteMeansRead' /\ ResumeSkipsOnlyDropped'
    BY <1>1, OnlyForward DEF IInv, CompleteMeansRead, ResumeSkipsOnlyDropped, checkpoint
  <1> QED
    BY <1>7, <1>8, <1>9, <1>10, StepOf

(* Putting a page together moves nothing that has been handled.             *)
LEMMA JoinKeeps ==
    ASSUME IInv, TypeOK', NEW p \in Runs, JoinTransactions(p), ~skewed'
    PROVE  IInv'
  <1>1. /\ UNCHANGED <<head, record, checkpoint, pc, offset, size, got, top, slot, done, skewed>>
        /\ UNCHANGED Handled
    BY DEF JoinTransactions, record, Handled
  <1>2. UNCHANGED <<IngestedAbove(p), PagesMeet(p), OffsetCovered(p)>>
    BY <1>1 DEF IngestedAbove, PagesMeet, OffsetCovered, Newest, Bottom, PageLength, Below
  <1>3. IngestedAbove(p)' /\ PagesMeet(p)' /\ OffsetCovered(p)' /\ Act(p)
    BY <1>2 DEF IInv, Act, Step
  <1> QED
    BY <1>1, <1>3, SameCheckpoint, StepOf

LEMMA IngestEventKeeps ==
    ASSUME IInv, TypeOK', NEW p \in Runs, IngestEvent(p), ~skewed'
    PROVE  IInv'
  <1>1. /\ Handled' = Handled \cup {Bottom(p) + done[p] + 1}
        /\ done'[p] = done[p] + 1 /\ done[p] < PageLength(p) /\ Processing(p)
        /\ UNCHANGED <<head, checkpoint, skewed, pc, offset, pages, size, got, top, slot>>
    BY DEF IInv, TypeOK, IngestEvent, Handled
  <1>2. /\ Newest(p)' = Newest(p) /\ Bottom(p)' = Bottom(p)
        /\ PageLength(p)' = PageLength(p)
    BY <1>1 DEF Newest, Bottom, PageLength, Below
  <1>3. /\ Newest(p) \in Nat /\ Bottom(p) \in Nat /\ PageLength(p) \in 0..PageSize
        /\ done[p] \in Nat
    <2>1. TypeOK
      BY DEF IInv
    <2>2. done[p] \in Nat
      BY <2>1 DEF TypeOK
    <2> QED
      BY <2>1, <2>2, PageBounds
  <1>4. pc[p] = "work" /\ slot[p] \in 1..size[p] /\ got[p][slot[p]] = "page"
    BY <1>1, AtHand
  <1>5. IngestedAbove(p)'
    BY <1>1, <1>2, <1>3, <1>4 DEF IInv, IngestedAbove, Old, Below
  <1>6. PagesMeet(p)'
    <2>1. \A j \in 1..size[p] : got[p][j] # "none"
      BY <1>1 DEF Processing
    <2> QED
      BY <1>1, <1>4, <2>1 DEF IInv, PagesMeet, Below
  <1>7. OffsetCovered(p)'
    BY <1>1 DEF IInv, OffsetCovered
  <1>8. Act(p) /\ Handled \subseteq Handled' /\ UNCHANGED <<head, checkpoint, skewed>>
    BY <1>1 DEF Step, Act
  <1> QED
    BY <1>5, <1>6, <1>7, <1>8, SameCheckpoint, StepOf

LEMMA AdvanceKeeps ==
    ASSUME IInv, TypeOK', NEW p \in Runs, Advance(p), ~skewed'
    PROVE  IInv'
  <1>1. /\ Processing(p) /\ done[p] = PageLength(p) /\ PageLength(p) > 0
        /\ next_offset' = offset[p] + PageLength(p)
        /\ UNCHANGED head /\ UNCHANGED Handled
    BY DEF IInv, TypeOK, Advance, record, Handled
  <1>2. TypeOK /\ head \in Nat /\ offset[p] \in Nat /\ size[p] \in 0..Prefetch
    BY DEF IInv, TypeOK
  <1>3. pc[p] = "work" /\ slot[p] \in 1..size[p] /\ got[p][slot[p]] = "page"
    BY <1>1, AtHand
  <1>4. /\ \A e \in Old : e > Bottom(p) => e \in Handled
        /\ Newest(p) <= Below(head, offset[p])
    BY <1>1, PageDone
  <1>5. /\ Newest(p) \in Nat /\ Bottom(p) \in Nat /\ PageLength(p) \in 0..PageSize
        /\ Bottom(p) + PageLength(p) = Newest(p)
    BY <1>2, PageBounds
  <1>6. Bottom(p) <= head - (offset[p] + PageLength(p))
    BY <1>1, <1>2, <1>4, <1>5 DEF Below
  <1>7. \A e \in Old : e > head - (offset[p] + PageLength(p)) => e \in Handled
    BY <1>1, <1>2, <1>4, <1>5, <1>6 DEF Old
  <1>8. ResumeSkipsOnlyDropped'
    BY <1>1, <1>7 DEF ResumeSkipsOnlyDropped
  <1>9. CASE PageLength(p) < PageSize /\ Stop(p)
    <2>1. Bottom(p) = 0
      BY <1>5, <1>9 DEF Bottom, PageLength, Below
    <2>2. CompleteMeansRead'
      BY <1>1, <1>4, <2>1 DEF CompleteMeansRead, Old
    <2>3. pc'[p] = "off"
      BY <1>2, <1>9 DEF Stop, TypeOK
    <2> QED
      BY <1>8, <2>2, <2>3, StepOf DEF IngestedAbove, PagesMeet, OffsetCovered, Act, Step
  <1>10. CASE PageLength(p) = PageSize /\ status' = "running"
                /\ offset' = [offset EXCEPT ![p] = @ + PageSize]
    <2>1. offset'[p] = offset[p] + PageLength(p) /\ OffsetCovered(p)' /\ CompleteMeansRead'
      BY <1>1, <1>2, <1>7, <1>10 DEF TypeOK, OffsetCovered, CompleteMeansRead
    <2>2. CASE pc' = [pc EXCEPT ![p] = "window"]
      <3>1. IngestedAbove(p)' /\ PagesMeet(p)'
        BY <1>2, <2>2 DEF TypeOK, IngestedAbove, PagesMeet
      <3> QED
        BY <1>8, <2>1, <3>1, StepOf DEF Act, Step
    <2>3. CASE /\ slot[p] < size[p] /\ got[p][slot[p] + 1] = "page"
               /\ TurnTo(p, slot[p] + 1) /\ UNCHANGED <<pc, size, got, top>>
      <3>1. slot'[p] = slot[p] + 1 /\ done'[p] = 0 /\ pc'[p] = "work"
        BY <1>2, <1>3, <2>3 DEF TurnTo, TypeOK
      <3>2. slot[p] + 1 \in 1..size[p] /\ slot[p] + 1 \in Slots /\ slot[p] \in Nat
        BY <1>2, <1>3, <2>3 DEF Slots
      <3>3. top[p][slot[p] + 1] >= Bottom(p)
        <4>1. slot[p] + 1 \in slot[p] + 1..size[p] /\ (slot[p] + 1) - 1 = slot[p]
          BY <3>2
        <4> QED
          BY <1>3, <2>3, <4>1 DEF IInv, PagesMeet, Bottom, Newest
      <3>4. ASSUME NEW j \in slot[p] + 1..size[p], got[p][j] = "page"
            PROVE  top[p][j] <= Below(head, offset'[p] + (j - slot'[p]) * PageSize)
        <4>1. j - (slot[p] + 1) \in Nat /\ (j - (slot[p] + 1)) + 1 = j - slot[p]
              /\ j \in slot[p]..size[p]
          BY <3>2
        <4>2. (j - slot[p]) * PageSize = (j - (slot[p] + 1)) * PageSize + PageSize
          BY <4>1, NextMultiple
        <4>3. (j - (slot[p] + 1)) * PageSize \in Nat
          BY <4>1, Product
        <4>4. offset[p] + (j - slot[p]) * PageSize
                = offset'[p] + (j - slot'[p]) * PageSize
          BY <1>2, <1>10, <2>1, <3>1, <4>2, <4>3
        <4>5. top[p][j] <= Below(head, offset[p] + (j - slot[p]) * PageSize)
          BY <1>3, <3>4, <4>1 DEF IInv, PagesMeet
        <4> QED
          BY <4>4, <4>5
      <3>5. Newest(p)' = top[p][slot[p] + 1] /\ Newest(p)' \in Nat
        BY <1>2, <2>3, <3>1, <3>2 DEF Newest, TypeOK
      <3>6. Newest(p)' <= Below(head, offset'[p])
        <4>1. slot[p] + 1 \in slot[p] + 1..size[p]
          BY <3>2
        <4>2. ((slot[p] + 1) - slot'[p]) * PageSize = 0
          BY <3>1, <3>2
        <4>3. top[p][slot[p] + 1]
                <= Below(head, offset'[p] + ((slot[p] + 1) - slot'[p]) * PageSize)
          BY <2>3, <3>4, <4>1
        <4>4. offset'[p] + 0 = offset'[p]
          BY <1>2, <1>5, <2>1
        <4> QED
          BY <3>5, <4>2, <4>3, <4>4
      <3>7. \A e \in Old : e > Newest(p)' => e \in Handled'
        BY <1>1, <1>4, <1>5, <3>3, <3>5 DEF Old
      <3>8. Bottom(p)' \in Nat /\ PageLength(p)' \in 0..PageSize
        BY <3>5 DEF Bottom, PageLength, Below
      <3>9. IngestedAbove(p)'
        BY <1>1, <3>1, <3>6, <3>7, <3>8 DEF IngestedAbove, Old, Below
      <3>10. PagesMeet(p)'
        <4>1. \A j \in 1..size[p] : got[p][j] # "none"
          BY <1>1 DEF Processing
        <4>2. \A j \in slot'[p] + 1..size[p] : j \in slot[p] + 1..size[p]
          BY <3>1, <3>2
        <4>3. \A j \in slot'[p] + 1..size[p] :
                 got[p][j] = "page" /\ got[p][j - 1] = "page"
                   => top[p][j] >= Below(top[p][j - 1], PageSize)
          BY <1>3, <4>2 DEF IInv, PagesMeet
        <4>4. \A j \in 1..size[p] : \A k \in 1..j : k \in 1..size[p]
          BY <1>2
        <4> QED
          BY <1>1, <1>3, <2>3, <3>1, <3>2, <3>4, <4>1, <4>3, <4>4 DEF PagesMeet, Below
      <3> QED
        BY <1>8, <2>1, <3>9, <3>10, StepOf DEF Act, Step
    <2> QED
      BY <1>10, <2>2, <2>3 DEF Advance
  <1> QED
    BY <1>5, <1>9, <1>10 DEF Advance

LEMMA ArriveKeeps ==
    ASSUME IInv, TypeOK', Arrive
    PROVE  IInv'
  <1>1. /\ head \in Nat /\ head' = head + 1 /\ UNCHANGED <<checkpoint, pc, work, skewed>>
        /\ UNCHANGED Handled
    BY DEF IInv, TypeOK, Arrive, record, Handled
  <1>2. ASSUME NEW q \in Runs
        PROVE  IngestedAbove(q)' /\ PagesMeet(q)' /\ OffsetCovered(q)'
    <2>1. head <= head' /\ Handled \subseteq Handled'
      BY <1>1
    <2> QED
      BY <1>1, <2>1, Bystander DEF work
  <1>3. CompleteMeansRead'
    BY <1>1 DEF IInv, CompleteMeansRead, checkpoint
  <1>4. ResumeSkipsOnlyDropped'
    BY <1>1 DEF IInv, TypeOK, ResumeSkipsOnlyDropped, checkpoint, Old
  <1>5. (head >= InitialEvents)'
    BY <1>1 DEF IInv
  <1> QED
    BY <1>2, <1>3, <1>4, <1>5 DEF IInv

LEMMA StepKeeps ==
    ASSUME InOrder, IInv, [Next]_vars, ~skewed'
    PROVE  IInv'
  <1>1. TypeOK'
    BY TypeStep DEF IInv
  <1>2. CASE UNCHANGED vars
    BY <1>2 DEF vars, checkpoint, record, work, IInv, TypeOK, CompleteMeansRead, Handled,
      ResumeSkipsOnlyDropped, IngestedAbove, PagesMeet, OffsetCovered, Newest, Bottom,
      PageLength, Below
  <1>3. CASE Arrive
    BY <1>1, <1>3, ArriveKeeps
  <1>4. ASSUME NEW p \in Runs, NEW i \in Slots, FetchPage(p, i)
        PROVE  IInv'
    BY <1>1, <1>4, FetchPageKeeps DEF FetchPage, Act, Step
  <1>5. ASSUME NEW p \in Runs, Step(p)
        PROVE  IInv'
    BY <1>1, <1>4, <1>5, StartKeeps, SetRunningKeeps, StopKeeps, OpenWindowKeeps,
      JoinKeeps, IngestEventKeeps, AdvanceKeeps, ExhaustKeeps DEF Step
  <1>6. ASSUME NEW p \in Runs, Fail(p) \/ Crash(p)
        PROVE  IInv'
    BY <1>1, <1>6, StopKeeps
  <1>7. ASSUME NEW p \in Runs, NEW i \in Slots, LosePage(p, i)
        PROVE  IInv'
    BY <1>1, <1>7, LosePageKeeps
  <1>8. ASSUME NEW p \in Runs, NEW i \in Slots, FetchElsewhere(p, i)
        PROVE  IInv'
    <2>1. Requestable(p, i) /\ Answered(p, i, 0) /\ Act(p)
      BY <1>8 DEF FetchElsewhere, Act
    <2> QED
      BY <1>1, <2>1, FetchPageKeeps
  <1> QED
    BY <1>2, <1>3, <1>5, <1>6, <1>7, <1>8 DEF Next

LEMMA BackfillStep ==
    ASSUME InOrder, BackfillInv, [Next]_vars
    PROVE  BackfillInv'
  <1>1. TypeOK'
    BY TypeStep DEF BackfillInv
  <1>2. ~skewed' => ~skewed
    BY OnlyForward DEF Next, Arrive, vars, Act
  <1> QED
    BY <1>1, <1>2, StepKeeps DEF BackfillInv

-----------------------------------------------------------------------------
(* The variables of every backfill, whatever runs, hold what                *)
(* backfillContract and its checkpoint row can hold.                        *)
THEOREM TypeCorrect == Spec => []TypeOK
  <1>1. Init => TypeOK
    BY InitHolds DEF IInv
  <1> QED
    BY <1>1, TypeStep, PTL DEF Spec

(* The inductive invariant holds of every backfill whose pages are          *)
(* requested in order: whatever is newer than the page at hand, and         *)
(* whatever lies before a run's offset, has been handled.                   *)
THEOREM Inductive == ASSUME InOrder PROVE Spec => []BackfillInv
  <1>1. Init => BackfillInv
    BY InitHolds DEF BackfillInv, IInv
  <1> QED
    BY <1>1, BackfillStep, PTL DEF Spec

(* A checkpoint marked complete has every event that existed when the       *)
(* backfill began, or read it and found no transaction, whatever failed,    *)
(* was re-run or arrived meanwhile.                                         *)
THEOREM CompleteIsExhaustive == ASSUME InOrder PROVE Spec => []CompleteMeansRead
  <1>1. BackfillInv => CompleteMeansRead
    BY DEF BackfillInv, IInv, CompleteMeansRead
  <1> QED
    BY <1>1, Inductive, PTL

(* Resuming from the checkpoint's next_offset, after a pause, a failure or  *)
(* a crash anywhere, leaves no other event behind.                          *)
THEOREM ResumingIsSafe == ASSUME InOrder PROVE Spec => []ResumeSkipsOnlyDropped
  <1>1. BackfillInv => ResumeSkipsOnlyDropped
    BY DEF BackfillInv, IInv, ResumeSkipsOnlyDropped
  <1> QED
    BY <1>1, Inductive, PTL

(* Nothing is passed over, and no page is of a list that is behind, when    *)
(* the contract has the process to itself and there is one provider.        *)
AloneInv ==
    /\ skewed = FALSE /\ dropped = {}
    /\ \A p \in Runs : absent[p] = {}

LEMMA AloneStep ==
    ASSUME ~Neighbours, Lags \subseteq {0}, TypeOK, AloneInv, [Next]_vars
    PROVE  AloneInv'
  <1> USE DEF AloneInv, TypeOK
  <1>1. CASE UNCHANGED vars \/ Arrive
    BY <1>1 DEF vars, Arrive, record, work
  <1>2. ASSUME NEW p \in Runs, Start(p) \/ SetRunning(p) PROVE AloneInv'
    BY <1>2 DEF Start, SetRunning, record, work
  <1>3. ASSUME NEW p \in Runs, Pause(p) \/ Exhaust(p) \/ Fail(p) \/ Crash(p) PROVE AloneInv'
    BY <1>3 DEF Pause, Exhaust, Fail, Crash, Stop, Window, TurnTo, record
  <1>4. ASSUME NEW p \in Runs, OpenWindow(p) PROVE AloneInv'
    BY <1>4 DEF OpenWindow, Window, TurnTo, record
  <1>5. ASSUME NEW p \in Runs, NEW i \in Slots,
               FetchPage(p, i) \/ FetchElsewhere(p, i) \/ LosePage(p, i)
        PROVE  AloneInv'
    BY <1>5 DEF FetchPage, FetchElsewhere, LosePage, Answered, record
  <1>6. ASSUME NEW p \in Runs, JoinTransactions(p) PROVE AloneInv'
    BY <1>6 DEF JoinTransactions, record
  <1>7. ASSUME NEW p \in Runs, IngestEvent(p) PROVE AloneInv'
    BY <1>7 DEF IngestEvent
  <1>8. ASSUME NEW p \in Runs, Advance(p) PROVE AloneInv'
    BY <1>8 DEF Advance, Stop, Window, TurnTo, record
  <1> QED
    BY <1>1, <1>2, <1>3, <1>4, <1>5, <1>6, <1>7, <1>8 DEF Next, Step

(* docs/production.md:36 is true of a backfill that requests its pages in   *)
(* order, from one provider, in a process that runs no other contract:      *)
(* complete means that every event of the beginning is in the store.        *)
THEOREM AloneCompleteMeansAll ==
    ASSUME InOrder, ~Neighbours, Lags \subseteq {0}
    PROVE  Spec => []CompleteMeansAll
  <1>1. Init => AloneInv
    BY DEF Init, AloneInv
  <1>2. CompleteMeansRead /\ AloneInv => CompleteMeansAll
    BY DEF CompleteMeansRead, AloneInv, CompleteMeansAll, Handled
  <1> QED
    BY <1>1, <1>2, AloneStep, TypeCorrect, CompleteIsExhaustive, PTL DEF Spec
===========================================================================
