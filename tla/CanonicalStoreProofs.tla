------------------------ MODULE CanonicalStoreProofs ------------------------
(* Proofs about CanonicalStore, for any chain, deliveries and connections.  *)
EXTENDS CanonicalStore, TLAPS

USE DEF Tables, Flags, Phases

(* The block a statement of applyBlock works on is a block.                 *)
LEMMA AppliedInBlocks ==
    ASSUME NEW p \in Procs, TypeOK, WorkInRange(p), phase[p] \in {"upsert", "derive"}
    PROVE  Applied(p) \in Blocks
  <1> USE ConstantsAssumption DEF TypeOK, WorkInRange
  <1>1. job[p] \in Deliveries /\ item[p] \in Nat /\ ~Finished(p) /\ ~IsRollback(p)
    OBVIOUS
  <1>2. Rollback[job[p]] \in Seq(Blocks) /\ Apply[job[p]] \in Seq(Blocks)
    BY <1>1
  <1>3. item[p] - Len(Rollback[job[p]]) \in 1..Len(Apply[job[p]])
    BY <1>1, <1>2 DEF Finished, IsRollback, Rollbacks, Applies
  <1> QED
    BY <1>2, <1>3 DEF Applied, Rollbacks, Applies

(* A row's view is the row's flag: its transaction's own write, or what is  *)
(* committed.                                                               *)
LEMMA ViewType ==
    ASSUME NEW p \in Procs, NEW t \in Tables, NEW b \in Blocks, TypeOK
    PROVE  View(p, t, b) \in Flags
  BY DEF View, TypeOK

(* Ending a transaction keeps the transaction variables well typed.         *)
LEMMA ReleaseType ==
    ASSUME NEW p \in Procs, TypeOK, Release(p)
    PROVE  /\ mine' \in [Procs -> [Tables -> [Blocks -> Flags \cup {Untouched}]]]
           /\ shared' \in [Procs -> Blocks \cup {NoBlock}]
           /\ phase' \in [Procs -> Phases]
           /\ job' \in [Procs -> Deliveries \cup {NoDelivery}]
           /\ item' \in [Procs -> Nat]
           /\ victims' \in [Procs -> SUBSET Blocks]
           /\ target' \in [Procs -> Blocks \cup {NoBlock}]
  <1>1. Clean \in [Tables -> [Blocks -> Flags \cup {Untouched}]]
    BY DEF Clean
  <1> QED
    BY <1>1 DEF TypeOK, Release

LEMMA MergeType ==
    ASSUME NEW p \in Procs, TypeOK, Merge(p)
    PROVE  db' \in [Tables -> [Blocks -> Flags]]
  BY ViewType DEF Merge

(* A statement that writes a row keeps the written rows well typed.         *)
LEMMA WriteType ==
    ASSUME NEW p \in Procs, NEW t \in Tables, NEW b, NEW flag \in Flags,
           TypeOK, Write(p, t, b, flag)
    PROVE  mine' \in [Procs -> [Tables -> [Blocks -> Flags \cup {Untouched}]]]
  BY ZenonT(40) DEF TypeOK, Write

LEMMA UpdateType ==
    ASSUME NEW p \in Procs, NEW t \in Tables, NEW b,
           TypeOK, UpdateToOrphaned(p, t, b)
    PROVE  mine' \in [Procs -> [Tables -> [Blocks -> Flags \cup {Untouched}]]]
  <1>1. CASE Write(p, t, b, "orphaned")
    BY <1>1, WriteType
  <1>2. CASE UNCHANGED mine
    BY <1>2 DEF TypeOK
  <1> QED
    BY <1>1, <1>2 DEF UpdateToOrphaned

LEMMA TypeStep ==
    ASSUME TypeOK, \A p \in Procs : WorkInRange(p), [Next]_vars
    PROVE  TypeOK'
  <1> USE DEF tables, txs, env
  <1>1. ASSUME NEW p \in Ingesters, NEW d \in Deliveries, ClaimDelivery(p, d)
        PROVE  TypeOK'
    BY <1>1 DEF TypeOK, ClaimDelivery, Send, Go, Procs
  <1>2. ASSUME NEW p \in Ingesters, NEW d \in Deliveries,
               AcknowledgeDuplicate(p, d) \/ RejectReusedKey(p, d)
        PROVE  TypeOK'
    BY <1>2 DEF TypeOK, AcknowledgeDuplicate, RejectReusedKey, Send
  <1>3. ASSUME NEW p \in Ingesters, NextItem(p)
        PROVE  TypeOK'
    <2>1. job[p] \in Deliveries /\ item[p] \in Nat \ {0} /\ ~Finished(p)
      BY <1>3, SMTT(30) DEF NextItem, Go, TypeOK, WorkInRange, Procs
    <2>2. Rollback[job[p]] \in Seq(Blocks)
      BY <2>1, ConstantsAssumption
    <2>3. CASE IsRollback(p)
      <3>1. Rollbacks(p)[item[p]] \in Blocks
        BY <2>1, <2>2, <2>3 DEF IsRollback, Rollbacks
      <3>2. /\ phase' = [phase EXCEPT ![p] = "header"]
            /\ victims' = [victims EXCEPT ![p] = {Rollbacks(p)[item[p]]}]
        BY <1>3, <2>3 DEF NextItem, Go
      <3>3. UNCHANGED <<tables, mine, shared, job, item, target, env>>
        BY <1>3 DEF NextItem
      <3> QED
        BY <3>1, <3>2, <3>3 DEF TypeOK
    <2>4. CASE ~IsRollback(p)
      <3>1. PICK rivals \in SUBSET Blocks : victims' = [victims EXCEPT ![p] = rivals]
        BY <1>3, <2>4 DEF NextItem, SameHeight
      <3>2. phase' = [phase EXCEPT ![p] = "upsert"]
            \/ phase' = [phase EXCEPT ![p] = "header"]
        BY <1>3, <2>4 DEF NextItem, Go
      <3>3. UNCHANGED <<tables, mine, shared, job, item, target, env>>
        BY <1>3 DEF NextItem
      <3> QED
        BY <3>1, <3>2, <3>3 DEF TypeOK
    <2> QED
      BY <2>3, <2>4
  <1>4. ASSUME NEW p \in Ingesters, RollbackHeader(p)
        PROVE  TypeOK'
    <2>1. PICK b \in victims[p] : /\ UpdateToOrphaned(p, "blocks", b)
                                  /\ target' = [target EXCEPT ![p] = b]
                                  /\ victims' = [victims EXCEPT ![p] = @ \ {b}]
      BY <1>4 DEF RollbackHeader
    <2>2. mine' \in [Procs -> [Tables -> [Blocks -> Flags \cup {Untouched}]]]
      BY <2>1, UpdateType DEF Procs
    <2> QED
      BY <1>4, <2>1, <2>2 DEF RollbackHeader, Go, TypeOK, Procs
  <1>5. ASSUME NEW p \in Ingesters, RollbackRows(p)
        PROVE  TypeOK'
    <2>1. mine' \in [Procs -> [Tables -> [Blocks -> Flags \cup {Untouched}]]]
      BY <1>5, UpdateType DEF RollbackRows, Procs
    <2> QED
      BY <1>5, <2>1 DEF RollbackRows, Go, TypeOK, Procs
  <1>6. ASSUME NEW p \in Ingesters, RollbackSnapshots(p)
        PROVE  TypeOK'
    <2>1. mine' \in [Procs -> [Tables -> [Blocks -> Flags \cup {Untouched}]]]
      BY <1>6, UpdateType DEF RollbackSnapshots, Procs
    <2> QED
      BY <1>6, <2>1 DEF RollbackSnapshots, Go, TypeOK, Procs
  <1>7. ASSUME NEW p \in Ingesters, UpsertBlock(p) \/ DeriveRows(p)
        PROVE  TypeOK'
    <2>1. mine' \in [Procs -> [Tables -> [Blocks -> Flags \cup {Untouched}]]]
      BY <1>7, WriteType DEF UpsertBlock, DeriveRows, Procs
    <2>2. CASE UpsertBlock(p)
      BY <2>1, <2>2 DEF UpsertBlock, Go, TypeOK
    <2>3. CASE DeriveRows(p)
      <3>1. item' = [item EXCEPT ![p] = item[p] + 1]
            /\ phase' = [phase EXCEPT ![p] = "next"]
            /\ UNCHANGED <<tables, shared, job, victims, target, env>>
        BY <2>3 DEF DeriveRows, Go
      <3>2. item' \in [Procs -> Nat]
        BY <3>1 DEF TypeOK, Procs
      <3> QED
        BY <2>1, <3>1, <3>2 DEF TypeOK
    <2> QED
      BY <1>7, <2>2, <2>3
  <1>8. ASSUME NEW p \in Ingesters, CommitDelivery(p)
        PROVE  TypeOK'
    <2>1. job[p] \in Deliveries
      BY <1>8 DEF CommitDelivery, WorkInRange, Procs
    <2> QED
      BY <1>8, <2>1, MergeType, ReleaseType DEF CommitDelivery, TypeOK, Procs, Keys, Shas
  <1>9. ASSUME NEW s \in Savers, NEW b \in Blocks, LockSnapshotBlock(s, b)
        PROVE  TypeOK'
    BY <1>9 DEF LockSnapshotBlock, Go, TypeOK, Procs
  <1>10. ASSUME NEW s \in Savers, InsertSnapshot(s)
         PROVE  TypeOK'
    <2>1. mine' \in [Procs -> [Tables -> [Blocks -> Flags \cup {Untouched}]]]
      BY <1>10, WriteType DEF InsertSnapshot, TypeOK, Procs
    <2> QED
      BY <1>10, <2>1 DEF InsertSnapshot, Go, TypeOK, Procs
  <1>11. ASSUME NEW s \in Savers, CommitSnapshots(s)
         PROVE  TypeOK'
    BY <1>11, MergeType, ReleaseType DEF CommitSnapshots, TypeOK, Procs
  <1>12. ASSUME NEW p \in Procs, UniqueViolation(p) \/ DeadlockVictim(p)
         PROVE  TypeOK'
    BY <1>12, ReleaseType DEF UniqueViolation, DeadlockVictim, TypeOK
  <1>13. ASSUME NEW p \in Procs, Fault(p)
         PROVE  TypeOK'
    <2>1. faults' \in 0..MaxFaults
      BY <1>13, ConstantsAssumption DEF Fault, TypeOK
    <2> QED
      BY <1>13, <2>1, ReleaseType DEF Fault, TypeOK
  <1>14. CASE UNCHANGED vars
    BY <1>14 DEF vars, TypeOK
  <1> QED
    BY <1>1, <1>2, <1>3, <1>4, <1>5, <1>6, <1>7, <1>8, <1>9, <1>10, <1>11,
       <1>12, <1>13, <1>14 DEF Next, Statement, SaverStatement, Procs

-----------------------------------------------------------------------------
(* Steps within one transaction.                                            *)

USE ConstantsAssumption

(* A step of p's transaction that leaves the committed tables as they are.  *)
Alone(p) ==
    /\ UNCHANGED <<db, raw, acked>>
    /\ \A q \in Procs \ {p} :
         /\ mine'[q] = mine[q] /\ shared'[q] = shared[q] /\ phase'[q] = phase[q]
         /\ job'[q] = job[q] /\ item'[q] = item[q] /\ target'[q] = target[q]

(* p's step leaves another transaction as it was.                           *)
LEMMA OthersKeep ==
    ASSUME NEW p \in Procs, NEW q \in Procs \ {p}, IInv, Alone(p)
    PROVE  TransactionOK(q)'
  <1>1. TransactionOK(q) /\ TypeOK
    BY DEF IInv
  <1>2. /\ db' = db /\ raw' = raw /\ mine'[q] = mine[q] /\ shared'[q] = shared[q]
        /\ phase'[q] = phase[q] /\ job'[q] = job[q] /\ item'[q] = item[q]
        /\ target'[q] = target[q]
    BY DEF Alone
  <1>3. \A t \in Tables, b \in Blocks : View(q, t, b)' = View(q, t, b)
    BY <1>2 DEF View
  <1>4. /\ Applied(q)' = Applied(q) /\ Finished(q)' = Finished(q)
        /\ IsRollback(q)' = IsRollback(q)
    BY <1>2 DEF Applied, Finished, IsRollback, Applies, Rollbacks
  <1>5. WritesInside(q)' /\ SharedStays(q)'
    BY <1>1, <1>2 DEF TransactionOK, WritesInside, SharedStays
  <1>6. WrittenUnderLock(q)'
    BY <1>1, <1>2, <1>4 DEF TransactionOK, WrittenUnderLock
  <1>7. OrphanSettled(q)'
    BY <1>1, <1>2, <1>3 DEF TransactionOK, OrphanSettled
  <1>8. NoRival(q)'
    BY <1>1, <1>2, <1>3 DEF TransactionOK, NoRival, SameHeight
  <1>9. Claimed(q)' /\ WorkInRange(q)'
    BY <1>1, <1>2, <1>4 DEF TransactionOK, Claimed, WorkInRange
  <1> QED
    BY <1>5, <1>6, <1>7, <1>8, <1>9 DEF TransactionOK

(* So what is left to show of such a step concerns p alone.                 *)
LEMMA AloneKeeps ==
    ASSUME NEW p \in Procs, IInv, TypeOK', Alone(p), TransactionOK(p)',
           \A q \in Procs \ {p} : Apart(p, q)'
    PROVE  IInv'
  <1>1. TablesOK'
    BY DEF IInv, TablesOK, OneCanonicalPerHeight, SnapshotsCanonical, RowsCanonical,
           AcknowledgedIsRecorded, Committed, Alone
  <1>2. \A q \in Procs : TransactionOK(q)'
    BY OthersKeep
  <1>3. ASSUME NEW q \in Procs, NEW r \in Procs, q # r
        PROVE  Apart(q, r)'
    <2>1. CASE q = p
      BY <1>3, <2>1
    <2>2. CASE r = p
      BY <1>3, <2>2 DEF Apart, SameHeight
    <2>3. CASE q # p /\ r # p
      <3>1. Apart(q, r)
        BY <1>3 DEF IInv
      <3>2. /\ mine'[q] = mine[q] /\ shared'[q] = shared[q] /\ job'[q] = job[q]
            /\ mine'[r] = mine[r] /\ shared'[r] = shared[r] /\ job'[r] = job[r]
        BY <2>3 DEF Alone
      <3> QED
        BY <3>1, <3>2 DEF Apart, SameHeight
    <2> QED
      BY <2>1, <2>2, <2>3
  <1> QED
    BY <1>1, <1>2, <1>3 DEF IInv

(* A transaction that ends without a commit leaves no trace.                *)
LEMMA AbortKeeps ==
    ASSUME NEW p \in Procs, IInv, TypeOK', Release(p), UNCHANGED <<db, raw, acked>>
    PROVE  IInv'
  <1>1. /\ \A t \in Tables, b \in Blocks : mine'[p][t][b] = Untouched
        /\ shared'[p] = NoBlock /\ phase'[p] = "idle" /\ job'[p] = NoDelivery
    BY DEF Release, Clean, IInv, TypeOK
  <1>2. Alone(p)
    BY DEF Alone, Release, IInv, TypeOK
  <1>3. TransactionOK(p)'
    BY <1>1 DEF TransactionOK, WritesInside, SharedStays, WrittenUnderLock,
                OrphanSettled, NoRival, Claimed, WorkInRange
  <1>4. ASSUME NEW q \in Procs \ {p}
        PROVE  Apart(p, q)'
    <2>1. shared[q] # NoBlock => shared[q] \in Blocks /\ shared'[q] = shared[q]
      BY <1>2 DEF IInv, TypeOK, Alone
    <2> QED
      BY <1>1, <1>2, <2>1 DEF Apart, Alone
  <1> QED
    BY <1>2, <1>3, <1>4, AloneKeeps

(* A statement that marks at most one row as orphaned, once nobody else has *)
(* written it, comes into nobody's way.                                     *)
LEMMA UpdateApart ==
    ASSUME NEW p \in Procs, NEW t \in Tables, NEW b, IInv, Alone(p),
           UpdateToOrphaned(p, t, b), job'[p] = job[p], shared'[p] = shared[p],
           NEW q \in Procs \ {p}
    PROVE  Apart(p, q)'
  <1>1. Apart(p, q) /\ TypeOK
    BY DEF IInv
  <1>2. /\ mine'[q] = mine[q] /\ shared'[q] = shared[q] /\ job'[q] = job[q]
    BY DEF Alone
  <1>3. CASE UNCHANGED mine
    BY <1>1, <1>2, <1>3 DEF Apart, SameHeight
  <1>4. CASE RowHolders(p, t, b) = {} /\ Write(p, t, b, "orphaned")
    <2>1. \A u \in Tables, c \in Blocks :
            mine'[p][u][c] = IF u = t /\ c = b THEN "orphaned" ELSE mine[p][u][c]
      BY <1>1, <1>4 DEF Write, TypeOK
    <2>2. mine[q][t][b] = Untouched /\ (t = "blocks" => shared[q] # b)
      BY <1>4 DEF RowHolders, Writers, Sharers
    <2>3. shared[p] \in Blocks \cup {NoBlock} /\ shared[q] \in Blocks \cup {NoBlock}
      BY <1>1 DEF TypeOK
    <2>4. ASSUME NEW u \in Tables, NEW c \in Blocks
          PROVE  mine'[p][u][c] = Untouched \/ mine'[q][u][c] = Untouched
      <3>1. mine[p][u][c] = Untouched \/ mine[q][u][c] = Untouched
        BY <1>1 DEF Apart
      <3>2. CASE u = t /\ c = b
        BY <1>2, <2>2, <3>2
      <3>3. CASE ~(u = t /\ c = b)
        BY <1>2, <2>1, <3>1, <3>3
      <3> QED
        BY <3>2, <3>3
    <2>5. \A c \in Blocks : \A d \in SameHeight(c) :
            mine'[p]["blocks"][c] # "canonical" \/ mine'[q]["blocks"][d] # "canonical"
      BY <1>1, <1>2, <2>1 DEF Apart
    <2>6. shared'[q] # NoBlock => mine'[p]["blocks"][shared'[q]] = Untouched
      BY <1>1, <1>2, <2>1, <2>2, <2>3 DEF Apart
    <2>7. shared'[p] # NoBlock => mine'[q]["blocks"][shared'[p]] = Untouched
      BY <1>1, <1>2 DEF Apart
    <2>8. job'[p] # NoDelivery /\ job'[q] # NoDelivery => Key[job'[p]] # Key[job'[q]]
      BY <1>1, <1>2 DEF Apart
    <2> QED
      BY <2>4, <2>5, <2>6, <2>7, <2>8 DEF Apart, SameHeight
  <1> QED
    BY <1>3, <1>4 DEF UpdateToOrphaned

(* Statements set flags, they delete no row.                                *)
LEMMA WritesStayInside ==
    ASSUME NEW p \in Procs, WritesInside(p), phase'[p] # "idle",
           \A t \in Tables, b \in Blocks :
             mine'[p][t][b] \in {mine[p][t][b], "orphaned", "canonical"}
    PROVE  WritesInside(p)'
  <1> SUFFICES ASSUME NEW t \in Tables, NEW b \in Blocks
               PROVE  mine'[p][t][b] # "absent"
    BY DEF WritesInside
  <1>1. mine[p][t][b] # "absent"
    BY DEF WritesInside
  <1>2. mine'[p][t][b] \in {mine[p][t][b], "orphaned", "canonical"}
    OBVIOUS
  <1> QED
    BY <1>1, <1>2

LEMMA ClaimKeeps ==
    ASSUME NEW p \in Ingesters, NEW d \in Deliveries, IInv, TypeOK', ClaimDelivery(p, d)
    PROVE  IInv'
  <1> USE DEF Procs
  <1>1. TransactionOK(p) /\ TypeOK
    BY DEF IInv
  <1>2. /\ phase[p] = "idle" /\ phase'[p] = "next" /\ job'[p] = d /\ item'[p] = 1
        /\ raw[Key[d]] = NoSha
        /\ UNCHANGED <<db, raw, mine, shared, target, acked>>
    BY <1>1 DEF ClaimDelivery, Go, TypeOK, tables
  <1>3. Alone(p)
    BY <1>1 DEF Alone, ClaimDelivery, Go, TypeOK, tables
  <1>4. /\ shared[p] = NoBlock
        /\ \A t \in Tables, b \in Blocks : mine[p][t][b] = Untouched
    BY <1>1, <1>2 DEF TransactionOK, WritesInside, SharedStays
  <1>5. TransactionOK(p)'
    BY <1>2, <1>4 DEF TransactionOK, WritesInside, SharedStays, WrittenUnderLock,
                      OrphanSettled, NoRival, Claimed, WorkInRange
  <1>6. ASSUME NEW q \in Procs \ {p}
        PROVE  Apart(p, q)'
    <2>1. Apart(p, q)
      BY DEF IInv
    <2>2. job[q] # NoDelivery => q \in Ingesters
      BY DEF IInv, TransactionOK, Claimed
    <2>3. job'[q] = job[q] /\ (job[q] # NoDelivery => Key[job[q]] # Key[d])
      BY <1>3, <2>2 DEF ClaimDelivery, Alone
    <2> QED
      BY <1>2, <2>1, <2>3 DEF Apart, SameHeight
  <1> QED
    BY <1>3, <1>5, <1>6, AloneKeeps

LEMMA NextItemKeeps ==
    ASSUME NEW p \in Ingesters, IInv, TypeOK', NextItem(p)
    PROVE  IInv'
  <1> USE DEF Procs
  <1>1. TransactionOK(p) /\ TypeOK
    BY DEF IInv
  <1>2. /\ phase[p] = "next" /\ ~Finished(p)
        /\ IF IsRollback(p) THEN phase'[p] = "header" ELSE phase'[p] \in {"header", "upsert"}
        /\ UNCHANGED <<db, raw, mine, shared, job, item, target, acked>>
    BY <1>1 DEF NextItem, Go, TypeOK, tables, env
  <1>3. Alone(p)
    BY <1>1 DEF Alone, NextItem, Go, TypeOK, tables, env
  <1>4. Finished(p)' = Finished(p) /\ IsRollback(p)' = IsRollback(p)
    BY <1>2 DEF Finished, IsRollback, Rollbacks, Applies
  <1>5. WritesInside(p)' /\ SharedStays(p)' /\ WrittenUnderLock(p)'
    BY <1>1, <1>2 DEF TransactionOK, WritesInside, SharedStays, WrittenUnderLock
  <1>6. OrphanSettled(p)' /\ NoRival(p)'
    BY <1>1, <1>2 DEF TransactionOK, OrphanSettled, NoRival, View, SameHeight
  <1>7. Claimed(p)' /\ WorkInRange(p)'
    BY <1>1, <1>2, <1>4 DEF TransactionOK, Claimed, WorkInRange
  <1>8. ASSUME NEW q \in Procs \ {p}
        PROVE  Apart(p, q)'
    <2>1. Apart(p, q)
      BY DEF IInv
    <2> QED
      BY <1>2, <2>1 DEF Apart, SameHeight
  <1> QED
    BY <1>3, <1>5, <1>6, <1>7, <1>8, AloneKeeps DEF TransactionOK

LEMMA RollbackHeaderKeeps ==
    ASSUME NEW p \in Ingesters, IInv, TypeOK', RollbackHeader(p)
    PROVE  IInv'
  <1> USE DEF Procs
  <1>1. TransactionOK(p) /\ TypeOK
    BY DEF IInv
  <1>2. PICK b \in victims[p] : /\ UpdateToOrphaned(p, "blocks", b)
                                /\ target' = [target EXCEPT ![p] = b]
    BY DEF RollbackHeader
  <1>3. /\ b \in Blocks /\ target'[p] = b /\ phase[p] = "header" /\ phase'[p] = "rows"
        /\ UNCHANGED <<db, raw, shared, job, item, acked>>
    BY <1>1, <1>2 DEF RollbackHeader, Go, TypeOK, tables, env
  <1>4. \/ UNCHANGED mine
        \/ mine' = [mine EXCEPT ![p]["blocks"][b] = "orphaned"]
    BY <1>2 DEF UpdateToOrphaned, Write
  <1>5. Alone(p)
    BY <1>1, <1>2, <1>4 DEF Alone, RollbackHeader, Go, TypeOK, tables, env
  <1>6. \A t \in Tables, c \in Blocks :
          \/ mine'[p][t][c] = mine[p][t][c]
          \/ t = "blocks" /\ c = b /\ mine'[p][t][c] = "orphaned"
    BY <1>1, <1>3, <1>4 DEF TypeOK
  <1>7. Finished(p)' = Finished(p) /\ IsRollback(p)' = IsRollback(p)
    BY <1>3 DEF Finished, IsRollback, Rollbacks, Applies
  <1>8. shared[p] = NoBlock
    BY <1>1, <1>3 DEF TransactionOK, SharedStays
  <1>9. WritesInside(p)' /\ SharedStays(p)' /\ WrittenUnderLock(p)'
    <2>1. WritesInside(p)'
      BY <1>1, <1>3, <1>6, WritesStayInside DEF TransactionOK
    <2>2. SharedStays(p)'
      BY <1>3, <1>8 DEF SharedStays
    <2>3. WrittenUnderLock(p)'
      BY <1>1, <1>3, <1>6 DEF TransactionOK, WrittenUnderLock
    <2> QED
      BY <2>1, <2>2, <2>3
  <1>10. OrphanSettled(p)'
    <2> SUFFICES ASSUME NEW c \in Blocks, mine'[p]["blocks"][c] = "orphaned", c # b
                 PROVE  View(p, "rows", c)' # "canonical"
                        /\ View(p, "snapshots", c)' # "canonical"
      BY <1>3, Zenon DEF OrphanSettled
    <2> QED
      BY <1>1, <1>3, <1>6 DEF TransactionOK, OrphanSettled, View
  <1>11. NoRival(p)'
    BY <1>1, <1>3, <1>6 DEF TransactionOK, NoRival, View, SameHeight
  <1>12. Claimed(p)' /\ WorkInRange(p)'
    BY <1>1, <1>3, <1>7 DEF TransactionOK, Claimed, WorkInRange
  <1>13. \A q \in Procs \ {p} : Apart(p, q)'
    BY <1>2, <1>3, <1>5, UpdateApart
  <1> QED
    BY <1>5, <1>9, <1>10, <1>11, <1>12, <1>13, AloneKeeps DEF TransactionOK

LEMMA RollbackRowsKeeps ==
    ASSUME NEW p \in Ingesters, IInv, TypeOK', RollbackRows(p)
    PROVE  IInv'
  <1> USE DEF Procs
  <1> DEFINE b == target[p]
  <1>1. TransactionOK(p) /\ TypeOK
    BY DEF IInv
  <1>2. /\ phase[p] = "rows" /\ phase'[p] = "snapshots"
        /\ UNCHANGED <<db, raw, shared, job, item, target, acked>>
        /\ UpdateToOrphaned(p, "rows", b)
    BY <1>1 DEF RollbackRows, Go, TypeOK, tables, env
  <1>3. \/ UNCHANGED mine /\ View(p, "rows", b) # "canonical"
        \/ mine' = [mine EXCEPT ![p]["rows"][b] = "orphaned"]
    BY <1>2 DEF UpdateToOrphaned, Write, Qualifies
  <1>4. Alone(p)
    BY <1>1, <1>2, <1>3 DEF Alone, RollbackRows, Go, TypeOK, tables, env
  <1>5. \A t \in Tables, c \in Blocks :
          \/ mine'[p][t][c] = mine[p][t][c]
          \/ t = "rows" /\ c = b /\ mine'[p][t][c] = "orphaned"
    BY <1>1, <1>3 DEF TypeOK
  <1>6. Finished(p)' = Finished(p) /\ IsRollback(p)' = IsRollback(p)
    BY <1>2 DEF Finished, IsRollback, Rollbacks, Applies
  <1>7. shared[p] = NoBlock
    BY <1>1, <1>2 DEF TransactionOK, SharedStays
  <1>8. WritesInside(p)' /\ SharedStays(p)' /\ WrittenUnderLock(p)'
    <2>1. WritesInside(p)'
      BY <1>1, <1>2, <1>5, WritesStayInside DEF TransactionOK
    <2>2. SharedStays(p)'
      BY <1>2, <1>7 DEF SharedStays
    <2>3. WrittenUnderLock(p)'
      BY <1>1, <1>2, <1>5, SMTT(30) DEF TransactionOK, WrittenUnderLock
    <2> QED
      BY <2>1, <2>2, <2>3
  <1>9. OrphanSettled(p)'
    <2> SUFFICES ASSUME NEW c \in Blocks, mine'[p]["blocks"][c] = "orphaned"
                 PROVE  /\ View(p, "rows", c)' # "canonical"
                        /\ \/ View(p, "snapshots", c)' # "canonical"
                           \/ c = b
      BY <1>2, Zenon DEF OrphanSettled
    <2>1. mine[p]["blocks"][c] = "orphaned"
      BY <1>5
    <2>2. CASE c = b
      <3>1. CASE UNCHANGED mine /\ View(p, "rows", b) # "canonical"
        BY <1>2, <2>2, <3>1 DEF View
      <3>2. CASE mine' = [mine EXCEPT ![p]["rows"][b] = "orphaned"]
        <4>1. mine'[p]["rows"][c] = "orphaned"
          BY <1>1, <2>2, <3>2 DEF TypeOK
        <4> QED
          BY <2>2, <4>1 DEF View
      <3> QED
        BY <1>3, <2>2, <3>1, <3>2
    <2>3. CASE c # b
      BY <1>1, <1>2, <1>5, <2>1, <2>3 DEF TransactionOK, OrphanSettled, View
    <2> QED
      BY <2>2, <2>3
  <1>10. NoRival(p)'
    BY <1>1, <1>2, <1>5, ZenonT(40) DEF TransactionOK, NoRival, View, SameHeight
  <1>11. Claimed(p)' /\ WorkInRange(p)'
    BY <1>1, <1>2, <1>6 DEF TransactionOK, Claimed, WorkInRange
  <1>12. \A q \in Procs \ {p} : Apart(p, q)'
    BY <1>2, <1>4, UpdateApart
  <1> QED
    BY <1>4, <1>8, <1>9, <1>10, <1>11, <1>12, AloneKeeps DEF TransactionOK

LEMMA RollbackSnapshotsKeeps ==
    ASSUME NEW p \in Ingesters, IInv, TypeOK', RollbackSnapshots(p)
    PROVE  IInv'
  <1> USE DEF Procs
  <1> DEFINE b == target[p]
  <1>1. TransactionOK(p) /\ TypeOK
    BY DEF IInv
  <1>2. /\ phase[p] = "snapshots" /\ phase'[p] \in {"header", "next", "upsert"}
        /\ UNCHANGED <<db, raw, shared, job, acked>>
        /\ UpdateToOrphaned(p, "snapshots", b)
    BY <1>1 DEF RollbackSnapshots, Go, TypeOK, tables, env
  <1>3. \/ UNCHANGED mine /\ View(p, "snapshots", b) # "canonical"
        \/ mine' = [mine EXCEPT ![p]["snapshots"][b] = "orphaned"]
    BY <1>2 DEF UpdateToOrphaned, Write, Qualifies
  <1>4. Alone(p)
    BY <1>1, <1>2, <1>3 DEF Alone, RollbackSnapshots, Go, TypeOK, tables, env
  <1>5. \A t \in Tables, c \in Blocks :
          \/ mine'[p][t][c] = mine[p][t][c]
          \/ t = "snapshots" /\ c = b /\ mine'[p][t][c] = "orphaned"
    BY <1>1, <1>3 DEF TypeOK
  <1>6. shared[p] = NoBlock
    BY <1>1, <1>2 DEF TransactionOK, SharedStays
  <1>7. WritesInside(p)' /\ SharedStays(p)' /\ WrittenUnderLock(p)'
    <2>1. WritesInside(p)'
      BY <1>1, <1>2, <1>5, WritesStayInside DEF TransactionOK
    <2>2. SharedStays(p)'
      BY <1>2, <1>6 DEF SharedStays
    <2>3. WrittenUnderLock(p)'
      BY <1>1, <1>2, <1>5 DEF TransactionOK, WrittenUnderLock
    <2> QED
      BY <2>1, <2>2, <2>3
  <1>8. OrphanSettled(p)'
    <2> SUFFICES ASSUME NEW c \in Blocks, mine'[p]["blocks"][c] = "orphaned"
                 PROVE  /\ View(p, "rows", c)' # "canonical"
                        /\ View(p, "snapshots", c)' # "canonical"
      BY Zenon DEF OrphanSettled
    <2>1. mine[p]["blocks"][c] = "orphaned"
      BY <1>5
    <2>2. View(p, "rows", c)' # "canonical"
      BY <1>1, <1>2, <1>5, <2>1 DEF TransactionOK, OrphanSettled, View
    <2>3. CASE c = b
      <3>1. CASE UNCHANGED mine /\ View(p, "snapshots", b) # "canonical"
        BY <1>2, <2>2, <2>3, <3>1 DEF View
      <3>2. CASE mine' = [mine EXCEPT ![p]["snapshots"][b] = "orphaned"]
        <4>1. mine'[p]["snapshots"][c] = "orphaned"
          BY <1>1, <2>3, <3>2 DEF TypeOK
        <4> QED
          BY <2>2, <4>1 DEF View
      <3> QED
        BY <1>3, <3>1, <3>2
    <2>4. CASE c # b
      BY <1>1, <1>2, <1>5, <2>1, <2>2, <2>4 DEF TransactionOK, OrphanSettled, View
    <2> QED
      BY <2>3, <2>4
  <1>9. NoRival(p)'
    BY <1>1, <1>2, <1>5 DEF TransactionOK, NoRival, View, SameHeight
  <1>10. Claimed(p)' /\ WorkInRange(p)'
    <2>1. Claimed(p)'
      BY <1>1, <1>2 DEF TransactionOK, Claimed
    <2>2. job[p] \in Deliveries /\ item[p] >= 1 /\ ~Finished(p) /\ item[p] \in Nat
      BY <1>1, <1>2 DEF TransactionOK, WorkInRange, TypeOK
    <2>3. item'[p] = IF victims[p] = {} /\ IsRollback(p) THEN item[p] + 1 ELSE item[p]
      BY <1>1 DEF RollbackSnapshots, TypeOK
    <2>4. phase'[p] = IF victims[p] # {} THEN "header"
                      ELSE IF IsRollback(p) THEN "next" ELSE "upsert"
      BY <1>1 DEF RollbackSnapshots, Go, TypeOK
    <2>5. item'[p] >= 1
      BY <2>2, <2>3
    <2>6. phase'[p] \in {"header", "upsert"} =>
            Finished(p)' = Finished(p) /\ IsRollback(p)' = IsRollback(p)
      BY <1>2, <2>3, <2>4 DEF Finished, IsRollback, Rollbacks, Applies
    <2> QED
      BY <1>2, <2>1, <2>2, <2>4, <2>5, <2>6 DEF WorkInRange
  <1>11. \A q \in Procs \ {p} : Apart(p, q)'
    BY <1>2, <1>4, UpdateApart
  <1> QED
    BY <1>4, <1>7, <1>8, <1>9, <1>10, <1>11, AloneKeeps DEF TransactionOK

(* The waits of the upsert and its index check keep its block rivalless.    *)
LEMMA UpsertKeeps ==
    ASSUME NEW p \in Ingesters, IInv, TypeOK', UpsertBlock(p)
    PROVE  IInv'
  <1> USE DEF Procs
  <1> DEFINE b == Applied(p)
  <1>1. TransactionOK(p) /\ TypeOK
    BY DEF IInv
  <1>2. /\ phase[p] = "upsert" /\ phase'[p] = "derive"
        /\ UNCHANGED <<db, raw, shared, job, item, target, acked>>
        /\ mine' = [mine EXCEPT ![p]["blocks"][b] = "canonical"]
    BY <1>1 DEF UpsertBlock, Go, Write, TypeOK, tables, env
  <1>3. b \in Blocks
    BY <1>1, <1>2, AppliedInBlocks DEF TransactionOK
  <1>4. Alone(p)
    BY <1>1, <1>2 DEF Alone, UpsertBlock, Go, TypeOK, tables, env
  <1>5. \A t \in Tables, c \in Blocks :
          mine'[p][t][c] = IF t = "blocks" /\ c = b THEN "canonical" ELSE mine[p][t][c]
    BY <1>1, <1>2, <1>3 DEF TypeOK
  <1>6. /\ Finished(p)' = Finished(p) /\ IsRollback(p)' = IsRollback(p)
        /\ Applied(p)' = b
    BY <1>2 DEF Finished, IsRollback, Rollbacks, Applies, Applied
  <1>7. shared[p] = NoBlock
    BY <1>1, <1>2 DEF TransactionOK, SharedStays
  <1>8. \A c \in SameHeight(b) : View(p, "blocks", c) # "canonical"
    BY DEF UpsertBlock, Rivalled
  <1>9. WritesInside(p)' /\ SharedStays(p)' /\ WrittenUnderLock(p)'
    <2>1. WritesInside(p)'
      BY <1>1, <1>2, <1>5, WritesStayInside DEF TransactionOK
    <2>2. SharedStays(p)'
      BY <1>2, <1>7 DEF SharedStays
    <2>3. mine'[p]["blocks"][Applied(p)'] = "canonical"
      BY <1>3, <1>5, <1>6
    <2>4. WrittenUnderLock(p)'
      BY <1>1, <1>2, <1>5, <2>3 DEF TransactionOK, WrittenUnderLock
    <2> QED
      BY <2>1, <2>2, <2>4
  <1>10. OrphanSettled(p)'
    BY <1>1, <1>2, <1>5 DEF TransactionOK, OrphanSettled, View
  <1>11. NoRival(p)'
    <2> SUFFICES ASSUME NEW c \in Blocks, mine'[p]["blocks"][c] = "canonical",
                        NEW e \in SameHeight(c)
                 PROVE  View(p, "blocks", e)' # "canonical"
      BY DEF NoRival, SameHeight
    <2>1. CASE c = b
      <3>1. e # b /\ e \in Blocks /\ View(p, "blocks", e) # "canonical"
        BY <1>8, <2>1 DEF SameHeight
      <3> QED
        BY <1>2, <1>5, <3>1 DEF View
    <2>2. CASE c # b
      <3>1. mine[p]["blocks"][c] = "canonical"
        BY <1>5, <2>2
      <3>2. e # b
        <4> SUFFICES ASSUME e = b
                     PROVE  FALSE
          OBVIOUS
        <4>1. c \in SameHeight(b)
          BY DEF SameHeight
        <4> QED
          BY <1>8, <3>1, <4>1 DEF View
      <3>3. View(p, "blocks", e) # "canonical" /\ e \in Blocks
        BY <1>1, <3>1 DEF TransactionOK, NoRival, SameHeight
      <3> QED
        BY <1>2, <1>5, <3>2, <3>3 DEF View
    <2> QED
      BY <2>1, <2>2
  <1>12. Claimed(p)' /\ WorkInRange(p)'
    BY <1>1, <1>2, <1>6 DEF TransactionOK, Claimed, WorkInRange
  <1>13. ASSUME NEW q \in Procs \ {p}
         PROVE  Apart(p, q)'
    <2>1. Apart(p, q)
      BY DEF IInv
    <2>2. mine'[q] = mine[q] /\ shared'[q] = shared[q] /\ job'[q] = job[q]
      BY <1>4 DEF Alone
    <2>3. UpsertHolders(p) = {}
      BY DEF UpsertBlock
    <2>4. mine[q]["blocks"][b] = Untouched /\ shared[q] # b
      BY <2>3 DEF UpsertHolders, RowHolders, Writers, Sharers
    <2>5. \A c \in SameHeight(b) : mine[q]["blocks"][c] # "canonical"
      <3> SUFFICES ASSUME NEW c \in SameHeight(b), mine[q]["blocks"][c] = "canonical"
                   PROVE  FALSE
        OBVIOUS
      <3>1. q \in Writers(p, "blocks", c)
        BY DEF Writers
      <3> HIDE DEF b
      <3>2. q \in IndexHolders(p, b)
        BY <3>1 DEF IndexHolders
      <3> QED
        BY <2>3, <3>2 DEF UpsertHolders, b
    <2>6. ASSUME NEW t \in Tables, NEW c \in Blocks
          PROVE  mine'[p][t][c] = Untouched \/ mine'[q][t][c] = Untouched
      <3>1. mine[p][t][c] = Untouched \/ mine[q][t][c] = Untouched
        BY <2>1 DEF Apart
      <3>2. CASE t = "blocks" /\ c = b
        BY <2>2, <2>4, <3>2
      <3>3. CASE ~(t = "blocks" /\ c = b)
        BY <1>5, <2>2, <3>1, <3>3
      <3> QED
        BY <3>2, <3>3
    <2>7. ASSUME NEW c \in Blocks, NEW e \in SameHeight(c)
          PROVE  mine'[p]["blocks"][c] # "canonical" \/ mine'[q]["blocks"][e] # "canonical"
      <3>1. CASE c = b
        BY <2>2, <2>5, <3>1
      <3>2. CASE c # b
        BY <1>5, <2>1, <2>2, <3>2 DEF Apart
      <3> QED
        BY <3>1, <3>2
    <2>8. shared'[q] # NoBlock => mine'[p]["blocks"][shared'[q]] = Untouched
      <3>1. shared[q] \in Blocks \cup {NoBlock}
        BY <1>1 DEF TypeOK
      <3> QED
        BY <1>5, <2>1, <2>2, <2>4, <3>1 DEF Apart
    <2>9. job'[p] # NoDelivery /\ job'[q] # NoDelivery => Key[job'[p]] # Key[job'[q]]
      BY <1>2, <2>1, <2>2 DEF Apart
    <2> QED
      BY <1>2, <1>7, <2>6, <2>7, <2>8, <2>9 DEF Apart, SameHeight
  <1> QED
    BY <1>4, <1>9, <1>10, <1>11, <1>12, <1>13, AloneKeeps DEF TransactionOK

(* A statement that writes one row of another table than chain_blocks, once *)
(* nobody else has written it, comes into nobody's way.                     *)
LEMMA WriteApart ==
    ASSUME NEW p \in Procs, NEW t \in Tables \ {"blocks"}, NEW b \in Blocks,
           NEW flag \in Flags, IInv, Alone(p), Write(p, t, b, flag),
           Writers(p, t, b) = {}, job'[p] = job[p], shared'[p] = shared[p],
           NEW q \in Procs \ {p}
    PROVE  Apart(p, q)'
  <1>1. Apart(p, q) /\ TypeOK
    BY DEF IInv
  <1>2. mine'[q] = mine[q] /\ shared'[q] = shared[q] /\ job'[q] = job[q]
    BY DEF Alone
  <1>3. \A u \in Tables, c \in Blocks :
          mine'[p][u][c] = IF u = t /\ c = b THEN flag ELSE mine[p][u][c]
    BY <1>1 DEF Write, TypeOK
  <1>4. mine[q][t][b] = Untouched
    BY DEF Writers
  <1>5. ASSUME NEW u \in Tables, NEW c \in Blocks
        PROVE  mine'[p][u][c] = Untouched \/ mine'[q][u][c] = Untouched
    <2>1. mine[p][u][c] = Untouched \/ mine[q][u][c] = Untouched
      BY <1>1 DEF Apart
    <2>2. CASE u = t /\ c = b
      BY <1>2, <1>4, <2>2
    <2>3. CASE ~(u = t /\ c = b)
      BY <1>2, <1>3, <2>1, <2>3
    <2> QED
      BY <2>2, <2>3
  <1>6. \A c \in Blocks : mine'[p]["blocks"][c] = mine[p]["blocks"][c]
    BY <1>3
  <1>7. shared[q] \in Blocks \cup {NoBlock}
    BY <1>1 DEF TypeOK
  <1>8. /\ \A c \in Blocks : \A e \in SameHeight(c) :
             mine'[p]["blocks"][c] # "canonical" \/ mine'[q]["blocks"][e] # "canonical"
        /\ job'[p] # NoDelivery /\ job'[q] # NoDelivery => Key[job'[p]] # Key[job'[q]]
    <2>1. \A c \in Blocks : \A e \in SameHeight(c) :
            mine[p]["blocks"][c] # "canonical" \/ mine[q]["blocks"][e] # "canonical"
      BY <1>1 DEF Apart
    <2>2. \A c \in Blocks : \A e \in SameHeight(c) :
            mine'[p]["blocks"][c] # "canonical" \/ mine'[q]["blocks"][e] # "canonical"
      BY <1>2, <1>6, <2>1
    <2>3. job[p] # NoDelivery /\ job[q] # NoDelivery => Key[job[p]] # Key[job[q]]
      BY <1>1 DEF Apart
    <2>4. job'[p] # NoDelivery /\ job'[q] # NoDelivery => Key[job'[p]] # Key[job'[q]]
      BY <1>2, <2>3
    <2> QED
      BY <2>2, <2>4
  <1>9. /\ shared'[p] # NoBlock => mine'[q]["blocks"][shared'[p]] = Untouched
        /\ shared'[q] # NoBlock => mine'[p]["blocks"][shared'[q]] = Untouched
    BY <1>1, <1>2, <1>6, <1>7 DEF Apart
  <1> QED
    BY <1>5, <1>8, <1>9 DEF Apart, SameHeight

LEMMA DeriveKeeps ==
    ASSUME NEW p \in Ingesters, IInv, TypeOK', DeriveRows(p)
    PROVE  IInv'
  <1> USE DEF Procs
  <1> DEFINE b == Applied(p)
  <1>1. TransactionOK(p) /\ TypeOK
    BY DEF IInv
  <1>2. /\ phase[p] = "derive" /\ phase'[p] = "next" /\ item'[p] = item[p] + 1
        /\ UNCHANGED <<db, raw, shared, job, target, acked>>
        /\ mine' = [mine EXCEPT ![p]["rows"][b] = "canonical"]
    BY <1>1 DEF DeriveRows, Go, Write, TypeOK, tables, env
  <1>3. b \in Blocks
    BY <1>1, <1>2, AppliedInBlocks DEF TransactionOK
  <1>4. Alone(p)
    BY <1>1, <1>2 DEF Alone, DeriveRows, Go, TypeOK, tables, env
  <1>5. \A t \in Tables, c \in Blocks :
          mine'[p][t][c] = IF t = "rows" /\ c = b THEN "canonical" ELSE mine[p][t][c]
    BY <1>1, <1>2, <1>3 DEF TypeOK
  <1>6. shared[p] = NoBlock /\ mine[p]["blocks"][b] = "canonical"
    BY <1>1, <1>2 DEF TransactionOK, SharedStays, WrittenUnderLock
  <1>7. WritesInside(p)' /\ SharedStays(p)' /\ WrittenUnderLock(p)'
    <2>1. WritesInside(p)'
      BY <1>1, <1>2, <1>5, WritesStayInside DEF TransactionOK
    <2>2. SharedStays(p)'
      BY <1>2, <1>6 DEF SharedStays
    <2>3. WrittenUnderLock(p)'
      <3> SUFFICES ASSUME NEW c \in Blocks
                   PROVE  /\ mine'[p]["snapshots"][c] = "canonical" =>
                               shared'[p] = c /\ db'["snapshots"][c] = "absent"
                          /\ mine'[p]["rows"][c] = "canonical" =>
                               mine'[p]["blocks"][c] # Untouched
        BY <1>2 DEF WrittenUnderLock
      <3>1. /\ mine[p]["snapshots"][c] = "canonical" =>
                 shared[p] = c /\ db["snapshots"][c] = "absent"
            /\ mine[p]["rows"][c] = "canonical" => mine[p]["blocks"][c] # Untouched
        BY <1>1 DEF TransactionOK, WrittenUnderLock
      <3> QED
        BY <1>2, <1>5, <1>6, <3>1
    <2> QED
      BY <2>1, <2>2, <2>3
  <1>8. OrphanSettled(p)'
    <2> SUFFICES ASSUME NEW c \in Blocks, mine'[p]["blocks"][c] = "orphaned"
                 PROVE  /\ View(p, "rows", c)' # "canonical"
                        /\ View(p, "snapshots", c)' # "canonical"
      BY Zenon DEF OrphanSettled
    <2>1. mine[p]["blocks"][c] = "orphaned" /\ c # b
      BY <1>5, <1>6
    <2>2. View(p, "rows", c) # "canonical" /\ View(p, "snapshots", c) # "canonical"
      BY <1>1, <1>2, <2>1 DEF TransactionOK, OrphanSettled
    <2> QED
      BY <1>2, <1>5, <2>1, <2>2 DEF View
  <1>9. NoRival(p)'
    BY <1>1, <1>2, <1>5 DEF TransactionOK, NoRival, View, SameHeight
  <1>10. Claimed(p)' /\ WorkInRange(p)'
    <2>1. job[p] \in Deliveries /\ item[p] \in Nat /\ item[p] >= 1
      BY <1>1, <1>2 DEF TransactionOK, WorkInRange, TypeOK
    <2>2. item'[p] >= 1
      BY <1>2, <2>1
    <2> QED
      BY <1>1, <1>2, <2>1, <2>2 DEF TransactionOK, Claimed, WorkInRange
  <1>11. ASSUME NEW q \in Procs \ {p}
         PROVE  Apart(p, q)'
    <2>1. Writers(p, "rows", b) = {} /\ Write(p, "rows", b, "canonical")
      BY DEF DeriveRows, RowHolders
    <2> QED
      BY <1>2, <1>3, <1>4, <2>1, WriteApart
  <1> QED
    BY <1>4, <1>7, <1>8, <1>9, <1>10, <1>11, AloneKeeps DEF TransactionOK

(* FOR SHARE waits for every writer of the block, and they wait for it.     *)
LEMMA LockKeeps ==
    ASSUME NEW p \in Savers, NEW b \in Blocks, IInv, TypeOK', LockSnapshotBlock(p, b)
    PROVE  IInv'
  <1> USE DEF Procs
  <1>1. TransactionOK(p) /\ TypeOK
    BY DEF IInv
  <1>2. /\ phase[p] = "idle" /\ phase'[p] = "insert"
        /\ shared'[p] = b /\ target'[p] = b /\ db["blocks"][b] = "canonical"
        /\ Writers(p, "blocks", b) = {}
        /\ UNCHANGED <<db, raw, mine, job, item, acked>>
    BY <1>1 DEF LockSnapshotBlock, Go, TypeOK, tables, env
  <1>3. Alone(p)
    BY <1>1 DEF Alone, LockSnapshotBlock, Go, TypeOK, tables, env
  <1>4. \A t \in Tables, c \in Blocks : mine[p][t][c] = Untouched
    BY <1>1, <1>2 DEF TransactionOK, WritesInside
  <1>5. WritesInside(p)' /\ SharedStays(p)' /\ WrittenUnderLock(p)'
    BY <1>2, <1>4 DEF WritesInside, SharedStays, WrittenUnderLock
  <1>6. OrphanSettled(p)' /\ NoRival(p)' /\ Claimed(p)' /\ WorkInRange(p)'
    BY <1>1, <1>2, <1>4
    DEF TransactionOK, OrphanSettled, NoRival, Claimed, WorkInRange
  <1>7. ASSUME NEW q \in Procs \ {p}
        PROVE  Apart(p, q)'
    <2>1. Apart(p, q)
      BY DEF IInv
    <2>2. mine[q]["blocks"][b] = Untouched
      BY <1>2 DEF Writers
    <2>3. mine'[q] = mine[q] /\ shared'[q] = shared[q] /\ job'[q] = job[q]
      BY <1>3 DEF Alone
    <2> QED
      BY <1>2, <2>1, <2>2, <2>3 DEF Apart, SameHeight
  <1> QED
    BY <1>3, <1>5, <1>6, <1>7, AloneKeeps DEF TransactionOK

LEMMA InsertKeeps ==
    ASSUME NEW p \in Savers, IInv, TypeOK', InsertSnapshot(p)
    PROVE  IInv'
  <1> USE DEF Procs
  <1> DEFINE b == target[p]
  <1>1. TransactionOK(p) /\ TypeOK
    BY DEF IInv
  <1>2. /\ phase[p] = "insert" /\ phase'[p] = "commit"
        /\ UNCHANGED <<db, raw, shared, job, item, target, acked>>
    BY <1>1 DEF InsertSnapshot, Go, TypeOK, tables, env
  <1>3. /\ shared[p] = b /\ b \in Blocks
        /\ db["blocks"][b] = "canonical" /\ mine[p]["blocks"][b] = Untouched
    BY <1>1, <1>2 DEF TransactionOK, SharedStays, TypeOK
  <1>4. \/ UNCHANGED mine
        \/ /\ Writers(p, "snapshots", b) = {}
           /\ db["snapshots"][b] = "absent"
           /\ mine' = [mine EXCEPT ![p]["snapshots"][b] = "canonical"]
    BY DEF InsertSnapshot, Write
  <1>5. Alone(p)
    BY <1>1, <1>2, <1>4 DEF Alone, InsertSnapshot, Go, TypeOK, tables, env
  <1>6. \A t \in Tables, c \in Blocks :
          \/ mine'[p][t][c] = mine[p][t][c]
          \/ /\ t = "snapshots" /\ c = b /\ mine'[p][t][c] = "canonical"
             /\ db["snapshots"][b] = "absent"
    BY <1>1, <1>4 DEF TypeOK
  <1>7. WritesInside(p)' /\ SharedStays(p)' /\ WrittenUnderLock(p)'
    <2>1. WritesInside(p)'
      BY <1>1, <1>2, <1>6, WritesStayInside DEF TransactionOK
    <2>2. SharedStays(p)'
      BY <1>2, <1>3, <1>6 DEF SharedStays
    <2>3. WrittenUnderLock(p)'
      <3> SUFFICES ASSUME NEW c \in Blocks
                   PROVE  /\ mine'[p]["snapshots"][c] = "canonical" =>
                               shared'[p] = c /\ db'["snapshots"][c] = "absent"
                          /\ mine'[p]["rows"][c] = "canonical" =>
                               mine'[p]["blocks"][c] # Untouched
        BY <1>2 DEF WrittenUnderLock
      <3>1. /\ mine[p]["snapshots"][c] = "canonical" =>
                 shared[p] = c /\ db["snapshots"][c] = "absent"
            /\ mine[p]["rows"][c] = "canonical" => mine[p]["blocks"][c] # Untouched
        BY <1>1 DEF TransactionOK, WrittenUnderLock
      <3> QED
        BY <1>2, <1>3, <1>6, <3>1
    <2> QED
      BY <2>1, <2>2, <2>3
  <1>8. OrphanSettled(p)'
    <2> SUFFICES ASSUME NEW c \in Blocks, mine'[p]["blocks"][c] = "orphaned"
                 PROVE  /\ View(p, "rows", c)' # "canonical"
                        /\ View(p, "snapshots", c)' # "canonical"
      BY Zenon DEF OrphanSettled
    <2>1. mine[p]["blocks"][c] = "orphaned" /\ c # b
      BY <1>3, <1>6
    <2>2. View(p, "rows", c) # "canonical" /\ View(p, "snapshots", c) # "canonical"
      BY <1>1, <1>2, <2>1 DEF TransactionOK, OrphanSettled
    <2> QED
      BY <1>2, <1>6, <2>1, <2>2 DEF View
  <1>9. NoRival(p)'
    BY <1>1, <1>2, <1>6, SMTT(30) DEF TransactionOK, NoRival, View, SameHeight
  <1>10. Claimed(p)' /\ WorkInRange(p)'
    BY <1>1, <1>2 DEF TransactionOK, Claimed, WorkInRange
  <1>11. ASSUME NEW q \in Procs \ {p}
         PROVE  Apart(p, q)'
    <2>1. CASE UNCHANGED mine
      <3>1. Apart(p, q)
        BY DEF IInv
      <3>2. shared'[q] = shared[q] /\ job'[q] = job[q]
        BY <1>5 DEF Alone
      <3> QED
        BY <1>2, <2>1, <3>1, <3>2 DEF Apart, SameHeight
    <2>2. CASE /\ Writers(p, "snapshots", b) = {}
               /\ mine' = [mine EXCEPT ![p]["snapshots"][b] = "canonical"]
      BY <1>2, <1>3, <1>5, <2>2, WriteApart DEF Write
    <2> QED
      BY <1>4, <2>1, <2>2
  <1> QED
    BY <1>5, <1>7, <1>8, <1>9, <1>10, <1>11, AloneKeeps DEF TransactionOK

-----------------------------------------------------------------------------
(* Commits.                                                                 *)

(* When p commits, its view becomes what is committed, and the committed    *)
(* tables are in order again.                                               *)
LEMMA MergedTables ==
    ASSUME NEW p \in Procs, IInv, Merge(p), phase[p] \in {"next", "commit"}
    PROVE  /\ OneCanonicalPerHeight' /\ SnapshotsCanonical' /\ RowsCanonical'
  <1>1. TransactionOK(p) /\ TablesOK /\ TypeOK
    BY DEF IInv
  <1>2. \A t \in Tables, b \in Blocks : db'[t][b] = View(p, t, b)
    BY DEF Merge
  <1>3. OneCanonicalPerHeight'
    <2> SUFFICES ASSUME NEW b \in Blocks, NEW c \in Blocks, b # c,
                        View(p, "blocks", b) = "canonical",
                        View(p, "blocks", c) = "canonical", Height[b] = Height[c]
                 PROVE  FALSE
      BY <1>2 DEF OneCanonicalPerHeight, Committed
    <2>1. b \in SameHeight(c) /\ c \in SameHeight(b)
      BY DEF SameHeight
    <2>2. mine[p]["blocks"][b] # "canonical" /\ mine[p]["blocks"][c] # "canonical"
      BY <1>1, <2>1 DEF TransactionOK, NoRival
    <2>3. db["blocks"][b] = "canonical" /\ db["blocks"][c] = "canonical"
      BY <2>2 DEF View
    <2> QED
      BY <1>1, <2>3 DEF TablesOK, OneCanonicalPerHeight, Committed
  <1>4. ASSUME NEW b \in Blocks, mine[p]["blocks"][b] = "orphaned"
        PROVE  View(p, "rows", b) # "canonical" /\ View(p, "snapshots", b) # "canonical"
    BY <1>1, <1>4 DEF TransactionOK, OrphanSettled
  <1>5. \A b \in Blocks : \/ mine[p]["blocks"][b] \in {"orphaned", "canonical"}
                          \/ mine[p]["blocks"][b] = Untouched
    <2> SUFFICES ASSUME NEW b \in Blocks
                 PROVE  \/ mine[p]["blocks"][b] \in {"orphaned", "canonical"}
                        \/ mine[p]["blocks"][b] = Untouched
      OBVIOUS
    <2>1. mine[p]["blocks"][b] # "absent"
      BY <1>1 DEF TransactionOK, WritesInside
    <2>2. mine[p]["blocks"][b] \in Flags \cup {Untouched}
      BY <1>1 DEF TypeOK
    <2> QED
      BY <2>1, <2>2
  <1>6. SnapshotsCanonical'
    <2> SUFFICES ASSUME NEW b \in Blocks, View(p, "snapshots", b) = "canonical"
                 PROVE  View(p, "blocks", b) = "canonical"
      BY <1>2 DEF SnapshotsCanonical, Committed
    <2>1. CASE mine[p]["snapshots"][b] = "canonical"
      BY <1>1, <2>1 DEF TransactionOK, WrittenUnderLock, SharedStays, View
    <2>2. CASE mine[p]["snapshots"][b] # "canonical"
      <3>1. db["blocks"][b] = "canonical"
        BY <1>1, <2>2 DEF View, TablesOK, SnapshotsCanonical, Committed
      <3> QED
        BY <1>4, <1>5, <3>1 DEF View
    <2> QED
      BY <2>1, <2>2
  <1>7. RowsCanonical'
    <2> SUFFICES ASSUME NEW b \in Blocks, View(p, "rows", b) = "canonical"
                 PROVE  View(p, "blocks", b) = "canonical"
      BY <1>2 DEF RowsCanonical, Committed
    <2>1. CASE mine[p]["rows"][b] = "canonical"
      <3>1. mine[p]["blocks"][b] # Untouched
        BY <1>1, <2>1 DEF TransactionOK, WrittenUnderLock
      <3> QED
        BY <1>4, <1>5, <3>1 DEF View
    <2>2. CASE mine[p]["rows"][b] # "canonical"
      <3>1. db["blocks"][b] = "canonical"
        BY <1>1, <2>2 DEF View, TablesOK, RowsCanonical, Committed
      <3> QED
        BY <1>4, <1>5, <3>1 DEF View
    <2> QED
      BY <2>1, <2>2
  <1> QED
    BY <1>3, <1>6, <1>7

(* The commit of p, which may record its delivery, disturbs no transaction  *)
(* still in progress.                                                       *)
LEMMA CommitOthers ==
    ASSUME NEW p \in Procs, NEW q \in Procs \ {p}, IInv, Merge(p), Release(p),
           \/ raw' = raw
           \/ job[p] # NoDelivery /\ raw' = [raw EXCEPT ![Key[job[p]]] = Sha[job[p]]]
    PROVE  TransactionOK(q)'
  <1>1. /\ TransactionOK(p) /\ TransactionOK(q) /\ Apart(p, q) /\ TypeOK
    BY DEF IInv
  <1>2. /\ mine'[q] = mine[q] /\ shared'[q] = shared[q] /\ phase'[q] = phase[q]
        /\ job'[q] = job[q] /\ item'[q] = item[q] /\ target'[q] = target[q]
    BY <1>1 DEF Release, TypeOK
  <1>3. \A t \in Tables, b \in Blocks :
          db'[t][b] = IF mine[p][t][b] = Untouched THEN db[t][b] ELSE mine[p][t][b]
    BY DEF Merge, View
  <1>4. /\ Applied(q)' = Applied(q) /\ Finished(q)' = Finished(q)
        /\ IsRollback(q)' = IsRollback(q)
    BY <1>2 DEF Applied, Finished, IsRollback, Applies, Rollbacks
  <1>5. WritesInside(q)'
    BY <1>1, <1>2 DEF TransactionOK, WritesInside
  <1>6. SharedStays(q)'
    <2>1. shared[q] # NoBlock =>
            shared[q] \in Blocks /\ mine[p]["blocks"][shared[q]] = Untouched
      BY <1>1 DEF Apart, TypeOK
    <2>2. shared[q] # NoBlock => db'["blocks"][shared[q]] = db["blocks"][shared[q]]
      BY <1>3, <2>1
    <2> QED
      BY <1>1, <1>2, <2>2 DEF TransactionOK, SharedStays
  <1>7. WrittenUnderLock(q)'
    <2>1. \A b \in Blocks : mine[q]["snapshots"][b] = "canonical" =>
            db'["snapshots"][b] = db["snapshots"][b]
      BY <1>1, <1>3 DEF Apart
    <2> QED
      BY <1>1, <1>2, <1>4, <2>1, SMTT(30) DEF TransactionOK, WrittenUnderLock
  <1>8. OrphanSettled(q)'
    <2> SUFFICES ASSUME NEW b \in Blocks, mine[q]["blocks"][b] = "orphaned"
                 PROVE  /\ \/ View(q, "rows", b)' # "canonical"
                           \/ target[q] = b /\ phase[q] = "rows"
                        /\ \/ View(q, "snapshots", b)' # "canonical"
                           \/ target[q] = b /\ phase[q] \in {"rows", "snapshots"}
      BY <1>2 DEF OrphanSettled
    <2>1. mine[p]["blocks"][b] = Untouched
      BY <1>1 DEF Apart
    <2>2. mine[p]["rows"][b] # "canonical"
      BY <1>1, <2>1 DEF TransactionOK, WrittenUnderLock
    <2>3. mine[p]["snapshots"][b] # "canonical"
      <3> SUFFICES ASSUME mine[p]["snapshots"][b] = "canonical"
                   PROVE  FALSE
        OBVIOUS
      <3>1. shared[p] = b /\ shared[p] # NoBlock
        BY <1>1 DEF TransactionOK, WrittenUnderLock
      <3>2. mine[q]["blocks"][b] = Untouched
        BY <1>1, <3>1 DEF Apart
      <3> QED
        BY <3>2
    <2>4. /\ \/ View(q, "rows", b) # "canonical"
             \/ target[q] = b /\ phase[q] = "rows"
          /\ \/ View(q, "snapshots", b) # "canonical"
             \/ target[q] = b /\ phase[q] \in {"rows", "snapshots"}
      BY <1>1 DEF TransactionOK, OrphanSettled
    <2>5. View(q, "rows", b)' \in {View(q, "rows", b), mine[p]["rows"][b]}
      BY <1>2, <1>3 DEF View
    <2>6. View(q, "snapshots", b)' \in {View(q, "snapshots", b), mine[p]["snapshots"][b]}
      BY <1>2, <1>3 DEF View
    <2> QED
      BY <2>2, <2>3, <2>4, <2>5, <2>6
  <1>9. NoRival(q)'
    <2> SUFFICES ASSUME NEW b \in Blocks, mine[q]["blocks"][b] = "canonical",
                        NEW c \in SameHeight(b)
                 PROVE  View(q, "blocks", c)' # "canonical"
      BY <1>2 DEF NoRival, SameHeight
    <2>1. c \in Blocks /\ b \in SameHeight(c)
      BY DEF SameHeight
    <2>2. View(q, "blocks", c) # "canonical" /\ mine[p]["blocks"][c] # "canonical"
      BY <1>1, <2>1 DEF TransactionOK, NoRival, Apart
    <2>3. View(q, "blocks", c)' \in {View(q, "blocks", c), mine[p]["blocks"][c]}
      BY <1>2, <1>3, <2>1 DEF View
    <2> QED
      BY <2>2, <2>3
  <1>10. Claimed(q)'
    <2>1. job[q] # NoDelivery => q \in Ingesters /\ raw[Key[job[q]]] = NoSha
      BY <1>1 DEF TransactionOK, Claimed
    <2>2. job[q] # NoDelivery => job[q] \in Deliveries /\ Key[job[q]] \in Keys
      BY <1>1 DEF TypeOK, Keys
    <2>3. job[q] # NoDelivery /\ job[p] # NoDelivery => Key[job[p]] # Key[job[q]]
      BY <1>1 DEF Apart
    <2>4. job[q] # NoDelivery => raw'[Key[job[q]]] = NoSha
      BY <1>1, <2>1, <2>2, <2>3 DEF TypeOK
    <2> QED
      BY <1>2, <2>1, <2>4 DEF Claimed
  <1>11. WorkInRange(q)'
    BY <1>1, <1>2, <1>4 DEF TransactionOK, WorkInRange
  <1> QED
    BY <1>5, <1>6, <1>7, <1>8, <1>9, <1>10, <1>11 DEF TransactionOK

LEMMA CommitKeeps ==
    ASSUME NEW p \in Procs, IInv, TypeOK', Merge(p), Release(p),
           phase[p] \in {"next", "commit"}, AcknowledgedIsRecorded',
           \/ raw' = raw
           \/ job[p] # NoDelivery /\ raw' = [raw EXCEPT ![Key[job[p]]] = Sha[job[p]]]
    PROVE  IInv'
  <1>1. TypeOK /\ \A q \in Procs : shared[q] # NoBlock => shared[q] \in Blocks
    BY DEF IInv, TypeOK
  <1>2. /\ \A t \in Tables, b \in Blocks : mine'[p][t][b] = Untouched
        /\ shared'[p] = NoBlock /\ phase'[p] = "idle" /\ job'[p] = NoDelivery
    BY <1>1 DEF Release, Clean, TypeOK
  <1>3. \A q \in Procs \ {p} : /\ mine'[q] = mine[q] /\ shared'[q] = shared[q]
                               /\ job'[q] = job[q]
    BY <1>1 DEF Release, TypeOK
  <1>4. TablesOK'
    BY MergedTables DEF TablesOK
  <1>5. TransactionOK(p)'
    BY <1>2 DEF TransactionOK, WritesInside, SharedStays, WrittenUnderLock,
                OrphanSettled, NoRival, Claimed, WorkInRange
  <1>6. ASSUME NEW q \in Procs \ {p}
        PROVE  TransactionOK(q)'
    BY CommitOthers
  <1>7. ASSUME NEW q \in Procs, NEW r \in Procs, q # r
        PROVE  Apart(q, r)'
    <2>1. CASE q = p \/ r = p
      BY <1>1, <1>2, <1>3, <1>7, <2>1, SMTT(30) DEF Apart, SameHeight
    <2>2. CASE q # p /\ r # p
      <3>1. Apart(q, r)
        BY <1>7 DEF IInv
      <3> QED
        BY <1>3, <2>2, <3>1 DEF Apart, SameHeight
    <2> QED
      BY <2>1, <2>2
  <1> QED
    BY <1>4, <1>5, <1>6, <1>7 DEF IInv

LEMMA CommitDeliveryKeeps ==
    ASSUME NEW p \in Ingesters, IInv, TypeOK', CommitDelivery(p)
    PROVE  IInv'
  <1> USE DEF Procs
  <1>1. TransactionOK(p) /\ TypeOK /\ AcknowledgedIsRecorded
    BY DEF IInv, TablesOK
  <1>2. /\ job[p] \in Deliveries /\ raw[Key[job[p]]] = NoSha
        /\ Key[job[p]] \in Keys /\ Sha[job[p]] \in Shas
    BY <1>1 DEF CommitDelivery, TransactionOK, WorkInRange, Claimed, Keys, Shas
  <1>3. raw' = [raw EXCEPT ![Key[job[p]]] = Sha[job[p]]]
    BY DEF CommitDelivery
  <1>4. AcknowledgedIsRecorded'
    <2> SUFFICES ASSUME NEW d \in acked'
                 PROVE  raw'[Key[d]] = Sha[d]
      BY DEF AcknowledgedIsRecorded
    <2>1. CASE d = job[p]
      BY <1>1, <1>2, <1>3, <2>1 DEF TypeOK
    <2>2. CASE d # job[p]
      <3>1. d \in acked /\ d \in Deliveries
        BY <1>1, <2>2 DEF CommitDelivery, TypeOK
      <3>2. raw[Key[d]] = Sha[d] /\ Key[d] \in Keys /\ Sha[d] \in Shas
        BY <1>1, <3>1 DEF AcknowledgedIsRecorded, Keys, Shas
      <3>3. Key[d] # Key[job[p]]
        BY <1>2, <3>2
      <3> QED
        BY <1>1, <1>3, <3>2, <3>3 DEF TypeOK
    <2> QED
      BY <2>1, <2>2
  <1>5. job[p] # NoDelivery
    BY <1>2
  <1> QED
    BY <1>3, <1>4, <1>5, CommitKeeps DEF CommitDelivery

LEMMA CommitSnapshotsKeeps ==
    ASSUME NEW p \in Savers, IInv, TypeOK', CommitSnapshots(p)
    PROVE  IInv'
  <1>1. raw' = raw /\ acked' = acked
    BY DEF CommitSnapshots, env
  <1>2. AcknowledgedIsRecorded'
    BY <1>1 DEF IInv, TablesOK, AcknowledgedIsRecorded
  <1> QED
    BY <1>1, <1>2, CommitKeeps DEF CommitSnapshots, Procs

-----------------------------------------------------------------------------
(* The theorems.                                                            *)

(* An answer from the delivery record changes no table and no transaction.  *)
LEMMA AnswerKeeps ==
    ASSUME NEW p \in Ingesters, NEW d \in Deliveries, IInv, TypeOK',
           AcknowledgeDuplicate(p, d) \/ RejectReusedKey(p, d)
    PROVE  IInv'
  <1>1. UNCHANGED <<db, raw, mine, shared, phase, job, item, victims, target>>
    BY DEF AcknowledgeDuplicate, RejectReusedKey, tables, txs
  <1>2. AcknowledgedIsRecorded'
    <2>1. \A e \in acked : raw[Key[e]] = Sha[e]
      BY DEF IInv, TablesOK, AcknowledgedIsRecorded
    <2>2. acked' = acked \/ (acked' = acked \cup {d} /\ raw[Key[d]] = Sha[d])
      BY DEF AcknowledgeDuplicate, RejectReusedKey
    <2> QED
      BY <1>1, <2>1, <2>2 DEF AcknowledgedIsRecorded
  <1>3. TablesOK'
    BY <1>1, <1>2 DEF IInv, TablesOK, OneCanonicalPerHeight, SnapshotsCanonical,
                      RowsCanonical, Committed
  <1>4. ASSUME NEW q \in Procs
        PROVE  TransactionOK(q)'
    <2>1. TransactionOK(q)
      BY DEF IInv
    <2> QED
      BY <1>1, <2>1 DEF TransactionOK, WritesInside, SharedStays, WrittenUnderLock,
        OrphanSettled, NoRival, Claimed, WorkInRange, View, SameHeight,
        Applied, Finished, IsRollback, Applies, Rollbacks
  <1>5. ASSUME NEW q \in Procs, NEW r \in Procs, q # r
        PROVE  Apart(q, r)'
    BY <1>1, <1>5 DEF IInv, Apart, SameHeight
  <1> QED
    BY <1>3, <1>4, <1>5 DEF IInv

LEMMA InitHolds == Init => IInv
  <1> SUFFICES ASSUME Init PROVE IInv
    OBVIOUS
  <1>1. TypeOK
    BY DEF Init, TypeOK, Clean
  <1>2. TablesOK
    BY DEF Init, TablesOK, OneCanonicalPerHeight, SnapshotsCanonical, RowsCanonical,
           AcknowledgedIsRecorded, Committed
  <1>3. \A p \in Procs : /\ phase[p] = "idle" /\ job[p] = NoDelivery
                         /\ shared[p] = NoBlock
                         /\ \A t \in Tables, b \in Blocks : mine[p][t][b] = Untouched
    BY DEF Init, Clean
  <1>4. \A p \in Procs : TransactionOK(p)
    BY <1>3 DEF TransactionOK, WritesInside, SharedStays, WrittenUnderLock,
                OrphanSettled, NoRival, Claimed, WorkInRange
  <1>5. \A p, q \in Procs : p # q => Apart(p, q)
    BY <1>3 DEF Apart, SameHeight
  <1> QED
    BY <1>1, <1>2, <1>4, <1>5 DEF IInv

LEMMA StepKeeps == IInv /\ [Next]_vars => IInv'
  <1> SUFFICES ASSUME IInv, [Next]_vars PROVE IInv'
    OBVIOUS
  <1>1. TypeOK'
    BY TypeStep DEF IInv, TransactionOK
  <1>2. ASSUME NEW p \in Ingesters, NEW d \in Deliveries,
               \/ ClaimDelivery(p, d) \/ AcknowledgeDuplicate(p, d)
               \/ RejectReusedKey(p, d)
        PROVE  IInv'
    BY <1>1, <1>2, ClaimKeeps, AnswerKeeps
  <1>3. ASSUME NEW p \in Ingesters, Statement(p)
        PROVE  IInv'
    <2>1. CASE UniqueViolation(p)
      BY <1>1, <2>1, AbortKeeps DEF UniqueViolation, tables, env, Procs
    <2> QED
      BY <1>1, <1>3, <2>1, NextItemKeeps, RollbackHeaderKeeps, RollbackRowsKeeps,
         RollbackSnapshotsKeeps, UpsertKeeps, DeriveKeeps, CommitDeliveryKeeps
      DEF Statement
  <1>4. ASSUME NEW p \in Savers, NEW b \in Blocks, LockSnapshotBlock(p, b)
        PROVE  IInv'
    BY <1>1, <1>4, LockKeeps
  <1>5. ASSUME NEW p \in Savers, SaverStatement(p)
        PROVE  IInv'
    BY <1>1, <1>5, InsertKeeps, CommitSnapshotsKeeps DEF SaverStatement
  <1>6. ASSUME NEW p \in Procs, DeadlockVictim(p) \/ Fault(p)
        PROVE  IInv'
    BY <1>1, <1>6, AbortKeeps DEF DeadlockVictim, Fault, tables, env
  <1>7. CASE UNCHANGED vars
    <2>1. TablesOK'
      BY <1>7 DEF vars, IInv, TablesOK, OneCanonicalPerHeight, SnapshotsCanonical,
        RowsCanonical, AcknowledgedIsRecorded, Committed
    <2>2. ASSUME NEW q \in Procs
          PROVE  TransactionOK(q)'
      <3>1. TransactionOK(q)
        BY DEF IInv
      <3> QED
        BY <1>7, <3>1 DEF vars, TransactionOK, WritesInside, SharedStays,
          WrittenUnderLock, OrphanSettled, NoRival, Claimed, WorkInRange, View,
          SameHeight, Applied, Finished, IsRollback, Applies, Rollbacks
    <2>3. ASSUME NEW q \in Procs, NEW r \in Procs, q # r
          PROVE  Apart(q, r)'
      BY <1>7, <2>3 DEF vars, IInv, Apart, SameHeight
    <2> QED
      BY <1>1, <2>1, <2>2, <2>3 DEF IInv
  <1> QED
    BY <1>2, <1>3, <1>4, <1>5, <1>6, <1>7 DEF Next

(* The inductive invariant holds of every interleaving of ingestions and    *)
(* snapshot saves, however many, on every chain.                            *)
THEOREM Inductive == Spec => []IInv
  BY InitHolds, StepKeeps, PTL DEF Spec

(* The variables keep their types.                                          *)
THEOREM TypeCorrect == Spec => []TypeOK
  <1>1. IInv => TypeOK
    BY DEF IInv
  <1> QED
    BY <1>1, Inductive, PTL

(* Readers never find two canonical blocks of one height.                   *)
THEOREM UniqueHeights == Spec => []OneCanonicalPerHeight
  <1>1. IInv => OneCanonicalPerHeight
    BY DEF IInv, TablesOK
  <1> QED
    BY <1>1, Inductive, PTL

(* No snapshot of an orphaned block is ever served: the FOR SHARE lock of   *)
(* savePositionSnapshots and the order of the statements in rollbackBlock   *)
(* are enough against every concurrent reorg.                               *)
THEOREM OrphansUnserved == Spec => []SnapshotsCanonical
  <1>1. IInv => SnapshotsCanonical
    BY DEF IInv, TablesOK
  <1> QED
    BY <1>1, Inductive, PTL

(* Nor is a row that an ingestion derived from an orphaned block, whichever *)
(* ingestions of the branch it was on overlap with its rollback.            *)
THEOREM OrphanRowsUnserved == Spec => []RowsCanonical
  <1>1. IInv => RowsCanonical
    BY DEF IInv, TablesOK
  <1> QED
    BY <1>1, Inductive, PTL

(* A delivery answered with success is on record with its content.          *)
THEOREM AnswersTruthful == Spec => []AcknowledgedIsRecorded
  <1>1. IInv => AcknowledgedIsRecorded
    BY DEF IInv, TablesOK
  <1> QED
    BY <1>1, Inductive, PTL

(* A snapshot that a reorg has invalidated is never served again.           *)
THEOREM InvalidationLasts == Spec => InvalidationIsFinal
  <1> DEFINE Final == \A b \in Blocks : db["snapshots"][b] = "orphaned"
                                          => db'["snapshots"][b] = "orphaned"
  <1>1. ASSUME IInv, NEW p \in Procs, Merge(p)
        PROVE  Final
    <2> SUFFICES ASSUME NEW b \in Blocks, db["snapshots"][b] = "orphaned"
                 PROVE  View(p, "snapshots", b) = "orphaned"
      BY <1>1 DEF Merge
    <2>1. mine[p]["snapshots"][b] \notin {"absent", "canonical"}
      BY <1>1 DEF IInv, TransactionOK, WrittenUnderLock, WritesInside
    <2>2. mine[p]["snapshots"][b] \in Flags \cup {Untouched}
      BY <1>1 DEF IInv, TypeOK
    <2> QED
      BY <2>1, <2>2 DEF View
  <1>2. IInv /\ [Next]_vars => [Final]_db
    <2> SUFFICES ASSUME IInv, Next, db' # db
                 PROVE  Final
      BY DEF vars
    <2>1. PICK p \in Procs : CommitDelivery(p) \/ CommitSnapshots(p)
      BY Zenon DEF Next, Statement, SaverStatement, Procs, tables, env,
        ClaimDelivery, AcknowledgeDuplicate, RejectReusedKey, NextItem,
        RollbackHeader, RollbackRows, RollbackSnapshots, UpsertBlock, DeriveRows,
        UniqueViolation, LockSnapshotBlock, InsertSnapshot, DeadlockVictim, Fault
    <2>2. Merge(p)
      BY <2>1 DEF CommitDelivery, CommitSnapshots
    <2> QED
      BY <1>1, <2>2
  <1> QED
    BY <1>2, Inductive, PTL DEF Spec, InvalidationIsFinal

-----------------------------------------------------------------------------
(* The ledger.                                                              *)

(* What senders are like: the blocks a delivery applies are of one branch;  *)
(* it rolls back blocks that a delivery answered before has applied; and    *)
(* under one event key, a digest stands for one content.                    *)
OneBranch ==
    \A d \in Deliveries : \A i, j \in DOMAIN Apply[d] :
      Height[Apply[d][i]] = Height[Apply[d][j]] => i = j
RollbacksFollow ==
    /\ ~Pipelined
    /\ \A d \in Deliveries : \A i \in DOMAIN Rollback[d] :
         \E e \in Before[d] : Rollback[d][i] \in Ledger!Elements(Apply[e])
DigestsTell ==
    \A d, e \in Deliveries : Key[d] = Key[e] /\ Sha[d] = Sha[e] => Apply[d] = Apply[e]
ChainFollowers == OneBranch /\ RollbacksFollow /\ DigestsTell

(* The blocks of the batch that p has rolled back, and has applied, so far. *)
RolledBack(p) ==
    {Rollbacks(p)[i] : i \in {k \in DOMAIN Rollbacks(p) : k < item[p]}}
Installed(p) ==
    {Applies(p)[i] : i \in {k \in DOMAIN Applies(p) : Len(Rollbacks(p)) + k < item[p]}}

(* p writes for its batch only, and invalidates snapshots that exist.       *)
WritesBatch(p) ==
    \A b \in Blocks :
      /\ \A t \in Tables : mine[p][t][b] = "orphaned" => b \in Ledger!Displaced(job[p])
      /\ "canonical" \in {mine[p]["blocks"][b], mine[p]["rows"][b]} =>
           b \in Ledger!Elements(Applies(p))
(* What it has to roll back is there; what it has rolled back it holds, and *)
(* no snapshot of it is valid, what it has applied is canonical.            *)
BatchSoFar(p) ==
    /\ \A b \in Ledger!Elements(Rollbacks(p)) : db["blocks"][b] # "absent"
    /\ \A b \in RolledBack(p) :
         mine[p]["blocks"][b] # Untouched /\ View(p, "snapshots", b) # "canonical"
    /\ \A b \in Installed(p) :
         mine[p]["blocks"][b] = "canonical" /\ mine[p]["rows"][b] = "canonical"
(* The blocks the current item rolls back.                                  *)
OfItem(p) == IF IsRollback(p) THEN {Rollbacks(p)[item[p]]} ELSE SameHeight(Applied(p))
ItemInHand(p) ==
    /\ phase[p] \in {"header", "rows", "snapshots"} => victims[p] \subseteq OfItem(p)
    /\ phase[p] \in {"rows", "snapshots"} =>
         /\ target[p] \in OfItem(p)
         /\ IsRollback(p) => victims[p] = {} /\ mine[p]["blocks"][target[p]] # Untouched

Ingesting(p) ==
    /\ \A b \in Blocks : mine[p]["snapshots"][b] # Untouched =>
         mine[p]["snapshots"][b] = "orphaned" /\ db["snapshots"][b] # "absent"
    /\ job[p] # NoDelivery => WritesBatch(p) /\ BatchSoFar(p) /\ ItemInHand(p)
Saving(s) ==
    \A b \in Blocks :
      /\ mine[s]["blocks"][b] = Untouched /\ mine[s]["rows"][b] = Untouched
      /\ mine[s]["snapshots"][b] \in {Untouched, "canonical"}
RecordedIsThere ==
    \A e \in Deliveries : raw[Key[e]] = Sha[e] =>
      \A b \in Ledger!Elements(Apply[e]) : db["blocks"][b] # "absent"

LedgerInv ==
    /\ RecordedIsThere
    /\ \A p \in Ingesters : Ingesting(p)
    /\ \A s \in Savers : Saving(s)

(* A step of p's transaction within itself.                                 *)
Inside(p) ==
    /\ UNCHANGED <<db, raw>>
    /\ \A q \in Procs \ {p} :
         /\ mine'[q] = mine[q] /\ phase'[q] = phase[q] /\ job'[q] = job[q]
         /\ item'[q] = item[q] /\ victims'[q] = victims[q] /\ target'[q] = target[q]

LEMMA OthersKeepLedger ==
    ASSUME NEW p \in Procs, LedgerInv, Inside(p),
           p \in Ingesters => Ingesting(p)', p \in Savers => Saving(p)'
    PROVE  LedgerInv'
  <1>1. RecordedIsThere'
    BY DEF LedgerInv, RecordedIsThere, Inside
  <1>2. ASSUME NEW q \in Ingesters, q # p
        PROVE  Ingesting(q)'
    <2>1. /\ db' = db /\ mine'[q] = mine[q] /\ phase'[q] = phase[q] /\ job'[q] = job[q]
          /\ item'[q] = item[q] /\ victims'[q] = victims[q] /\ target'[q] = target[q]
      BY <1>2 DEF Inside, Procs
    <2>2. Ingesting(q)
      BY DEF LedgerInv
    <2>3. /\ Rollbacks(q)' = Rollbacks(q) /\ Applies(q)' = Applies(q)
          /\ IsRollback(q)' = IsRollback(q) /\ Applied(q)' = Applied(q)
      BY <2>1 DEF Rollbacks, Applies, IsRollback, Applied
    <2>4. /\ RolledBack(q)' = RolledBack(q) /\ Installed(q)' = Installed(q)
          /\ OfItem(q)' = OfItem(q)
      BY <2>1, <2>3 DEF RolledBack, Installed, OfItem, SameHeight
    <2>5. WritesBatch(q) => WritesBatch(q)'
      BY <2>1, <2>3 DEF WritesBatch
    <2>6. BatchSoFar(q) => BatchSoFar(q)'
      BY <2>1, <2>3, <2>4 DEF BatchSoFar, View
    <2>7. ItemInHand(q) => ItemInHand(q)'
      BY <2>1, <2>3, <2>4 DEF ItemInHand
    <2> QED
      BY <2>1, <2>2, <2>5, <2>6, <2>7 DEF Ingesting
  <1>3. ASSUME NEW s \in Savers, s # p
        PROVE  Saving(s)'
    <2>1. mine'[s] = mine[s]
      BY <1>3 DEF Inside, Procs
    <2> QED
      BY <2>1 DEF LedgerInv, Saving
  <1> QED
    BY <1>1, <1>2, <1>3 DEF LedgerInv

(* A transaction that ends without a commit leaves nothing.                 *)
LEMMA AbortKeepsLedger ==
    ASSUME NEW p \in Procs, IInv, LedgerInv, Release(p), UNCHANGED <<db, raw>>
    PROVE  LedgerInv'
  <1>1. /\ \A t \in Tables, b \in Blocks : mine'[p][t][b] = Untouched
        /\ job'[p] = NoDelivery
    BY DEF Release, Clean, IInv, TypeOK
  <1>2. Inside(p)
    BY DEF Inside, Release, IInv, TypeOK
  <1>3. Ingesting(p)' /\ Saving(p)'
    BY <1>1 DEF Ingesting, Saving
  <1> QED
    BY <1>2, <1>3, OthersKeepLedger

(* The batch of a delivery.                                                 *)
LEMMA BatchTypes ==
    ASSUME NEW p \in Procs, TypeOK, job[p] # NoDelivery
    PROVE  /\ job[p] \in Deliveries /\ item[p] \in Nat
           /\ Rollbacks(p) \in Seq(Blocks) /\ Applies(p) \in Seq(Blocks)
           /\ Len(Rollbacks(p)) \in Nat /\ Len(Applies(p)) \in Nat
           /\ DOMAIN Rollbacks(p) = 1..Len(Rollbacks(p))
           /\ DOMAIN Applies(p) = 1..Len(Applies(p))
           /\ \A i \in DOMAIN Rollbacks(p) : Rollbacks(p)[i] \in Blocks
           /\ \A i \in DOMAIN Applies(p) : Applies(p)[i] \in Blocks
  <1>1. job[p] \in Deliveries /\ item[p] \in Nat
    BY DEF TypeOK
  <1>2. Rollbacks(p) \in Seq(Blocks) /\ Applies(p) \in Seq(Blocks)
    BY <1>1 DEF Rollbacks, Applies
  <1> QED
    BY <1>1, <1>2

(* Within an item, p rolls back blocks the delivery displaces, and none of  *)
(* those it has applied.                                                    *)
LEMMA ItemDisplaces ==
    ASSUME NEW p \in Ingesters, IInv, OneBranch, ~Finished(p),
           phase[p] \in Phases \ {"idle", "insert", "commit"},
           NEW b \in OfItem(p), b \in Blocks
    PROVE  b \in Ledger!Displaced(job[p]) /\ b \notin Installed(p)
  <1>1. job[p] # NoDelivery /\ item[p] >= 1
    BY DEF IInv, TransactionOK, WorkInRange, Procs
  <1>2. TypeOK /\ p \in Procs
    BY DEF IInv, Procs
  <1> DEFINE R == Rollbacks(p)
             A == Applies(p)
  <1>3. /\ job[p] \in Deliveries /\ item[p] \in Nat /\ Len(R) \in Nat /\ Len(A) \in Nat
        /\ DOMAIN R = 1..Len(R) /\ DOMAIN A = 1..Len(A)
        /\ \A i \in DOMAIN A : A[i] \in Blocks
    BY <1>1, <1>2, BatchTypes
  <1>4. /\ Ledger!Elements(Rollback[job[p]]) = {R[i] : i \in DOMAIN R}
        /\ Ledger!Elements(Apply[job[p]]) = {A[i] : i \in DOMAIN A}
    BY DEF Ledger!Elements, Rollbacks, Applies
  <1>5. CASE IsRollback(p)
    <2>1. item[p] \in DOMAIN R
      BY <1>1, <1>3, <1>5 DEF IsRollback
    <2>2. b = R[item[p]]
      BY <1>5 DEF OfItem
    <2>3. {k \in DOMAIN A : Len(R) + k < item[p]} = {}
      BY <1>3, <1>5 DEF IsRollback
    <2>4. b \in Ledger!Elements(Rollback[job[p]])
      BY <1>4, <2>1, <2>2
    <2> QED
      BY <2>3, <2>4 DEF Ledger!Displaced, Installed
  <1>6. CASE ~IsRollback(p)
    <2> DEFINE k == item[p] - Len(R)
    <2>1. k \in DOMAIN A
      BY <1>3, <1>6 DEF IsRollback, Finished
    <2>2. b \in SameHeight(A[k])
      BY <1>6 DEF OfItem, Applied
    <2>3. A[k] \in Ledger!Elements(Apply[job[p]]) /\ A[k] # b /\ Height[A[k]] = Height[b]
      BY <1>4, <2>1, <2>2 DEF SameHeight
    <2>4. b \in Ledger!Displaced(job[p])
      BY <2>3 DEF Ledger!Displaced
    <2>5. b \notin Installed(p)
      <3> SUFFICES ASSUME NEW i \in DOMAIN A, Len(R) + i < item[p], b = A[i]
                   PROVE  FALSE
        BY DEF Installed
      <3>1. i # k
        BY <1>3
      <3>2. \A x, y \in DOMAIN A : Height[A[x]] = Height[A[y]] => x = y
        BY <1>3 DEF OneBranch, Applies
      <3> QED
        BY <2>1, <2>3, <3>1, <3>2
    <2> QED
      BY <2>4, <2>5
  <1> QED
    BY <1>5, <1>6

(* What is left to show of a statement of p concerns p's own transaction.   *)
LEMMA StatementInside ==
    ASSUME NEW p \in Ingesters, IInv, LedgerInv, Ingesting(p)',
           \/ NextItem(p) \/ RollbackHeader(p) \/ RollbackRows(p)
           \/ RollbackSnapshots(p) \/ UpsertBlock(p) \/ DeriveRows(p)
    PROVE  LedgerInv'
  <1>1. \A q \in Procs \ {p} : mine'[q] = mine[q]
    BY DEF IInv, TypeOK, NextItem, RollbackHeader, RollbackRows, RollbackSnapshots,
           UpsertBlock, DeriveRows, UpdateToOrphaned, Write
  <1>2. /\ UNCHANGED <<db, raw, job>>
        /\ \A q \in Procs \ {p} : /\ phase'[q] = phase[q] /\ item'[q] = item[q]
                                  /\ victims'[q] = victims[q] /\ target'[q] = target[q]
    BY DEF IInv, TypeOK, NextItem, RollbackHeader, RollbackRows, RollbackSnapshots,
           UpsertBlock, DeriveRows, Go, tables, env
  <1>3. Inside(p)
    BY <1>1, <1>2 DEF Inside
  <1> QED
    BY <1>3, OthersKeepLedger DEF Procs

(* What IInv and LedgerInv say of a transaction within a batch.             *)
LEMMA InBatch ==
    ASSUME NEW p \in Ingesters, IInv, LedgerInv,
           phase[p] \in Phases \ {"idle", "insert", "commit"}
    PROVE  /\ p \in Procs /\ TypeOK /\ job[p] # NoDelivery /\ item[p] >= 1
           /\ WritesBatch(p) /\ BatchSoFar(p) /\ ItemInHand(p)
           /\ \A b \in Blocks : mine[p]["snapshots"][b] # Untouched =>
                mine[p]["snapshots"][b] = "orphaned" /\ db["snapshots"][b] # "absent"
  <1>1. p \in Procs /\ TransactionOK(p) /\ TypeOK
    BY DEF IInv, Procs
  <1>2. job[p] # NoDelivery /\ item[p] >= 1
    BY <1>1 DEF TransactionOK, WorkInRange
  <1> QED
    BY <1>1, <1>2 DEF LedgerInv, Ingesting

LEMMA NextItemLedger ==
    ASSUME NEW p \in Ingesters, IInv, LedgerInv, NextItem(p)
    PROVE  LedgerInv'
  <1>1. phase[p] = "next" /\ UNCHANGED <<db, mine, job, item>> /\ phase'[p] \in {"header", "upsert"}
    BY DEF NextItem, Go, IInv, TypeOK, Procs, tables
  <1>2. /\ p \in Procs /\ TypeOK /\ job[p] # NoDelivery
        /\ WritesBatch(p) /\ BatchSoFar(p)
        /\ \A b \in Blocks : mine[p]["snapshots"][b] # Untouched =>
             mine[p]["snapshots"][b] = "orphaned" /\ db["snapshots"][b] # "absent"
    BY <1>1, InBatch
  <1>3. /\ Rollbacks(p)' = Rollbacks(p) /\ Applies(p)' = Applies(p)
        /\ IsRollback(p)' = IsRollback(p) /\ Applied(p)' = Applied(p)
    BY <1>1 DEF Rollbacks, Applies, IsRollback, Applied
  <1>4. OfItem(p)' = OfItem(p) /\ RolledBack(p)' = RolledBack(p) /\ Installed(p)' = Installed(p)
    BY <1>1, <1>3 DEF OfItem, RolledBack, Installed, SameHeight
  <1>5. WritesBatch(p)'
    BY <1>1, <1>2, <1>3 DEF WritesBatch
  <1>6. BatchSoFar(p)'
    BY <1>1, <1>2, <1>3, <1>4 DEF BatchSoFar, View
  <1>7. victims'[p] \subseteq OfItem(p)
    BY <1>2 DEF NextItem, OfItem, TypeOK
  <1>8. ItemInHand(p)'
    BY <1>1, <1>4, <1>7 DEF ItemInHand
  <1> QED
    BY <1>1, <1>2, <1>5, <1>6, <1>8, StatementInside DEF Ingesting

(* A statement of rollbackBlock writes at most one row, of the block in     *)
(* hand; what the batch has applied is left alone.                          *)
LEMMA OrphaningKeeps ==
    ASSUME NEW p \in Ingesters, NEW t \in Tables, NEW b \in Blocks, IInv, LedgerInv,
           phase[p] \in {"header", "rows", "snapshots"},
           OneBranch, b \in OfItem(p), UpdateToOrphaned(p, t, b), UNCHANGED <<db, job>>
    PROVE  /\ WritesBatch(p)'
           /\ \A c \in Blocks : \A u \in Tables :
                \/ mine'[p][u][c] = mine[p][u][c]
                \/ u = t /\ c = b /\ mine'[p][u][c] = "orphaned"
           /\ \A c \in Ledger!Elements(Rollbacks(p)) : db'["blocks"][c] # "absent"
           /\ \A c \in RolledBack(p) :
                mine'[p]["blocks"][c] # Untouched /\ View(p, "snapshots", c)' # "canonical"
           /\ \A c \in Installed(p) :
                mine'[p]["blocks"][c] = "canonical" /\ mine'[p]["rows"][c] = "canonical"
           /\ \A c \in Blocks : mine'[p]["snapshots"][c] # Untouched =>
                mine'[p]["snapshots"][c] = "orphaned" /\ db'["snapshots"][c] # "absent"
  <1>1. /\ p \in Procs /\ TypeOK /\ job[p] # NoDelivery
        /\ WritesBatch(p) /\ BatchSoFar(p)
        /\ \A c \in Blocks : mine[p]["snapshots"][c] # Untouched =>
             mine[p]["snapshots"][c] = "orphaned" /\ db["snapshots"][c] # "absent"
    BY InBatch
  <1>2. ~Finished(p)
    BY <1>1 DEF IInv, TransactionOK, WorkInRange
  <1>3. b \in Ledger!Displaced(job[p]) /\ b \notin Installed(p)
    BY <1>2, ItemDisplaces
  <1>4. \A c \in Blocks : \A u \in Tables :
          \/ mine'[p][u][c] = mine[p][u][c]
          \/ u = t /\ c = b /\ mine'[p][u][c] = "orphaned"
    <2>1. UNCHANGED mine \/ mine' = [mine EXCEPT ![p][t][b] = "orphaned"]
      BY DEF UpdateToOrphaned, Write
    <2>2. mine \in [Procs -> [Tables -> [Blocks -> Flags \cup {Untouched}]]]
      BY <1>1 DEF TypeOK
    <2>3. ASSUME NEW c \in Blocks, NEW u \in Tables, mine' = [mine EXCEPT ![p][t][b] = "orphaned"]
          PROVE  mine'[p][u][c] = IF u = t /\ c = b THEN "orphaned" ELSE mine[p][u][c]
      <3>1. mine'[p] = [mine[p] EXCEPT ![t][b] = "orphaned"]
        BY <1>1, <2>2, <2>3
      <3>2. mine'[p][u] = IF u = t THEN [mine[p][t] EXCEPT ![b] = "orphaned"] ELSE mine[p][u]
        BY <1>1, <2>2, <3>1
      <3> QED
        BY <1>1, <2>2, <3>2
    <2> QED
      BY <2>1, <2>3
  <1>5. Rollbacks(p)' = Rollbacks(p) /\ Applies(p)' = Applies(p) /\ job'[p] = job[p]
    BY DEF Rollbacks, Applies
  <1>6. WritesBatch(p)'
    <2> SUFFICES ASSUME NEW c \in Blocks
                 PROVE  /\ \A u \in Tables : mine'[p][u][c] = "orphaned" =>
                             c \in Ledger!Displaced(job[p])
                        /\ "canonical" \in {mine'[p]["blocks"][c], mine'[p]["rows"][c]} =>
                             c \in Ledger!Elements(Applies(p))
      BY <1>5 DEF WritesBatch
    <2>1. /\ \A u \in Tables : mine[p][u][c] = "orphaned" => c \in Ledger!Displaced(job[p])
          /\ "canonical" \in {mine[p]["blocks"][c], mine[p]["rows"][c]} =>
               c \in Ledger!Elements(Applies(p))
      BY <1>1 DEF WritesBatch
    <2> QED
      BY <1>3, <1>4, <2>1
  <1>7. RolledBack(p) \subseteq Blocks /\ Installed(p) \subseteq Blocks
    BY <1>1, BatchTypes DEF RolledBack, Installed
  <1>8. \A c \in RolledBack(p) : mine'[p]["blocks"][c] # Untouched
    BY <1>1, <1>4, <1>7 DEF BatchSoFar
  <1>9. \A c \in RolledBack(p) : View(p, "snapshots", c)' # "canonical"
    <2> SUFFICES ASSUME NEW c \in RolledBack(p) PROVE View(p, "snapshots", c)' # "canonical"
      OBVIOUS
    <2>1. View(p, "snapshots", c) # "canonical"
      BY <1>1 DEF BatchSoFar
    <2>2. \/ mine'[p]["snapshots"][c] = mine[p]["snapshots"][c]
          \/ mine'[p]["snapshots"][c] = "orphaned"
      BY <1>4, <1>7
    <2> QED
      BY <2>1, <2>2 DEF View
  <1>10. \A c \in Installed(p) :
           mine'[p]["blocks"][c] = "canonical" /\ mine'[p]["rows"][c] = "canonical"
    BY <1>1, <1>3, <1>4, <1>7 DEF BatchSoFar
  <1>11. ASSUME NEW c \in Blocks, mine'[p]["snapshots"][c] # Untouched
         PROVE  mine'[p]["snapshots"][c] = "orphaned" /\ db'["snapshots"][c] # "absent"
    <2>1. CASE mine[p]["snapshots"][c] # Untouched
      BY <1>1, <1>4, <2>1
    <2>2. CASE mine[p]["snapshots"][c] = Untouched
      <3>1. t = "snapshots" /\ c = b /\ mine'[p]["snapshots"][c] = "orphaned"
        BY <1>4, <1>11, <2>2
      <3>2. Qualifies(p, "snapshots", b)
        BY <1>11, <2>2, <3>1 DEF UpdateToOrphaned
      <3>3. db["snapshots"][b] = "canonical"
        BY <2>2, <3>1, <3>2 DEF Qualifies, View
      <3> QED
        BY <3>1, <3>3
    <2> QED
      BY <2>1, <2>2
  <1> QED
    BY <1>1, <1>4, <1>6, <1>8, <1>9, <1>10, <1>11 DEF BatchSoFar

LEMMA HeaderLedger ==
    ASSUME NEW p \in Ingesters, IInv, LedgerInv, OneBranch, RollbackHeader(p)
    PROVE  LedgerInv'
  <1>1. /\ phase[p] = "header" /\ phase'[p] = "rows"
        /\ UNCHANGED <<db, job, item>>
    BY DEF RollbackHeader, Go, IInv, TypeOK, Procs, tables
  <1>2. /\ p \in Procs /\ TypeOK /\ job[p] # NoDelivery /\ ItemInHand(p) /\ BatchSoFar(p)
    BY <1>1, InBatch
  <1>3. PICK b \in victims[p] : /\ UpdateToOrphaned(p, "blocks", b)
                                /\ target' = [target EXCEPT ![p] = b]
                                /\ victims' = [victims EXCEPT ![p] = @ \ {b}]
    BY DEF RollbackHeader
  <1>4. b \in Blocks /\ b \in OfItem(p)
    BY <1>1, <1>2, <1>3 DEF TypeOK, ItemInHand
  <1>5. target'[p] = b /\ victims'[p] = victims[p] \ {b}
    BY <1>2, <1>3 DEF TypeOK
  <1>6. /\ WritesBatch(p)'
        /\ \A c \in Blocks : \A u \in Tables :
             \/ mine'[p][u][c] = mine[p][u][c]
             \/ u = "blocks" /\ c = b /\ mine'[p][u][c] = "orphaned"
        /\ \A c \in Ledger!Elements(Rollbacks(p)) : db'["blocks"][c] # "absent"
        /\ \A c \in RolledBack(p) :
             mine'[p]["blocks"][c] # Untouched /\ View(p, "snapshots", c)' # "canonical"
        /\ \A c \in Installed(p) :
             mine'[p]["blocks"][c] = "canonical" /\ mine'[p]["rows"][c] = "canonical"
        /\ \A c \in Blocks : mine'[p]["snapshots"][c] # Untouched =>
             mine'[p]["snapshots"][c] = "orphaned" /\ db'["snapshots"][c] # "absent"
    BY <1>1, <1>3, <1>4, OrphaningKeeps
  <1>7. /\ Rollbacks(p)' = Rollbacks(p) /\ Applies(p)' = Applies(p)
        /\ IsRollback(p)' = IsRollback(p) /\ Applied(p)' = Applied(p)
    BY <1>1 DEF Rollbacks, Applies, IsRollback, Applied
  <1>8. OfItem(p)' = OfItem(p) /\ RolledBack(p)' = RolledBack(p) /\ Installed(p)' = Installed(p)
    BY <1>1, <1>7 DEF OfItem, RolledBack, Installed, SameHeight
  <1>9. BatchSoFar(p)'
    BY <1>6, <1>7, <1>8 DEF BatchSoFar
  <1>10. ASSUME IsRollback(p)
         PROVE  victims'[p] = {} /\ mine'[p]["blocks"][b] # Untouched
    <2>1. OfItem(p) = {b} /\ victims[p] \subseteq {b}
      BY <1>1, <1>2, <1>4, <1>10 DEF OfItem, ItemInHand
    <2>2. item[p] \in DOMAIN Rollbacks(p) /\ b = Rollbacks(p)[item[p]]
      <3>1. item[p] >= 1
        BY <1>1, InBatch
      <3> QED
        BY <1>2, <1>4, <1>10, <3>1, BatchTypes DEF IsRollback, OfItem
    <2>3. db["blocks"][b] # "absent"
      BY <1>2, <2>2 DEF BatchSoFar, Ledger!Elements
    <2>4. mine[p]["blocks"][b] # "absent"
      BY <1>2, <1>4 DEF IInv, TransactionOK, WritesInside
    <2>5. Qualifies(p, "blocks", b)
      BY <1>2, <1>4, <2>3, <2>4 DEF Qualifies, View, TypeOK
    <2>6. mine'[p]["blocks"][b] = "orphaned"
      BY <1>2, <1>3, <1>4, <2>5 DEF UpdateToOrphaned, Write, TypeOK
    <2> QED
      BY <1>5, <2>1, <2>6
  <1>11. ItemInHand(p)'
    <2>1. victims'[p] \subseteq OfItem(p)' /\ target'[p] \in OfItem(p)'
      BY <1>1, <1>2, <1>4, <1>5, <1>8 DEF ItemInHand
    <2> QED
      BY <1>5, <1>7, <1>10, <2>1 DEF ItemInHand
  <1> QED
    BY <1>1, <1>6, <1>9, <1>11, StatementInside DEF Ingesting

LEMMA RowsLedger ==
    ASSUME NEW p \in Ingesters, IInv, LedgerInv, OneBranch, RollbackRows(p)
    PROVE  LedgerInv'
  <1>1. /\ phase[p] = "rows" /\ phase'[p] = "snapshots"
        /\ UNCHANGED <<db, job, item, victims, target>>
        /\ UpdateToOrphaned(p, "rows", target[p])
    BY DEF RollbackRows, Go, IInv, TypeOK, Procs, tables
  <1>2. /\ p \in Procs /\ TypeOK /\ job[p] # NoDelivery /\ ItemInHand(p) /\ BatchSoFar(p)
    BY <1>1, InBatch
  <1> PICK b : b = target[p]
    OBVIOUS
  <1>3. b \in OfItem(p)
    BY <1>1, <1>2 DEF ItemInHand
  <1>4. b \in Blocks
    <2>1. ~Finished(p) /\ item[p] >= 1
      BY <1>1, <1>2 DEF IInv, TransactionOK, WorkInRange
    <2>2. CASE IsRollback(p)
      BY <1>2, <1>3, <2>1, <2>2, BatchTypes DEF OfItem, IsRollback
    <2>3. CASE ~IsRollback(p)
      BY <1>3, <2>3 DEF OfItem, SameHeight
    <2> QED
      BY <2>2, <2>3
  <1>5. /\ WritesBatch(p)'
        /\ \A c \in Blocks : \A u \in Tables :
             \/ mine'[p][u][c] = mine[p][u][c]
             \/ u = "rows" /\ c = b /\ mine'[p][u][c] = "orphaned"
        /\ \A c \in Ledger!Elements(Rollbacks(p)) : db'["blocks"][c] # "absent"
        /\ \A c \in RolledBack(p) :
             mine'[p]["blocks"][c] # Untouched /\ View(p, "snapshots", c)' # "canonical"
        /\ \A c \in Installed(p) :
             mine'[p]["blocks"][c] = "canonical" /\ mine'[p]["rows"][c] = "canonical"
        /\ \A c \in Blocks : mine'[p]["snapshots"][c] # Untouched =>
             mine'[p]["snapshots"][c] = "orphaned" /\ db'["snapshots"][c] # "absent"
    BY <1>1, <1>3, <1>4, OrphaningKeeps
  <1>6. /\ Rollbacks(p)' = Rollbacks(p) /\ Applies(p)' = Applies(p)
        /\ IsRollback(p)' = IsRollback(p) /\ Applied(p)' = Applied(p)
    BY <1>1 DEF Rollbacks, Applies, IsRollback, Applied
  <1>7. OfItem(p)' = OfItem(p) /\ RolledBack(p)' = RolledBack(p) /\ Installed(p)' = Installed(p)
    BY <1>1, <1>6 DEF OfItem, RolledBack, Installed, SameHeight
  <1>8. BatchSoFar(p)'
    BY <1>5, <1>6, <1>7 DEF BatchSoFar
  <1>9. mine'[p]["blocks"][b] = mine[p]["blocks"][b]
    BY <1>4, <1>5
  <1>10. ItemInHand(p)'
    BY <1>1, <1>2, <1>6, <1>7, <1>9 DEF ItemInHand
  <1> QED
    BY <1>1, <1>5, <1>8, <1>10, StatementInside DEF Ingesting

LEMMA SnapshotsLedger ==
    ASSUME NEW p \in Ingesters, IInv, LedgerInv, OneBranch, RollbackSnapshots(p)
    PROVE  LedgerInv'
  <1>1. /\ phase[p] = "snapshots" /\ UNCHANGED <<db, job, victims>>
        /\ phase'[p] = IF victims[p] # {} THEN "header" ELSE IF IsRollback(p) THEN "next" ELSE "upsert"
        /\ item'[p] = IF victims[p] = {} /\ IsRollback(p) THEN item[p] + 1 ELSE item[p]
        /\ UpdateToOrphaned(p, "snapshots", target[p])
    BY DEF RollbackSnapshots, Go, IInv, TypeOK, Procs, tables
  <1>2. /\ p \in Procs /\ TypeOK /\ job[p] # NoDelivery /\ ItemInHand(p) /\ BatchSoFar(p)
    BY <1>1, InBatch
  <1> PICK b : b = target[p]
    OBVIOUS
  <1>3. b \in OfItem(p) /\ (IsRollback(p) => victims[p] = {} /\ mine[p]["blocks"][b] # Untouched)
    BY <1>1, <1>2 DEF ItemInHand
  <1>4. ~Finished(p) /\ item[p] >= 1
    BY <1>1, <1>2 DEF IInv, TransactionOK, WorkInRange
  <1>5. b \in Blocks
    BY <1>2, <1>3, <1>4, BatchTypes DEF OfItem, IsRollback, SameHeight
  <1>6. /\ WritesBatch(p)'
        /\ \A c \in Blocks : \A u \in Tables :
             \/ mine'[p][u][c] = mine[p][u][c]
             \/ u = "snapshots" /\ c = b /\ mine'[p][u][c] = "orphaned"
        /\ \A c \in Ledger!Elements(Rollbacks(p)) : db'["blocks"][c] # "absent"
        /\ \A c \in RolledBack(p) :
             mine'[p]["blocks"][c] # Untouched /\ View(p, "snapshots", c)' # "canonical"
        /\ \A c \in Installed(p) :
             mine'[p]["blocks"][c] = "canonical" /\ mine'[p]["rows"][c] = "canonical"
        /\ \A c \in Blocks : mine'[p]["snapshots"][c] # Untouched =>
             mine'[p]["snapshots"][c] = "orphaned" /\ db'["snapshots"][c] # "absent"
    BY <1>1, <1>3, <1>5, OrphaningKeeps
  <1>7. Rollbacks(p)' = Rollbacks(p) /\ Applies(p)' = Applies(p)
    BY <1>1 DEF Rollbacks, Applies
  <1>8. CASE IsRollback(p)
    <2>1. item'[p] = item[p] + 1 /\ phase'[p] = "next"
      BY <1>1, <1>3, <1>8
    <2>2. View(p, "snapshots", b)' # "canonical" /\ mine'[p]["blocks"][b] # Untouched
      <3>1. mine'[p]["blocks"][b] = mine[p]["blocks"][b]
        BY <1>5, <1>6
      <3>2. \/ UNCHANGED mine /\ View(p, "snapshots", b) # "canonical"
            \/ mine' = [mine EXCEPT ![p]["snapshots"][b] = "orphaned"]
        BY <1>1 DEF UpdateToOrphaned, Write, Qualifies
      <3>3. CASE UNCHANGED mine /\ View(p, "snapshots", b) # "canonical"
        BY <1>1, <1>3, <1>8, <3>1, <3>3 DEF View
      <3>4. CASE mine' = [mine EXCEPT ![p]["snapshots"][b] = "orphaned"]
        <4>1. mine'[p]["snapshots"][b] = "orphaned"
          BY <1>2, <1>5, <3>4 DEF TypeOK
        <4> QED
          BY <1>3, <1>8, <3>1, <4>1 DEF View
      <3> QED
        BY <3>2, <3>3, <3>4
    <2>3. \A c \in RolledBack(p)' : c \in RolledBack(p) \/ c = b
      <3> SUFFICES ASSUME NEW i \in DOMAIN Rollbacks(p), i < item[p] + 1
                   PROVE  Rollbacks(p)[i] \in RolledBack(p) \/ Rollbacks(p)[i] = b
        BY <1>7, <2>1 DEF RolledBack
      <3>1. i \in Nat /\ item[p] \in Nat
        BY <1>2, BatchTypes
      <3>2. i < item[p] \/ i = item[p]
        BY <3>1
      <3> QED
        BY <1>3, <1>8, <3>2 DEF RolledBack, OfItem
    <2>4. Installed(p)' \subseteq Installed(p)
      <3>1. \A k \in DOMAIN Applies(p) : ~(Len(Rollbacks(p)) + k < item[p] + 1)
        BY <1>2, <1>8, BatchTypes DEF IsRollback
      <3> QED
        BY <1>7, <2>1, <3>1 DEF Installed
    <2>5. BatchSoFar(p)'
      BY <1>6, <1>7, <2>2, <2>3, <2>4 DEF BatchSoFar
    <2>6. ItemInHand(p)'
      BY <2>1 DEF ItemInHand
    <2> QED
      BY <1>6, <2>5, <2>6, StatementInside DEF Ingesting
  <1>9. CASE ~IsRollback(p)
    <2>1. item'[p] = item[p] /\ phase'[p] \in {"header", "upsert"}
      BY <1>1, <1>9
    <2>2. RolledBack(p)' = RolledBack(p) /\ Installed(p)' = Installed(p)
      BY <1>7, <2>1 DEF RolledBack, Installed
    <2>3. OfItem(p)' = OfItem(p)
      BY <1>7, <2>1 DEF OfItem, IsRollback, Applied, SameHeight
    <2>4. BatchSoFar(p)'
      BY <1>6, <1>7, <2>2 DEF BatchSoFar
    <2>5. ItemInHand(p)'
      BY <1>1, <1>2, <2>1, <2>3 DEF ItemInHand
    <2> QED
      BY <1>6, <2>4, <2>5, StatementInside DEF Ingesting
  <1> QED
    BY <1>8, <1>9

LEMMA UpsertLedger ==
    ASSUME NEW p \in Ingesters, IInv, LedgerInv, UpsertBlock(p)
    PROVE  LedgerInv'
  <1> DEFINE b == Applied(p)
  <1>1. /\ phase[p] = "upsert" /\ phase'[p] = "derive" /\ UNCHANGED <<db, job, item>>
        /\ mine' = [mine EXCEPT ![p]["blocks"][b] = "canonical"]
    BY DEF UpsertBlock, Go, Write, IInv, TypeOK, Procs, tables
  <1>2. /\ p \in Procs /\ TypeOK /\ job[p] # NoDelivery /\ item[p] >= 1
        /\ WritesBatch(p) /\ BatchSoFar(p)
        /\ \A c \in Blocks : mine[p]["snapshots"][c] # Untouched =>
             mine[p]["snapshots"][c] = "orphaned" /\ db["snapshots"][c] # "absent"
    BY <1>1, InBatch
  <1>3. ~Finished(p) /\ ~IsRollback(p)
    BY <1>1, <1>2 DEF IInv, TransactionOK, WorkInRange
  <1>4. b \in Blocks /\ b \in Ledger!Elements(Applies(p))
    BY <1>2, <1>3, BatchTypes DEF Applied, Finished, IsRollback, Ledger!Elements
  <1> HIDE DEF b
  <1>5. \A t \in Tables, c \in Blocks :
          mine'[p][t][c] = IF t = "blocks" /\ c = b THEN "canonical" ELSE mine[p][t][c]
    BY <1>1, <1>2, <1>4 DEF TypeOK
  <1>6. Rollbacks(p)' = Rollbacks(p) /\ Applies(p)' = Applies(p)
    BY <1>1 DEF Rollbacks, Applies
  <1>7. RolledBack(p)' = RolledBack(p) /\ Installed(p)' = Installed(p)
    BY <1>1, <1>6 DEF RolledBack, Installed
  <1>8. RolledBack(p) \subseteq Blocks /\ Installed(p) \subseteq Blocks
    BY <1>2, BatchTypes DEF RolledBack, Installed
  <1>9. WritesBatch(p)'
    BY <1>1, <1>2, <1>4, <1>5, <1>6 DEF WritesBatch
  <1>10. BatchSoFar(p)'
    BY <1>1, <1>2, <1>5, <1>6, <1>7, <1>8 DEF BatchSoFar, View
  <1>11. ItemInHand(p)'
    BY <1>1 DEF ItemInHand
  <1> QED
    BY <1>1, <1>2, <1>5, <1>9, <1>10, <1>11, StatementInside DEF Ingesting

LEMMA DeriveLedger ==
    ASSUME NEW p \in Ingesters, IInv, LedgerInv, DeriveRows(p)
    PROVE  LedgerInv'
  <1> DEFINE b == Applied(p)
  <1>1. /\ phase[p] = "derive" /\ phase'[p] = "next" /\ UNCHANGED <<db, job>>
        /\ item'[p] = item[p] + 1
        /\ mine' = [mine EXCEPT ![p]["rows"][b] = "canonical"]
    BY DEF DeriveRows, Go, Write, IInv, TypeOK, Procs, tables
  <1>2. /\ p \in Procs /\ TypeOK /\ job[p] # NoDelivery /\ item[p] >= 1
        /\ WritesBatch(p) /\ BatchSoFar(p)
        /\ \A c \in Blocks : mine[p]["snapshots"][c] # Untouched =>
             mine[p]["snapshots"][c] = "orphaned" /\ db["snapshots"][c] # "absent"
    BY <1>1, InBatch
  <1>3. ~Finished(p) /\ ~IsRollback(p) /\ mine[p]["blocks"][b] = "canonical"
    BY <1>1, <1>2 DEF IInv, TransactionOK, WorkInRange, WrittenUnderLock
  <1>4. b \in Blocks /\ b \in Ledger!Elements(Applies(p))
    BY <1>2, <1>3, BatchTypes DEF Applied, Finished, IsRollback, Ledger!Elements
  <1>5. \A t \in Tables, c \in Blocks :
          mine'[p][t][c] = IF t = "rows" /\ c = b THEN "canonical" ELSE mine[p][t][c]
    <2> HIDE DEF b
    <2> QED
      BY <1>1, <1>2, <1>4 DEF TypeOK
  <1>6. Rollbacks(p)' = Rollbacks(p) /\ Applies(p)' = Applies(p)
    BY <1>1 DEF Rollbacks, Applies
  <1>7. RolledBack(p)' \subseteq RolledBack(p)
    <2>1. \A k \in DOMAIN Rollbacks(p) : k < item[p]
      BY <1>2, <1>3, BatchTypes DEF IsRollback
    <2> QED
      BY <1>1, <1>6, <2>1 DEF RolledBack
  <1>8. \A c \in Installed(p)' : c \in Installed(p) \/ c = b
    <2> SUFFICES ASSUME NEW k \in DOMAIN Applies(p), Len(Rollbacks(p)) + k < item[p] + 1
                 PROVE  Applies(p)[k] \in Installed(p) \/ Applies(p)[k] = b
      BY <1>1, <1>6 DEF Installed
    <2>1. k \in Nat /\ item[p] \in Nat /\ Len(Rollbacks(p)) \in Nat
      BY <1>2, BatchTypes
    <2>2. Len(Rollbacks(p)) + k < item[p] \/ k = item[p] - Len(Rollbacks(p))
      <3> SUFFICES ASSUME NEW n \in Nat, NEW i \in Nat, n + k < i + 1
                   PROVE  n + k < i \/ k = i - n
        BY <2>1
      <3> QED
        BY <2>1
    <2> QED
      BY <2>2 DEF Installed, Applied
  <1>9. RolledBack(p) \subseteq Blocks /\ Installed(p) \subseteq Blocks
    BY <1>2, BatchTypes DEF RolledBack, Installed
  <1> HIDE DEF b
  <1>10. WritesBatch(p)'
    BY <1>1, <1>2, <1>4, <1>5, <1>6 DEF WritesBatch
  <1>11. BatchSoFar(p)'
    <2>1. \A c \in RolledBack(p)' :
            mine'[p]["blocks"][c] # Untouched /\ View(p, "snapshots", c)' # "canonical"
      BY <1>1, <1>2, <1>5, <1>7, <1>9 DEF BatchSoFar, View
    <2>2. \A c \in Installed(p)' :
            mine'[p]["blocks"][c] = "canonical" /\ mine'[p]["rows"][c] = "canonical"
      BY <1>2, <1>3, <1>4, <1>5, <1>8, <1>9 DEF BatchSoFar
    <2> QED
      BY <1>1, <1>2, <1>6, <2>1, <2>2 DEF BatchSoFar
  <1>12. ItemInHand(p)'
    BY <1>1 DEF ItemInHand
  <1> QED
    BY <1>1, <1>2, <1>5, <1>10, <1>11, <1>12, StatementInside, SMTT(30) DEF Ingesting

(* A delivery comes once those before it were answered, so recorded, so     *)
(* that what it rolls back is in the table.                                 *)
LEMMA ClaimLedger ==
    ASSUME NEW p \in Ingesters, NEW d \in Deliveries, IInv, LedgerInv,
           RollbacksFollow, ClaimDelivery(p, d)
    PROVE  LedgerInv'
  <1>1. /\ phase[p] = "idle" /\ phase'[p] = "next" /\ job'[p] = d /\ item'[p] = 1
        /\ UNCHANGED <<db, raw, mine, victims, target>>
    BY DEF ClaimDelivery, Go, IInv, TypeOK, Procs, tables
  <1>2. p \in Procs /\ TypeOK /\ TransactionOK(p) /\ AcknowledgedIsRecorded
    BY DEF IInv, Procs, TablesOK
  <1>3. \A t \in Tables, b \in Blocks : mine'[p][t][b] = Untouched
    BY <1>1, <1>2 DEF TransactionOK, WritesInside
  <1>4. \A b \in Ledger!Elements(Rollback[d]) : db["blocks"][b] # "absent"
    <2> SUFFICES ASSUME NEW i \in DOMAIN Rollback[d]
                 PROVE  db["blocks"][Rollback[d][i]] # "absent"
      BY DEF Ledger!Elements
    <2>1. PICK e \in Before[d] : Rollback[d][i] \in Ledger!Elements(Apply[e])
      BY DEF RollbacksFollow
    <2>2. e \in acked /\ e \in Deliveries
      BY <2>1 DEF ClaimDelivery, Send, RollbacksFollow
    <2>3. raw[Key[e]] = Sha[e]
      BY <1>2, <2>2 DEF AcknowledgedIsRecorded
    <2> QED
      BY <2>1, <2>2, <2>3 DEF LedgerInv, RecordedIsThere
  <1>5. Rollbacks(p)' = Rollback[d] /\ Applies(p)' = Apply[d]
    BY <1>1 DEF Rollbacks, Applies
  <1>6. RolledBack(p)' = {}
    BY <1>1, <1>5 DEF RolledBack
  <1>7. Installed(p)' = {}
    <2>1. Len(Rollback[d]) \in Nat /\ \A k \in DOMAIN Apply[d] : k \in Nat /\ k >= 1
      OBVIOUS
    <2> QED
      BY <1>1, <1>5, <2>1 DEF Installed
  <1>8. WritesBatch(p)'
    BY <1>3 DEF WritesBatch
  <1>9. BatchSoFar(p)'
    BY <1>1, <1>4, <1>5, <1>6, <1>7 DEF BatchSoFar
  <1>10. Ingesting(p)'
    BY <1>1, <1>3, <1>8, <1>9 DEF Ingesting, ItemInHand
  <1>11. Inside(p)
    BY <1>1, <1>2 DEF Inside, ClaimDelivery, Go, TypeOK
  <1> QED
    BY <1>2, <1>10, <1>11, OthersKeepLedger

LEMMA SaverLedger ==
    ASSUME NEW s \in Savers, IInv, LedgerInv,
           (\E b \in Blocks : LockSnapshotBlock(s, b)) \/ InsertSnapshot(s)
    PROVE  LedgerInv'
  <1>1. s \in Procs /\ TypeOK /\ Saving(s)
    BY DEF IInv, Procs, LedgerInv
  <1>2. \/ UNCHANGED mine
        \/ mine' = [mine EXCEPT ![s]["snapshots"][target[s]] = "canonical"]
    BY DEF LockSnapshotBlock, InsertSnapshot, Write
  <1>3. Saving(s)'
    <2>1. CASE UNCHANGED mine
      BY <1>1, <2>1 DEF Saving
    <2>2. CASE mine' = [mine EXCEPT ![s]["snapshots"][target[s]] = "canonical"]
      <3>1. \A t \in Tables, b \in Blocks :
              \/ mine'[s][t][b] = mine[s][t][b]
              \/ t = "snapshots" /\ mine'[s][t][b] = "canonical"
        BY <1>1, <2>2 DEF TypeOK
      <3> QED
        BY <1>1, <3>1 DEF Saving
    <2> QED
      BY <1>2, <2>1, <2>2
  <1>4. UNCHANGED <<db, raw, job, item, victims>>
        /\ \A q \in Procs \ {s} : phase'[q] = phase[q] /\ target'[q] = target[q] /\ mine'[q] = mine[q]
    BY <1>1, <1>2 DEF LockSnapshotBlock, InsertSnapshot, Go, TypeOK, tables
  <1>5. Inside(s)
    BY <1>4 DEF Inside
  <1>6. s \notin Ingesters
    OBVIOUS
  <1> QED
    BY <1>1, <1>3, <1>5, <1>6, OthersKeepLedger

(* A commit takes no row away, and makes nobody's snapshot valid whose      *)
(* block another transaction has in hand.                                   *)
LEMMA CommitOthersLedger ==
    ASSUME NEW p \in Procs, IInv, LedgerInv, Merge(p), Release(p), RecordedIsThere'
    PROVE  LedgerInv'
  <1>1. TypeOK /\ TransactionOK(p)
    BY DEF IInv
  <1>2. /\ \A t \in Tables, b \in Blocks : mine'[p][t][b] = Untouched
        /\ job'[p] = NoDelivery
    BY <1>1 DEF Release, Clean, TypeOK
  <1>3. \A q \in Procs \ {p} :
          /\ mine'[q] = mine[q] /\ phase'[q] = phase[q] /\ job'[q] = job[q]
          /\ item'[q] = item[q] /\ victims'[q] = victims[q] /\ target'[q] = target[q]
    BY <1>1 DEF Release, TypeOK
  <1>4. \A t \in Tables, b \in Blocks :
          db'[t][b] = IF mine[p][t][b] = Untouched THEN db[t][b] ELSE mine[p][t][b]
    BY DEF Merge, View
  <1>5. \A t \in Tables, b \in Blocks : db[t][b] # "absent" => db'[t][b] # "absent"
    BY <1>1, <1>4 DEF TransactionOK, WritesInside
  <1>6. ASSUME NEW q \in Ingesters, q # p
        PROVE  Ingesting(q)'
    <2>1. /\ mine'[q] = mine[q] /\ phase'[q] = phase[q] /\ job'[q] = job[q]
          /\ item'[q] = item[q] /\ victims'[q] = victims[q] /\ target'[q] = target[q]
      BY <1>3, <1>6 DEF Procs
    <2>2. Ingesting(q) /\ q \in Procs
      BY DEF LedgerInv, Procs
    <2>3. /\ Rollbacks(q)' = Rollbacks(q) /\ Applies(q)' = Applies(q)
          /\ IsRollback(q)' = IsRollback(q) /\ Applied(q)' = Applied(q)
      BY <2>1 DEF Rollbacks, Applies, IsRollback, Applied
    <2>4. /\ RolledBack(q)' = RolledBack(q) /\ Installed(q)' = Installed(q)
          /\ OfItem(q)' = OfItem(q)
      BY <2>1, <2>3 DEF RolledBack, Installed, OfItem, SameHeight
    <2>5. WritesBatch(q) => WritesBatch(q)'
      BY <2>1, <2>3 DEF WritesBatch
    <2>6. ASSUME BatchSoFar(q), job[q] # NoDelivery PROVE BatchSoFar(q)'
      <3>1. \A b \in RolledBack(q) : b \in Blocks
        BY <1>1, <2>2, <2>6, BatchTypes DEF RolledBack
      <3>2. \A b \in Ledger!Elements(Rollbacks(q)) : b \in Blocks
        BY <1>1, <2>2, <2>6, BatchTypes DEF Ledger!Elements
      <3>3. ASSUME NEW b \in RolledBack(q)
            PROVE  View(q, "snapshots", b)' # "canonical"
        <4>1. mine[q]["blocks"][b] # Untouched /\ View(q, "snapshots", b) # "canonical"
          BY <2>6 DEF BatchSoFar
        <4>2. Apart(p, q) /\ b \in Blocks /\ NoBlock \notin Blocks
          BY <1>6, <2>2, <3>1 DEF IInv
        <4>3. mine[p]["snapshots"][b] # "canonical"
          <5> SUFFICES ASSUME mine[p]["snapshots"][b] = "canonical" PROVE FALSE
            OBVIOUS
          <5>1. shared[p] = b
            BY <1>1, <4>2 DEF TransactionOK, WrittenUnderLock
          <5> QED
            BY <4>1, <4>2, <5>1 DEF Apart
        <4>4. View(q, "snapshots", b)' \in {View(q, "snapshots", b), mine[p]["snapshots"][b]}
          BY <1>4, <2>1, <4>2 DEF View
        <4> QED
          BY <4>1, <4>3, <4>4
      <3>4. \A b \in Ledger!Elements(Rollbacks(q)) : db'["blocks"][b] # "absent"
        BY <1>5, <2>6, <3>2 DEF BatchSoFar
      <3> QED
        BY <2>1, <2>3, <2>4, <2>6, <3>3, <3>4 DEF BatchSoFar
    <2>7. ItemInHand(q) => ItemInHand(q)'
      BY <2>1, <2>3, <2>4 DEF ItemInHand
    <2> QED
      BY <1>5, <2>1, <2>2, <2>5, <2>6, <2>7 DEF Ingesting
  <1>7. ASSUME NEW s \in Savers, s # p
        PROVE  Saving(s)'
    <2>1. mine'[s] = mine[s]
      BY <1>3, <1>7 DEF Procs
    <2> QED
      BY <2>1 DEF LedgerInv, Saving
  <1>8. Ingesting(p)' /\ Saving(p)'
    BY <1>2 DEF Ingesting, Saving
  <1> QED
    BY <1>6, <1>7, <1>8 DEF LedgerInv

(* At the end of its batch, a transaction holds exactly what its delivery   *)
(* does to the chain.                                                       *)
LEMMA WholeBatch ==
    ASSUME NEW p \in Ingesters, IInv, LedgerInv, OneBranch, CommitDelivery(p),
           NEW d, d = job[p]
    PROVE  /\ d \in Deliveries
           /\ Ledger!Installed(d) = Installed(p)
           /\ \A b \in Ledger!Elements(Apply[d]) : b \in Installed(p)
           /\ \A b \in Ledger!Elements(Rollback[d]) : b \in RolledBack(p)
           /\ Installed(p) \subseteq Blocks
           /\ WritesBatch(p) /\ BatchSoFar(p)
  <1>1. phase[p] = "next" /\ Finished(p)
    BY DEF CommitDelivery
  <1>2. /\ p \in Procs /\ TypeOK /\ d # NoDelivery /\ WritesBatch(p) /\ BatchSoFar(p)
    BY <1>1, InBatch
  <1> DEFINE R == Rollbacks(p)
             A == Applies(p)
  <1>3. /\ d \in Deliveries /\ item[p] \in Nat /\ Len(R) \in Nat /\ Len(A) \in Nat
        /\ DOMAIN R = 1..Len(R) /\ DOMAIN A = 1..Len(A) /\ R = Rollback[d] /\ A = Apply[d]
        /\ \A i \in DOMAIN A : A[i] \in Blocks
    BY <1>2, BatchTypes DEF Rollbacks, Applies
  <1>4. item[p] > Len(R) + Len(A)
    BY <1>1 DEF Finished
  <1>5. \A i \in DOMAIN R : i < item[p]
    BY <1>3, <1>4
  <1>6. \A k \in DOMAIN A : Len(R) + k < item[p]
    BY <1>3, <1>4
  <1>7. RolledBack(p) = {R[i] : i \in DOMAIN R} /\ Installed(p) = {A[i] : i \in DOMAIN A}
    BY <1>5, <1>6 DEF RolledBack, Installed
  <1>8. \A j, k \in DOMAIN A : k > j => Height[A[k]] # Height[A[j]]
    <2>1. \A j, k \in DOMAIN A : Height[A[k]] = Height[A[j]] => k = j
      BY <1>3 DEF OneBranch
    <2>2. \A j, k \in DOMAIN A : k > j => k # j
      BY <1>3
    <2> HIDE DEF A
    <2> QED
      BY <2>1, <2>2
  <1>9. Ledger!Installed(d) = {A[i] : i \in DOMAIN A}
    <2> DEFINE Last == {j \in DOMAIN Apply[d] : \A k \in DOMAIN Apply[d] :
                          k > j => \/ Height[Apply[d][k]] # Height[Apply[d][j]]
                                   \/ Apply[d][k] = Apply[d][j]}
    <2>1. Ledger!Installed(d) = {Apply[d][i] : i \in Last}
      BY DEF Ledger!Installed
    <2>2. A = Apply[d]
      BY <1>3
    <2> HIDE DEF A
    <2>3. Last = DOMAIN A
      BY <1>8, <2>2
    <2> HIDE DEF Last
    <2> QED
      BY <2>1, <2>2, <2>3
  <1> QED
    BY <1>2, <1>3, <1>7, <1>9 DEF Ledger!Elements

(* The blocks a commit leaves are those of the ledger: what it displaced is *)
(* off the chain unless it installed it again.                              *)
LEMMA CommittedBlocks ==
    ASSUME NEW p \in Ingesters, IInv, LedgerInv, OneBranch, CommitDelivery(p),
           NEW d, d = job[p]
    PROVE  Committed("blocks")' =
             (Committed("blocks") \ Ledger!Displaced(d)) \cup Ledger!Installed(d)
  <1>1. /\ d \in Deliveries /\ Ledger!Installed(d) = Installed(p)
        /\ \A b \in Ledger!Elements(Apply[d]) : b \in Installed(p)
        /\ \A b \in Ledger!Elements(Rollback[d]) : b \in RolledBack(p)
        /\ Installed(p) \subseteq Blocks
        /\ WritesBatch(p) /\ BatchSoFar(p)
    BY WholeBatch
  <1>2. p \in Procs /\ TypeOK /\ TransactionOK(p)
    BY DEF IInv, Procs
  <1>3. \A t \in Tables, b \in Blocks : db'[t][b] = View(p, t, b)
    BY DEF CommitDelivery, Merge
  <1>4. Ledger!Elements(Applies(p)) = Ledger!Elements(Apply[d])
    BY DEF Applies
  <1> SUFFICES ASSUME NEW b \in Blocks
               PROVE  View(p, "blocks", b) = "canonical" <=>
                        \/ db["blocks"][b] = "canonical" /\ b \notin Ledger!Displaced(d)
                        \/ b \in Installed(p)
    BY <1>1, <1>3 DEF Committed
  <1>5. mine[p]["blocks"][b] \in {"canonical", "orphaned", Untouched}
    BY <1>2 DEF TypeOK, TransactionOK, WritesInside
  <1>6. CASE b \in Installed(p)
    BY <1>1, <1>6 DEF BatchSoFar, View
  <1>7. CASE b \notin Installed(p) /\ b \in Ledger!Displaced(d)
    <2>1. mine[p]["blocks"][b] # "canonical"
      BY <1>1, <1>4, <1>7 DEF WritesBatch
    <2>2. CASE b \in Ledger!Elements(Rollback[d])
      <3>1. mine[p]["blocks"][b] # Untouched
        BY <1>1, <2>2 DEF BatchSoFar
      <3> QED
        BY <1>5, <1>7, <2>1, <3>1 DEF View
    <2>3. CASE \E a \in Ledger!Elements(Apply[d]) : a # b /\ Height[a] = Height[b]
      <3>1. PICK a \in Ledger!Elements(Apply[d]) : a # b /\ Height[a] = Height[b]
        BY <2>3
      <3>2. a \in Blocks /\ mine[p]["blocks"][a] = "canonical"
        BY <1>1, <3>1 DEF BatchSoFar
      <3>3. b \in SameHeight(a)
        BY <3>1 DEF SameHeight
      <3>4. View(p, "blocks", b) # "canonical"
        BY <1>2, <3>2, <3>3 DEF TransactionOK, NoRival
      <3> QED
        BY <1>7, <3>4
    <2> QED
      BY <1>7, <2>2, <2>3 DEF Ledger!Displaced
  <1>8. CASE b \notin Installed(p) /\ b \notin Ledger!Displaced(d)
    <2>1. mine[p]["blocks"][b] = Untouched
      BY <1>1, <1>4, <1>5, <1>8 DEF WritesBatch
    <2> QED
      BY <1>8, <2>1 DEF View
  <1> QED
    BY <1>6, <1>7, <1>8

LEMMA CommittedRows ==
    ASSUME NEW p \in Ingesters, IInv, LedgerInv, OneBranch, CommitDelivery(p),
           RowsCanonical', NEW d, d = job[p]
    PROVE  Committed("rows")' =
             (Committed("rows") \ Ledger!Displaced(d)) \cup Ledger!Installed(d)
  <1>1. /\ d \in Deliveries /\ Ledger!Installed(d) = Installed(p)
        /\ \A b \in Ledger!Elements(Apply[d]) : b \in Installed(p)
        /\ Installed(p) \subseteq Blocks
        /\ WritesBatch(p) /\ BatchSoFar(p)
    BY WholeBatch
  <1>2. p \in Procs /\ TypeOK /\ TransactionOK(p)
    BY DEF IInv, Procs
  <1>3. \A t \in Tables, b \in Blocks : db'[t][b] = View(p, t, b)
    BY DEF CommitDelivery, Merge
  <1>4. Ledger!Elements(Applies(p)) = Ledger!Elements(Apply[d])
    BY DEF Applies
  <1>5. Committed("blocks")' =
          (Committed("blocks") \ Ledger!Displaced(d)) \cup Ledger!Installed(d)
    BY CommittedBlocks
  <1> SUFFICES ASSUME NEW b \in Blocks
               PROVE  View(p, "rows", b) = "canonical" <=>
                        \/ db["rows"][b] = "canonical" /\ b \notin Ledger!Displaced(d)
                        \/ b \in Installed(p)
    BY <1>1, <1>3 DEF Committed
  <1>6. mine[p]["rows"][b] \in {"canonical", "orphaned", Untouched}
    BY <1>2 DEF TypeOK, TransactionOK, WritesInside
  <1>7. CASE b \in Installed(p)
    BY <1>1, <1>7 DEF BatchSoFar, View
  <1>8. CASE b \notin Installed(p) /\ b \in Ledger!Displaced(d)
    <2>1. b \notin Committed("blocks")'
      BY <1>1, <1>5, <1>8
    <2>2. b \notin Committed("rows")'
      BY <2>1 DEF RowsCanonical
    <2> QED
      BY <1>3, <1>8, <2>2 DEF Committed
  <1>9. CASE b \notin Installed(p) /\ b \notin Ledger!Displaced(d)
    <2>1. mine[p]["rows"][b] = Untouched
      BY <1>1, <1>4, <1>6, <1>9 DEF WritesBatch
    <2> QED
      BY <1>9, <2>1 DEF View
  <1> QED
    BY <1>7, <1>8, <1>9

LEMMA CommittedSnapshots ==
    ASSUME NEW p \in Ingesters, IInv, LedgerInv, OneBranch, CommitDelivery(p),
           SnapshotsCanonical', NEW d, d = job[p]
    PROVE  /\ Committed("snapshots")' = Committed("snapshots") \ Ledger!Displaced(d)
           /\ \A b \in Blocks : db'["snapshots"][b] # "absent" <=> db["snapshots"][b] # "absent"
  <1>1. /\ d \in Deliveries /\ Ledger!Installed(d) = Installed(p)
        /\ \A b \in Ledger!Elements(Apply[d]) : b \in Installed(p)
        /\ \A b \in Ledger!Elements(Rollback[d]) : b \in RolledBack(p)
        /\ Installed(p) \subseteq Blocks
        /\ WritesBatch(p) /\ BatchSoFar(p)
    BY WholeBatch
  <1>2. p \in Procs /\ TypeOK /\ TransactionOK(p)
    BY DEF IInv, Procs
  <1>3. \A t \in Tables, b \in Blocks : db'[t][b] = View(p, t, b)
    BY DEF CommitDelivery, Merge
  <1>4. Committed("blocks")' =
          (Committed("blocks") \ Ledger!Displaced(d)) \cup Ledger!Installed(d)
    BY CommittedBlocks
  <1>5. \A b \in Blocks : mine[p]["snapshots"][b] # Untouched =>
          mine[p]["snapshots"][b] = "orphaned" /\ db["snapshots"][b] # "absent"
    BY DEF LedgerInv, Ingesting
  <1>6. \A b \in Blocks : db'["snapshots"][b] # "absent" <=> db["snapshots"][b] # "absent"
    BY <1>3, <1>5 DEF View
  <1>7. ASSUME NEW b \in Blocks
        PROVE  View(p, "snapshots", b) = "canonical" <=>
                 db["snapshots"][b] = "canonical" /\ b \notin Ledger!Displaced(d)
    <2>1. CASE b \notin Ledger!Displaced(d)
      <3>1. mine[p]["snapshots"][b] = Untouched
        BY <1>1, <1>5, <2>1 DEF WritesBatch
      <3> QED
        BY <2>1, <3>1 DEF View
    <2>2. CASE b \in Ledger!Displaced(d) /\ b \notin Installed(p)
      <3>1. b \notin Committed("snapshots")'
        BY <1>1, <1>4, <2>2 DEF SnapshotsCanonical
      <3> QED
        BY <1>3, <2>2, <3>1 DEF Committed
    <2>3. CASE b \in Ledger!Displaced(d) /\ b \in Installed(p)
      <3>1. b \in Ledger!Elements(Rollback[d])
        <4> SUFFICES ASSUME NEW a \in Ledger!Elements(Apply[d]), a # b, Height[a] = Height[b]
                     PROVE  FALSE
          BY <2>3 DEF Ledger!Displaced
        <4>1. PICK i \in DOMAIN Apply[d] : a = Apply[d][i]
          BY DEF Ledger!Elements
        <4>2. PICK j \in DOMAIN Apply[d] : b = Apply[d][j]
          BY <2>3 DEF Installed, Applies
        <4> QED
          BY <1>1, <4>1, <4>2 DEF OneBranch
      <3>2. View(p, "snapshots", b) # "canonical"
        BY <1>1, <3>1 DEF BatchSoFar
      <3> QED
        BY <2>3, <3>2
    <2> QED
      BY <2>1, <2>2, <2>3
  <1>8. Committed("snapshots")' = Committed("snapshots") \ Ledger!Displaced(d)
    BY <1>3, <1>7 DEF Committed
  <1> QED
    BY <1>6, <1>8

(* A commit of a delivery is a step of the ledger.                          *)
LEMMA DeliveryIsAccepted ==
    ASSUME NEW p \in Ingesters, IInv, IInv', LedgerInv, OneBranch, CommitDelivery(p),
           NEW d, d = job[p]
    PROVE  Ledger!Accept(d)
  <1>1. d \in Deliveries /\ TypeOK /\ raw[Key[d]] = NoSha
    <2>1. phase[p] = "next" /\ TransactionOK(p) /\ TypeOK
      BY DEF IInv, CommitDelivery, Procs
    <2> QED
      BY <2>1 DEF TransactionOK, WorkInRange, Claimed
  <1>2. raw' = [raw EXCEPT ![Key[d]] = Sha[d]]
    BY DEF CommitDelivery
  <1>3. Key[d] \in Keys /\ Sha[d] \in Shas
    BY <1>1 DEF Keys, Shas
  <1>4. {k \in Keys : raw'[k] # NoSha} = {k \in Keys : raw[k] # NoSha} \cup {Key[d]}
    BY <1>1, <1>2, <1>3 DEF TypeOK
  <1>5. RowsCanonical' /\ SnapshotsCanonical'
    BY DEF IInv, TablesOK
  <1>6. Committed("blocks")' =
          (Committed("blocks") \ Ledger!Displaced(d)) \cup Ledger!Installed(d)
    BY CommittedBlocks
  <1>7. Committed("rows")' =
          (Committed("rows") \ Ledger!Displaced(d)) \cup Ledger!Installed(d)
    BY <1>5, CommittedRows
  <1>8. /\ Committed("snapshots")' = Committed("snapshots") \ Ledger!Displaced(d)
        /\ \A b \in Blocks : db'["snapshots"][b] # "absent" <=> db["snapshots"][b] # "absent"
    BY <1>5, CommittedSnapshots
  <1> HIDE DEF Committed
  <1>9. {b \in Blocks : db'["snapshots"][b] # "absent"} = {b \in Blocks : db["snapshots"][b] # "absent"}
    BY <1>8
  <1>10. Key[d] \notin {k \in Keys : raw[k] # NoSha}
    BY <1>1
  <1> QED
    BY <1>4, <1>6, <1>7, <1>8, <1>9, <1>10 DEF Ledger!Accept

LEMMA DeliveryLedger ==
    ASSUME NEW p \in Ingesters, IInv, LedgerInv, OneBranch, DigestsTell, CommitDelivery(p)
    PROVE  LedgerInv'
  <1> PICK d : d = job[p]
    OBVIOUS
  <1>1. /\ d \in Deliveries /\ Installed(p) \subseteq Blocks
        /\ \A b \in Ledger!Elements(Apply[d]) : b \in Installed(p)
        /\ BatchSoFar(p)
    BY WholeBatch
  <1>2. p \in Procs /\ TypeOK /\ TransactionOK(p) /\ Merge(p) /\ Release(p)
        /\ raw' = [raw EXCEPT ![Key[d]] = Sha[d]]
    BY DEF IInv, Procs, CommitDelivery
  <1>3. \A b \in Blocks : db'["blocks"][b] = View(p, "blocks", b)
    BY <1>2 DEF Merge
  <1>4. \A b \in Blocks : db["blocks"][b] # "absent" => db'["blocks"][b] # "absent"
    BY <1>2, <1>3 DEF View, TransactionOK, WritesInside
  <1>5. RecordedIsThere'
    <2> SUFFICES ASSUME NEW e \in Deliveries, raw'[Key[e]] = Sha[e],
                        NEW b \in Ledger!Elements(Apply[e])
                 PROVE  db'["blocks"][b] # "absent"
      BY DEF RecordedIsThere
    <2>1. b \in Blocks
      BY DEF Ledger!Elements
    <2>2. CASE raw[Key[e]] = Sha[e]
      BY <1>4, <2>1, <2>2 DEF LedgerInv, RecordedIsThere
    <2>3. CASE raw[Key[e]] # Sha[e]
      <3>1. Key[e] \in Keys
        BY DEF Keys
      <3>2. Key[e] = Key[d] /\ Sha[e] = Sha[d]
        BY <1>2, <2>3, <3>1 DEF TypeOK
      <3>3. Apply[e] = Apply[d]
        BY <1>1, <3>2 DEF DigestsTell
      <3>4. mine[p]["blocks"][b] = "canonical"
        BY <1>1, <3>3 DEF BatchSoFar
      <3> QED
        BY <1>3, <2>1, <3>4 DEF View
    <2> QED
      BY <2>2, <2>3
  <1> QED
    BY <1>2, <1>5, CommitOthersLedger

(* A commit of snapshots saves one snapshot of a canonical block, or none.  *)
LEMMA SnapshotsCommitted ==
    ASSUME NEW s \in Savers, IInv, LedgerInv, CommitSnapshots(s)
    PROVE  /\ LedgerInv'
           /\ \/ \E b \in Blocks : Ledger!SaveSnapshot(b)
              \/ UNCHANGED Ledger!ledger
  <1>1. s \in Procs /\ TypeOK /\ TransactionOK(s) /\ Saving(s) /\ raw' = raw
        /\ Merge(s) /\ Release(s)
    BY DEF IInv, Procs, LedgerInv, CommitSnapshots
  <1>2. /\ \A t \in Tables : \A b \in Blocks : db'[t][b] = View(s, t, b)
        /\ \A b \in Blocks : db'["blocks"][b] = db["blocks"][b]
        /\ \A b \in Blocks : db'["rows"][b] = db["rows"][b]
    BY <1>1 DEF Merge, View, Saving
  <1>3. RecordedIsThere'
    <2> SUFFICES ASSUME NEW e \in Deliveries, raw[Key[e]] = Sha[e],
                        NEW b \in Ledger!Elements(Apply[e])
                 PROVE  db'["blocks"][b] # "absent"
      BY <1>1 DEF RecordedIsThere
    <2>1. b \in Blocks
      BY DEF Ledger!Elements
    <2> QED
      BY <1>2, <2>1 DEF LedgerInv, RecordedIsThere
  <1>4. LedgerInv'
    BY <1>1, <1>3, CommitOthersLedger
  <1>5. /\ Committed("blocks")' = Committed("blocks")
        /\ Committed("rows")' = Committed("rows")
        /\ {k \in Keys : raw'[k] # NoSha} = {k \in Keys : raw[k] # NoSha}
    BY <1>1, <1>2 DEF Committed
  <1> DEFINE Snapped == {b \in Blocks : db["snapshots"][b] # "absent"}
  <1>6. CASE \A b \in Blocks : mine[s]["snapshots"][b] = Untouched
    <2>1. \A b \in Blocks : db'["snapshots"][b] = db["snapshots"][b]
      BY <1>2, <1>6 DEF View
    <2>2. Committed("snapshots")' = Committed("snapshots") /\ Snapped' = Snapped
      BY <2>1 DEF Committed
    <2> QED
      BY <1>4, <1>5, <2>2 DEF Ledger!ledger
  <1>7. CASE \E b \in Blocks : mine[s]["snapshots"][b] # Untouched
    <2>1. PICK b \in Blocks : mine[s]["snapshots"][b] # Untouched
      BY <1>7
    <2>2. mine[s]["snapshots"][b] = "canonical"
      BY <1>1, <2>1 DEF Saving
    <2>3. shared[s] = b /\ db["snapshots"][b] = "absent" /\ b # NoBlock
      BY <1>1, <2>2 DEF TransactionOK, WrittenUnderLock
    <2>4. db["blocks"][b] = "canonical"
      BY <1>1, <2>3 DEF TransactionOK, SharedStays
    <2>5. \A c \in Blocks \ {b} : mine[s]["snapshots"][c] = Untouched
      BY <1>1, <2>3 DEF Saving, TransactionOK, WrittenUnderLock
    <2>6. /\ \A c \in Blocks \ {b} : db'["snapshots"][c] = db["snapshots"][c]
          /\ db'["snapshots"][b] = "canonical"
      BY <1>2, <2>2, <2>5 DEF View
    <2>7. /\ Committed("snapshots")' = Committed("snapshots") \cup {b}
          /\ Snapped' = Snapped \cup {b}
      BY <2>6 DEF Committed
    <2>8. b \in Committed("blocks") \ Snapped
      BY <2>3, <2>4 DEF Committed
    <2>9. Ledger!SaveSnapshot(b)
      BY <1>5, <2>7, <2>8 DEF Ledger!SaveSnapshot
    <2> QED
      BY <1>4, <2>9
  <1> QED
    BY <1>6, <1>7

LEMMA LedgerStarts == Init => LedgerInv /\ Ledger!Init
  <1> SUFFICES ASSUME Init PROVE LedgerInv /\ Ledger!Init
    OBVIOUS
  <1>1. \A t \in Tables, b \in Blocks : db[t][b] = "absent"
    BY DEF Init
  <1>2. \A d \in Deliveries : raw[Key[d]] # Sha[d]
    BY DEF Init, Keys, Shas
  <1>3. \A p \in Procs : job[p] = NoDelivery /\
          \A t \in Tables, b \in Blocks : mine[p][t][b] = Untouched
    BY DEF Init, Clean
  <1>4. LedgerInv
    BY <1>2, <1>3 DEF LedgerInv, RecordedIsThere, Ingesting, Saving, Procs
  <1>5. Ledger!Init
    <2>1. \A k \in Keys : raw[k] = NoSha
      BY DEF Init
    <2> QED
      BY <1>1, <2>1 DEF Ledger!Init, Committed
  <1> QED
    BY <1>4, <1>5

(* An answer leaves the tables and the transactions as they are.            *)
LEMMA NothingDone ==
    ASSUME IInv, LedgerInv,
           UNCHANGED <<db, raw, mine, phase, job, item, victims, target>>
    PROVE  LedgerInv'
  <1>1. \A p \in Procs : Inside(p)
    BY DEF Inside
  <1>2. RecordedIsThere'
    BY DEF LedgerInv, RecordedIsThere
  <1>3. ASSUME NEW p \in Ingesters
        PROVE  Ingesting(p)'
    <2>1. Ingesting(p)
      BY DEF LedgerInv
    <2> QED
      BY <2>1 DEF Ingesting, WritesBatch, BatchSoFar, ItemInHand, RolledBack,
        Installed, OfItem, SameHeight, View, Rollbacks, Applies, IsRollback, Applied
  <1>4. ASSUME NEW s \in Savers
        PROVE  Saving(s)'
    BY DEF LedgerInv, Saving
  <1> QED
    BY <1>2, <1>3, <1>4 DEF LedgerInv

(* Every step that is no commit leaves the ledger as it is.                 *)
LEMMA LedgerStep ==
    ASSUME IInv, IInv', LedgerInv, ChainFollowers, [Next]_vars
    PROVE  LedgerInv' /\ [Ledger!Next]_(Ledger!ledger)
  <1> USE DEF ChainFollowers, tables, txs
  <1>1. ASSUME UNCHANGED <<db, raw>>
        PROVE  UNCHANGED Ledger!ledger
    BY <1>1 DEF Ledger!ledger, Committed
  <1>2. ASSUME NEW p \in Ingesters, NEW d \in Deliveries, ClaimDelivery(p, d)
        PROVE  LedgerInv' /\ UNCHANGED Ledger!ledger
    BY <1>1, <1>2, ClaimLedger DEF ClaimDelivery
  <1>3. ASSUME NEW p \in Ingesters, NEW d \in Deliveries,
               AcknowledgeDuplicate(p, d) \/ RejectReusedKey(p, d)
        PROVE  LedgerInv' /\ UNCHANGED Ledger!ledger
    BY <1>1, <1>3, NothingDone DEF AcknowledgeDuplicate, RejectReusedKey
  <1>4. ASSUME NEW p \in Ingesters, NextItem(p)
        PROVE  LedgerInv' /\ UNCHANGED Ledger!ledger
    BY <1>1, <1>4, NextItemLedger DEF NextItem
  <1>5. ASSUME NEW p \in Ingesters, RollbackHeader(p)
        PROVE  LedgerInv' /\ UNCHANGED Ledger!ledger
    BY <1>1, <1>5, HeaderLedger DEF RollbackHeader
  <1>6. ASSUME NEW p \in Ingesters, RollbackRows(p)
        PROVE  LedgerInv' /\ UNCHANGED Ledger!ledger
    BY <1>1, <1>6, RowsLedger DEF RollbackRows
  <1>7. ASSUME NEW p \in Ingesters, RollbackSnapshots(p)
        PROVE  LedgerInv' /\ UNCHANGED Ledger!ledger
    BY <1>1, <1>7, SnapshotsLedger DEF RollbackSnapshots
  <1>8. ASSUME NEW p \in Ingesters, UpsertBlock(p)
        PROVE  LedgerInv' /\ UNCHANGED Ledger!ledger
    BY <1>1, <1>8, UpsertLedger DEF UpsertBlock
  <1>9. ASSUME NEW p \in Ingesters, DeriveRows(p)
        PROVE  LedgerInv' /\ UNCHANGED Ledger!ledger
    BY <1>1, <1>9, DeriveLedger DEF DeriveRows
  <1>10. ASSUME NEW p \in Ingesters, CommitDelivery(p)
         PROVE  LedgerInv' /\ Ledger!Next
    <2> PICK d : d = job[p]
      OBVIOUS
    <2>1. d \in Deliveries
      BY <1>10, WholeBatch
    <2>2. LedgerInv'
      BY <1>10, DeliveryLedger
    <2>3. Ledger!Accept(d)
      BY <1>10, DeliveryIsAccepted
    <2> QED
      BY <2>1, <2>2, <2>3 DEF Ledger!Next
  <1>11. ASSUME NEW s \in Savers,
                (\E b \in Blocks : LockSnapshotBlock(s, b)) \/ InsertSnapshot(s)
         PROVE  LedgerInv' /\ UNCHANGED Ledger!ledger
    BY <1>1, <1>11, SaverLedger DEF LockSnapshotBlock, InsertSnapshot
  <1>12. ASSUME NEW s \in Savers, CommitSnapshots(s)
         PROVE  LedgerInv' /\ [Ledger!Next]_(Ledger!ledger)
    BY <1>12, SnapshotsCommitted DEF Ledger!Next
  <1>13. ASSUME NEW p \in Procs, UniqueViolation(p) \/ DeadlockVictim(p) \/ Fault(p)
         PROVE  LedgerInv' /\ UNCHANGED Ledger!ledger
    BY <1>1, <1>13, AbortKeepsLedger DEF UniqueViolation, DeadlockVictim, Fault
  <1>14. CASE UNCHANGED vars
    BY <1>1, <1>14, NothingDone DEF vars
  <1> QED
    BY <1>2, <1>3, <1>4, <1>5, <1>6, <1>7, <1>8, <1>9, <1>10, <1>11, <1>12,
       <1>13, <1>14 DEF Next, Statement, SaverStatement, Procs

(* What the uncommitted transactions hold of their batches: the invariant   *)
(* that makes a commit one step of the ledger.                              *)
THEOREM BatchesAreWhole ==
    ASSUME ChainFollowers
    PROVE  Spec => []LedgerInv
  <1>1. Init => LedgerInv
    BY LedgerStarts
  <1>2. IInv /\ IInv' /\ LedgerInv /\ [Next]_vars => LedgerInv'
    BY LedgerStep
  <1> QED
    BY <1>1, <1>2, Inductive, PTL DEF Spec

(* The committed tables of ingest() and savePositionSnapshots(), whatever   *)
(* number of transactions interleave their statements, wait, are aborted or *)
(* are lost, behave as the ledger of CanonicalLedger: each delivery takes   *)
(* effect once, as a whole and at one instant, and each snapshot belongs to *)
(* a block that is canonical when it is saved.                              *)
THEOREM StoreImplementsLedger ==
    ASSUME ChainFollowers
    PROVE  Spec => ImplementsLedger
  <1>1. Init => Ledger!Init
    BY LedgerStarts
  <1>2. IInv /\ IInv' /\ LedgerInv /\ [Next]_vars => [Ledger!Next]_(Ledger!ledger)
    BY LedgerStep
  <1> QED
    BY <1>1, <1>2, Inductive, BatchesAreWhole, PTL DEF Spec, ImplementsLedger, Ledger!Spec
=============================================================================
