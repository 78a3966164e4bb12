----------------------------- MODULE MvccProof -----------------------------
(***************************************************************************)
(* Proofs about the MVCC store, for any number of threads and keys and for *)
(* any bounds.                                                             *)
(***************************************************************************)
EXTENDS MvccStore, KeyIndexProof, FiniteSetTheorems

USE BoundAssumption, RangeAssumption

(***************************************************************************)
(* Types.  What a task's fields hold depends on where it is: a put has a   *)
(* key, a restore has a snapshot.                                          *)
(***************************************************************************)
TaskOK ==
  \A t \in Thread :
    /\ task[t].pc \in {"put_read", "put_kv", "put_rev", "put_index", "del_rev"}
         => task[t].key \in Key
    /\ task[t].pc \in {"restore_trees", "restore_counters"}
         => task[t].data \in Snapshot

TypeInv == TypeOK /\ TaskOK

\* The task between two operations.
LEMMA IdleType == Idle \in Task /\ Idle.pc = "idle"
  <1>1. NoRevisions \in [Key -> Revision] /\ NoKeyValues \in [Key -> KeyValue \cup {None}]
    BY DEF NoRevisions, NoKeyValues, Gone, Revision
  <1> QED
    BY <1>1 DEF Idle, Task, Pc, Revision

\* What put stores is a KeyValue.
LEMMA NewKeyValueType ==
  ASSUME NEW tk \in Task
  PROVE  NewKeyValue(tk) \in KeyValue /\ NewKeyValue(tk).mod = tk.rev
  <1>1. tk.value \in Value \cup {None} /\ tk.rev \in Revision /\ tk.prev \in KeyValue \cup {None}
    BY DEF Task
  <1>2. tk.prev # None => tk.prev.version \in Nat /\ tk.prev.create \in Revision
    BY <1>1 DEF KeyValue
  <1> QED
    BY <1>1, <1>2 DEF NewKeyValue, KeyValue

\* What delete_range stores is one too.
LEMMA TombstoneType ==
  ASSUME NEW r \in Revision
  PROVE  Tombstone(r) \in KeyValue /\ Tombstone(r).mod = r
  BY DEF Tombstone, KeyValue, Revision

-----------------------------------------------------------------------------
(***************************************************************************)
(* The reference.  h stands for a history of writes: what a key should     *)
(* hold at a revision depends on the writes up to it, and each write       *)
(* changes it in one way.                                                  *)
(***************************************************************************)
\* The extremes of a set of revisions.
LEMMA MaxMin ==
  ASSUME NEW r \in Nat, NEW S \in SUBSET (1..r), S # {}
  PROVE  /\ Max(S) \in S /\ \A y \in S : y <= Max(S)
         /\ Min(S) \in S /\ \A y \in S : Min(S) <= y
  <1>1. \E x \in S : \A y \in S : y <= x
    BY LastExists
  <1>2. \E x \in S : \A y \in S : x >= y
    BY <1>1
  <1>3. Max(S) \in S /\ \A y \in S : Max(S) >= y
    BY <1>2 DEF Max
  <1>4. \E x \in S : \A y \in S : x <= y
    BY FirstExists
  <1>5. Min(S) \in S /\ \A y \in S : Min(S) <= y
    BY <1>4 DEF Min
  <1> QED
    BY <1>3, <1>5

\* A member that no other exceeds is the largest one.
LEMMA MaxUnique ==
  ASSUME NEW r \in Nat, NEW S \in SUBSET (1..r), NEW x \in S, \A y \in S : y <= x
  PROVE  Max(S) = x
  <1>1. S # {} /\ \A y \in S : y \in Nat
    OBVIOUS
  <1>2. Max(S) \in S /\ \A y \in S : y <= Max(S)
    BY <1>1, MaxMin
  <1>3. Max(S) \in Nat /\ x \in Nat
    BY <1>1, <1>2, Zenon
  <1>4. x <= Max(S) /\ Max(S) <= x
    BY <1>2
  <1> QED
    BY <1>3, <1>4

\* A member that exceeds no other is the smallest one.
LEMMA MinUnique ==
  ASSUME NEW r \in Nat, NEW S \in SUBSET (1..r), NEW x \in S, \A y \in S : x <= y
  PROVE  Min(S) = x
  <1>1. S # {} /\ \A y \in S : y \in Nat
    OBVIOUS
  <1>2. Min(S) \in S /\ \A y \in S : Min(S) <= y
    BY <1>1, MaxMin
  <1>3. Min(S) \in Nat /\ x \in Nat
    BY <1>1, <1>2, Zenon
  <1>4. x <= Min(S) /\ Min(S) <= x
    BY <1>2
  <1> QED
    BY <1>3, <1>4

\* The puts that count are finitely many, so that a version counts them.
LEMMA LivePutsFinite ==
  ASSUME NEW h, NEW k, NEW r \in Nat
  PROVE  /\ LivePutsIn(h, k, r) \in SUBSET (1..r)
         /\ IsFiniteSet(LivePutsIn(h, k, r))
         /\ Cardinality(LivePutsIn(h, k, r)) \in Nat
         /\ LivePutsIn(h, k, r) # {} => Cardinality(LivePutsIn(h, k, r)) # 0
  <1> DEFINE S == LivePutsIn(h, k, r)
  <1>1. S \in SUBSET (1..r)
    BY DEF LivePutsIn
  <1>2. IsFiniteSet(1..r)
    BY FS_Interval
  <1>3. IsFiniteSet(S)
    BY <1>1, <1>2, FS_Subset
  <1>4. Cardinality(S) \in Nat
    BY <1>3, FS_CardinalityType
  <1>5. S # {} => Cardinality(S) # 0
    BY <1>3, FS_EmptySet
  <1> QED
    BY <1>1, <1>3, <1>4, <1>5

\* Only the writes up to r count.
LEMMA RefDepends ==
  ASSUME NEW h, NEW g, NEW k, NEW r \in Nat, \A q \in 1..r : g[q] = h[q]
  PROVE  RefIn(g, k, r) = RefIn(h, k, r)
  <1>1. ASSUME NEW q \in 1..r
        PROVE  q \in LivePutsIn(g, k, r) <=> q \in LivePutsIn(h, k, r)
    <2>1. \A d \in q..r : d \in 1..r
      OBVIOUS
    <2> QED
      BY <2>1 DEF LivePutsIn, IsPut, IsDelete
  <1>2. LivePutsIn(g, k, r) = LivePutsIn(h, k, r)
    BY <1>1, LivePutsFinite
  <1> DEFINE S == LivePutsIn(h, k, r)
  <1>3. S \in SUBSET (1..r)
    BY LivePutsFinite
  <1> HIDE DEF S
  <1>4. CASE S = {}
    BY <1>2, <1>4 DEF RefIn, Described, S
  <1>5. CASE S # {}
    <2>1. Max(S) \in 1..r
      BY <1>3, <1>5, MaxMin
    <2>2. g[Max(S)].value = h[Max(S)].value
      BY <2>1
    <2> QED
      BY <1>2, <2>2 DEF RefIn, Described, S
  <1> QED
    BY <1>4, <1>5

\* A write that leaves the key alone.
LEMMA RefSame ==
  ASSUME NEW h, NEW k, NEW r \in Nat, ~ IsPut(h, r + 1, k), ~ IsDelete(h, r + 1, k)
  PROVE  RefIn(h, k, r + 1) = RefIn(h, k, r)
  <1>1. LivePutsIn(h, k, r + 1) = LivePutsIn(h, k, r)
    <2>1. ASSUME NEW q \in 1..r PROVE \A d \in q..(r + 1) : d \in q..r \/ d = r + 1
      OBVIOUS
    <2>2. \A q \in 1..(r + 1) : q \in 1..r \/ q = r + 1
      OBVIOUS
    <2>3. ASSUME NEW q \in 1..r PROVE q \in LivePutsIn(h, k, r + 1) <=> q \in LivePutsIn(h, k, r)
      BY <2>1 DEF LivePutsIn
    <2>4. r + 1 \notin LivePutsIn(h, k, r + 1)
      BY DEF LivePutsIn
    <2>5. LivePutsIn(h, k, r + 1) \in SUBSET (1..(r + 1)) /\ LivePutsIn(h, k, r) \in SUBSET (1..r)
      BY LivePutsFinite
    <2> QED
      BY <2>2, <2>3, <2>4, <2>5
  <1> QED
    BY <1>1 DEF RefIn

\* A delete.
LEMMA RefDelete ==
  ASSUME NEW h, NEW k, NEW r \in Nat, r # 0, IsDelete(h, r, k)
  PROVE  RefIn(h, k, r) = None
  <1>1. ASSUME NEW q \in 1..r PROVE r \in q..r
    OBVIOUS
  <1>2. LivePutsIn(h, k, r) = {}
    BY <1>1 DEF LivePutsIn
  <1> QED
    BY <1>2 DEF RefIn, Described

\* A put.
LEMMA RefPut ==
  ASSUME NEW h, NEW k, NEW r \in Nat, IsPut(h, r + 1, k),
         LivePutsIn(h, k, r) = {} \/ None # Described(h, LivePutsIn(h, k, r))
  PROVE  RefIn(h, k, r + 1) =
           [value |-> h[r + 1].value, mod |-> r + 1,
            version |-> IF RefIn(h, k, r) = None THEN 1 ELSE RefIn(h, k, r).version + 1,
            create |-> IF RefIn(h, k, r) = None THEN r + 1 ELSE RefIn(h, k, r).create]
  <1> DEFINE S == LivePutsIn(h, k, r)
             T == LivePutsIn(h, k, r + 1)
  <1>0. r + 1 \in Nat /\ S \in SUBSET (1..r) /\ T \in SUBSET (1..(r + 1)) /\ IsFiniteSet(S)
        /\ Cardinality(S) \in Nat
    BY LivePutsFinite
  <1>1. ~ IsDelete(h, r + 1, k)
    BY DEF IsPut, IsDelete
  <1>2. T = S \cup {r + 1}
    <2>1. ASSUME NEW q \in 1..r PROVE \A d \in q..(r + 1) : d \in q..r \/ d = r + 1
      OBVIOUS
    <2>2. \A q \in 1..(r + 1) : q \in 1..r \/ q = r + 1
      OBVIOUS
    <2>3. ASSUME NEW q \in 1..r PROVE q \in T <=> q \in S
      BY <1>1, <2>1 DEF LivePutsIn
    <2>4. r + 1 \in T
      <3>1. \A d \in (r + 1)..(r + 1) : d = r + 1
        OBVIOUS
      <3> QED
        BY <1>1, <3>1 DEF LivePutsIn
    <2> HIDE DEF S, T
    <2> QED
      BY <1>0, <2>2, <2>3, <2>4
  <1> HIDE DEF S, T
  <1>3. Max(T) = r + 1
    <2>1. r + 1 \in T /\ \A y \in T : y <= r + 1
      BY <1>0, <1>2
    <2> QED
      BY <1>0, <2>1, MaxUnique
  <1>4. r + 1 \notin S
    BY <1>0
  <1>5. Cardinality(T) = Cardinality(S) + 1
    BY <1>0, <1>2, <1>4, FS_AddElement
  <1>6. RefIn(h, k, r + 1) = [value |-> h[r + 1].value, create |-> Min(T), mod |-> r + 1,
                              version |-> Cardinality(S) + 1]
    <2>1. T # {}
      BY <1>2
    <2> QED
      BY <1>3, <1>5, <2>1 DEF RefIn, Described, T
  <1>7. CASE S = {}
    <2>1. Cardinality(S) = 0
      BY <1>7, FS_EmptySet
    <2>2. Min(T) = r + 1
      <3>1. r + 1 \in T /\ \A y \in T : r + 1 <= y
        BY <1>0, <1>2, <1>7
      <3> QED
        BY <1>0, <3>1, MinUnique
    <2>3. RefIn(h, k, r) = None
      BY <1>7 DEF RefIn, Described, S
    <2> QED
      BY <1>6, <2>1, <2>2, <2>3
  <1>8. CASE S # {}
    <2>1. Min(T) = Min(S)
      <3>1. Min(S) \in S /\ \A y \in S : Min(S) <= y
        BY <1>0, <1>8, MaxMin
      <3>2. Min(S) \in 1..r /\ Min(S) \in T
        BY <1>0, <1>2, <3>1
      <3>3. ASSUME NEW y \in T PROVE Min(S) <= y
        <4>1. CASE y \in S
          BY <3>1, <4>1
        <4>2. CASE y = r + 1
          BY <3>2, <4>2
        <4> QED
          BY <1>2, <4>1, <4>2
      <3> QED
        BY <1>0, <3>2, <3>3, MinUnique
    <2>2. RefIn(h, k, r) # None
      BY <1>8 DEF RefIn, S
    <2>3. RefIn(h, k, r).version = Cardinality(S) /\ RefIn(h, k, r).create = Min(S)
      BY <1>8 DEF RefIn, Described, S
    <2> QED
      BY <1>6, <2>1, <2>2, <2>3
  <1> QED
    BY <1>7, <1>8

\* A key's reference at r: made by a put of the key at or before r, and the
\* same at that put's own revision.
LEMMA RefType ==
  ASSUME NEW h \in [Revision -> Write], NEW k \in Key, NEW r \in Revision
  PROVE  /\ RefIn(h, k, r) \in KeyValue \cup {None}
         /\ LivePutsIn(h, k, r) = {} <=> RefIn(h, k, r) = None
         /\ RefIn(h, k, r) # None =>
              /\ RefIn(h, k, r).mod \in 1..r
              /\ RefIn(h, k, r).create <= r
              /\ RefIn(h, k, r).version # 0
              /\ IsPut(h, RefIn(h, k, r).mod, k)
              /\ RefIn(h, k, RefIn(h, k, r).mod) = RefIn(h, k, r)
  <1> DEFINE S == LivePutsIn(h, k, r)
             m == Max(S)
  <1>0. r \in Nat /\ \A q \in 1..r : q \in Revision
    BY BoundAssumption DEF Revision
  <1>1. S \in SUBSET (1..r) /\ Cardinality(S) \in Nat /\ (S # {} => Cardinality(S) # 0)
    BY <1>0, LivePutsFinite
  <1>2. CASE S = {}
    BY <1>2 DEF RefIn, Described
  <1>3. CASE S # {}
    <2> HIDE DEF S
    <2>1. m \in S /\ (\A y \in S : y <= m) /\ Min(S) \in S
      BY <1>0, <1>1, <1>3, MaxMin
    <2>2. m \in 1..r /\ Min(S) \in 1..r
      BY <1>1, <2>1
    <2> DEFINE e == [value |-> h[m].value, create |-> Min(S), mod |-> m,
                     version |-> Cardinality(S)]
    <2>3. RefIn(h, k, r) = e
      BY <1>3 DEF RefIn, Described, S
    <2>4. h[m].value \in Value \cup {None}
      BY <1>0, <2>2 DEF Write
    <2> HIDE DEF m
    <2>5. e \in KeyValue
      BY <1>0, <1>1, <2>2, <2>4 DEF KeyValue
    <2>6. e # None
      BY <2>5, NoneAssumption
    <2>7. Min(S) <= r /\ Cardinality(S) # 0
      BY <1>0, <1>1, <1>3, <2>2
    <2>8. IsPut(h, m, k) /\ \A d \in m..r : ~ IsDelete(h, d, k)
      BY <2>1 DEF LivePutsIn, S
    <2>9. LivePutsIn(h, k, m) = S
      <3>0. m \in Nat /\ LivePutsIn(h, k, m) \in SUBSET (1..m)
        BY <1>0, <2>2, LivePutsFinite
      <3>1. ASSUME NEW q \in S PROVE q \in LivePutsIn(h, k, m)
        <4>1. q \in 1..r /\ IsPut(h, q, k) /\ \A d \in q..r : ~ IsDelete(h, d, k)
          BY DEF S, LivePutsIn
        <4>2. q <= m
          BY <2>1
        <4>3. \A d \in q..m : d \in q..r
          BY <1>0, <2>2, <4>1
        <4>4. q \in 1..m
          BY <1>0, <2>2, <4>1, <4>2
        <4> QED
          BY <4>1, <4>3, <4>4 DEF LivePutsIn
      <3>2. ASSUME NEW q \in LivePutsIn(h, k, m) PROVE q \in S
        <4>1. q \in 1..m /\ IsPut(h, q, k) /\ \A d \in q..m : ~ IsDelete(h, d, k)
          BY DEF LivePutsIn
        <4>2. \A d \in q..r : d \in q..m \/ d \in m..r
          BY <1>0, <2>2, <4>1
        <4>3. q \in 1..r
          BY <1>0, <2>2, <4>1
        <4> QED
          BY <2>8, <4>1, <4>2, <4>3 DEF LivePutsIn, S
      <3> QED
        BY <3>1, <3>2
    <2>10. RefIn(h, k, m) = e
      BY <1>3, <2>9 DEF RefIn, Described, m
    <2>11. e.mod = m /\ e.create = Min(S) /\ e.version = Cardinality(S)
      OBVIOUS
    <2> HIDE DEF e
    <2> QED
      BY <1>3, <2>2, <2>3, <2>5, <2>6, <2>7, <2>8, <2>10, <2>11 DEF S
  <1> QED
    BY <1>2, <1>3

\* So is what a history leaves in kv_rev.
LEMMA FiledType ==
  ASSUME NEW h \in [Revision -> Write], NEW k \in Key, NEW r \in Revision, h[0] = NoWrite
  PROVE  FiledIn(h, k, r) \in KeyValue \cup {None}
  <1>1. RefIn(h, k, r) \in KeyValue \cup {None} /\ Tombstone(r) \in KeyValue
    BY RefType, TombstoneType
  <1> QED
    BY <1>1 DEF FiledIn

\* What a leader may have performed.
LEMMA HistoriesType ==
  ASSUME NEW c \in Revision, NEW h \in Histories(c)
  PROVE  h \in [Revision -> Write] /\ h[0] = NoWrite
  <1>1. PICK f \in [2..c -> ClientWrite] :
          h = [r \in Revision |-> IF r \in 2..c THEN f[r] ELSE NoWrite]
    BY DEF Histories
  <1>2. ClientWrite \subseteq Write /\ NoWrite \in Write
    BY DEF ClientWrite, Write, NoWrite
  <1>3. 0 \in Revision /\ 0 \notin 2..c
    BY DEF Revision
  <1> QED
    BY <1>1, <1>2, <1>3

\* What a leader sends is a snapshot: what its writes left in its trees.
LEMMA ReceivedType ==
  ASSUME NEW data \in Received
  PROVE  /\ data \in Snapshot
         /\ \E c \in 1..MaxRevision : \E h \in Histories(c) : \E p \in 0..c :
              /\ data = SnapshotOf(h, c, p)
              /\ ~ WithCompaction => p = 0
  <1>1. PICK c \in 1..MaxRevision :
          data \in {SnapshotOf(h, c, p) : h \in Histories(c),
                                         p \in IF WithCompaction THEN 0..c ELSE {0}}
    BY DEF Received
  <1>2. c \in Revision /\ 0 \in 0..c /\ \A p \in 0..c : p \in Revision
    BY DEF Revision
  <1>3. PICK h \in Histories(c), p \in (IF WithCompaction THEN 0..c ELSE {0}) :
          data = SnapshotOf(h, c, p)
    BY <1>1
  <1>4. p \in 0..c /\ (~ WithCompaction => p = 0)
    BY <1>2, <1>3
  <1>5. h \in [Revision -> Write] /\ h[0] = NoWrite
    BY <1>2, HistoriesType
  <1>6. data = [current |-> c, compact |-> p, kv |-> [k \in Key |-> RefIn(h, k, c)],
                kv_rev |-> [rk \in Revision \X Key |->
                              IF rk[1] \in p..c THEN FiledIn(h, rk[2], rk[1]) ELSE None],
                writes |-> h]
    BY <1>3 DEF SnapshotOf
  <1>7. [k \in Key |-> RefIn(h, k, c)] \in [Key -> KeyValue \cup {None}]
    BY <1>2, <1>5, RefType
  <1>8. [rk \in Revision \X Key |-> IF rk[1] \in p..c THEN FiledIn(h, rk[2], rk[1]) ELSE None]
          \in [Revision \X Key -> KeyValue \cup {None}]
    <2>1. ASSUME NEW rk \in Revision \X Key PROVE FiledIn(h, rk[2], rk[1]) \in KeyValue \cup {None}
      BY <1>5, FiledType
    <2> QED
      BY <2>1
  <1>9. data \in Snapshot
    BY <1>2, <1>4, <1>5, <1>6, <1>7, <1>8 DEF Snapshot
  <1> QED
    BY <1>3, <1>4, <1>9

-----------------------------------------------------------------------------
\* Putting one thread's task back leaves the tasks well typed.
LEMMA OneTaskChanges ==
  ASSUME TypeInv, NEW t \in Thread, NEW tk \in Task,
         tk.pc \in {"put_read", "put_kv", "put_rev", "put_index", "del_rev"} => tk.key \in Key,
         tk.pc \in {"restore_trees", "restore_counters"} => tk.data \in Snapshot,
         task' = [task EXCEPT ![t] = tk]
  PROVE  task' \in [Thread -> Task] /\ TaskOK'
  BY DEF TypeInv, TypeOK, TaskOK

\* Taking put's revision keeps the types.
LEMMA PutAllocateType ==
  ASSUME TypeInv, NEW t \in Thread, NEW k \in Key, NEW v \in Value, PutAllocate(t, k, v)
  PROVE  TypeInv'
  <1> DEFINE tk == [Idle EXCEPT !.pc = "put_read", !.key = k, !.value = v, !.rev = NextRevision]
  <1>1. NextRevision \in Revision
    BY DEF PutAllocate, TypeInv, TypeOK, Revision, NextRevision
  <1>2. tk \in Task /\ tk.pc = "put_read" /\ tk.key = k
    BY <1>1, IdleType DEF Task, Pc
  <1>3. task' \in [Thread -> Task] /\ TaskOK'
    BY <1>2, OneTaskChanges DEF PutAllocate
  <1>4. history' \in [Revision -> Write]
    BY <1>1 DEF PutAllocate, TypeInv, TypeOK, Write
  <1> QED
    BY <1>1, <1>3, <1>4 DEF PutAllocate, TypeInv, TypeOK

\* put's read of the current value keeps the types.
LEMMA PutReadType ==
  ASSUME TypeInv, NEW t \in Thread, PutRead(t)
  PROVE  TypeInv'
  <1> DEFINE tk == [task[t] EXCEPT !.pc = "put_kv", !.prev = kv[task[t].key]]
  <1>1. task[t] \in Task /\ task[t].key \in Key
    BY DEF PutRead, TypeInv, TypeOK, TaskOK
  <1>2. kv[task[t].key] \in KeyValue \cup {None}
    BY <1>1 DEF TypeInv, TypeOK
  <1>3. tk \in Task /\ tk.pc = "put_kv" /\ tk.key = task[t].key
    BY <1>1, <1>2 DEF Task, Pc
  <1>4. task' = [task EXCEPT ![t] = tk]
    BY DEF PutRead, TypeInv, TypeOK
  <1> HIDE DEF tk
  <1>5. task' \in [Thread -> Task] /\ TaskOK'
    BY <1>1, <1>3, <1>4, OneTaskChanges
  <1> QED
    BY <1>5 DEF PutRead, TypeInv, TypeOK, storeVars

\* put's write of the kv tree keeps the types.
LEMMA PutKvType ==
  ASSUME TypeInv, NEW t \in Thread, PutKv(t)
  PROVE  TypeInv'
  <1> DEFINE tk == [task[t] EXCEPT !.pc = "put_rev"]
  <1>1. task[t] \in Task /\ task[t].key \in Key
    BY DEF PutKv, TypeInv, TypeOK, TaskOK
  <1>2. tk \in Task /\ tk.pc = "put_rev" /\ tk.key = task[t].key
    BY <1>1 DEF Task, Pc
  <1>3. task' = [task EXCEPT ![t] = tk]
    BY DEF PutKv, TypeInv, TypeOK
  <1> HIDE DEF tk
  <1>4. task' \in [Thread -> Task] /\ TaskOK'
    BY <1>1, <1>2, <1>3, OneTaskChanges
  <1>5. kv' \in [Key -> KeyValue \cup {None}]
    BY <1>1, NewKeyValueType DEF PutKv, TypeInv, TypeOK
  <1> QED
    BY <1>4, <1>5 DEF PutKv, TypeInv, TypeOK

\* put's write of the kv_rev tree keeps the types.
LEMMA PutRevType ==
  ASSUME TypeInv, NEW t \in Thread, PutRev(t)
  PROVE  TypeInv'
  <1> DEFINE tk == [task[t] EXCEPT !.pc = "put_index"]
  <1>1. task[t] \in Task /\ task[t].key \in Key
    BY DEF PutRev, TypeInv, TypeOK, TaskOK
  <1>2. tk \in Task /\ tk.pc = "put_index" /\ tk.key = task[t].key
    BY <1>1 DEF Task, Pc
  <1>3. task' = [task EXCEPT ![t] = tk]
    BY DEF PutRev, TypeInv, TypeOK
  <1> HIDE DEF tk
  <1>4. task' \in [Thread -> Task] /\ TaskOK'
    BY <1>1, <1>2, <1>3, OneTaskChanges
  <1>5. kv_rev' \in [Revision \X Key -> KeyValue \cup {None}]
    BY <1>1, NewKeyValueType DEF PutRev, TypeInv, TypeOK
  <1> QED
    BY <1>4, <1>5 DEF PutRev, TypeInv, TypeOK

\* A thread that ends its operation leaves the tasks well typed.
LEMMA TaskEnds ==
  ASSUME TypeInv, NEW t \in Thread, task' = [task EXCEPT ![t] = Idle]
  PROVE  task' \in [Thread -> Task] /\ TaskOK'
  BY IdleType, OneTaskChanges

\* put's index update and reply keeps the types.
LEMMA PutIndexType ==
  ASSUME TypeInv, NEW t \in Thread, PutIndex(t)
  PROVE  TypeInv'
  <1>1. task[t] \in Task /\ task[t].key \in Key
    BY DEF PutIndex, TypeInv, TypeOK, TaskOK
  <1>2. task[t].rev \in Nat /\ key_index[task[t].key] \in Seq(Generation)
    BY <1>1 DEF Task, Revision, TypeInv, TypeOK
  <1>3. IndexPut(key_index[task[t].key], task[t].rev) \in Seq(Generation)
    BY <1>2, IndexPutAdds
  <1>4. key_index' \in [Key -> Seq(Generation)]
    BY <1>1, <1>3 DEF PutIndex, TypeInv, TypeOK
  <1>5. task' \in [Thread -> Task] /\ TaskOK'
    BY TaskEnds DEF PutIndex
  <1> QED
    BY <1>4, <1>5 DEF PutIndex, TypeInv, TypeOK

\* Taking delete_range's revision keeps the types.
LEMMA DeleteAllocateType ==
  ASSUME TypeInv, NEW t \in Thread, NEW ks \in DeleteRange, DeleteAllocate(t, ks)
  PROVE  TypeInv'
  <1> DEFINE tk == [Idle EXCEPT !.pc = "del_scan", !.keys = ks, !.rev = NextRevision]
  <1>1. NextRevision \in Revision /\ ks \in SUBSET Key
    BY DEF DeleteAllocate, TypeInv, TypeOK, Revision, NextRevision
  <1>2. tk \in Task /\ tk.pc = "del_scan"
    BY <1>1, IdleType DEF Task, Pc
  <1>3. task' \in [Thread -> Task] /\ TaskOK'
    BY <1>2, OneTaskChanges DEF DeleteAllocate
  <1>4. history' \in [Revision -> Write]
    BY <1>1 DEF DeleteAllocate, TypeInv, TypeOK, Write
  <1> QED
    BY <1>1, <1>3, <1>4 DEF DeleteAllocate, TypeInv, TypeOK

\* A step that only moves one task on to a place where nothing is required of
\* its key and its data keeps the types.
LEMMA MovesOn ==
  ASSUME TypeInv, NEW t \in Thread, NEW tk \in Task, task' = [task EXCEPT ![t] = tk],
         tk.pc \notin {"put_read", "put_kv", "put_rev", "put_index", "del_rev",
                       "restore_trees", "restore_counters"},
         UNCHANGED <<storeVars, read, snapshot, restarts, history, compacted>>
  PROVE  TypeInv'
  <1>1. task' \in [Thread -> Task] /\ TaskOK'
    BY OneTaskChanges
  <1> QED
    BY <1>1 DEF TypeInv, TypeOK, storeVars

\* delete_range's scan of the index keeps the types.
LEMMA DeleteScanType ==
  ASSUME TypeInv, NEW t \in Thread, DeleteScan(t)
  PROVE  TypeInv'
  <1> DEFINE found == IndexRange(task[t].keys, current_revision)
             scanned == {k \in Key : found[k] # Gone}
             pc == IF scanned = {} THEN "del_index" ELSE "del_read"
             tk == [task[t] EXCEPT !.keys = scanned, !.pc = pc]
  <1>1. task[t] \in Task /\ scanned \in SUBSET Key /\ pc \in {"del_index", "del_read"}
    BY DEF TypeInv, TypeOK
  <1>2. task' = [task EXCEPT ![t] = tk]
    BY DEF DeleteScan, TypeInv, TypeOK
  <1> HIDE DEF scanned, pc
  <1>3. tk \in Task /\ tk.pc = pc
    BY <1>1 DEF Task, Pc
  <1> QED
    BY <1>1, <1>2, <1>3, MovesOn DEF DeleteScan

\* delete_range's read of one key keeps the types.
LEMMA DeleteReadType ==
  ASSUME TypeInv, NEW t \in Thread, NEW k \in Key, DeleteRead(t, k)
  PROVE  TypeInv'
  <1> DEFINE keys == IF kv[k] = None THEN task[t].keys \ {k} ELSE task[t].keys
             done == IF kv[k] = None THEN task[t].done ELSE task[t].done \cup {k}
             next == IF done = keys THEN {} ELSE done
             pc == CASE keys = {} -> "del_index"
                     [] keys # {} /\ done = keys -> "del_kv"
                     [] OTHER -> "del_read"
             tk == [task[t] EXCEPT !.keys = keys, !.done = next, !.pc = pc]
  <1>1. task[t] \in Task
    BY DEF TypeInv, TypeOK
  <1>2. keys \in SUBSET Key /\ next \in SUBSET Key
    BY <1>1 DEF Task
  <1>3. pc \in {"del_index", "del_kv", "del_read"}
    OBVIOUS
  <1>4. task' = [task EXCEPT ![t] = tk]
    BY DEF DeleteRead, TypeInv, TypeOK
  <1> HIDE DEF keys, next, pc
  <1>5. tk \in Task /\ tk.pc = pc
    BY <1>1, <1>2, <1>3 DEF Task, Pc
  <1> QED
    BY <1>3, <1>4, <1>5, MovesOn DEF DeleteRead

\* delete_range's tombstone in kv keeps the types.
LEMMA DeleteKvType ==
  ASSUME TypeInv, NEW t \in Thread, NEW k \in Key, DeleteKv(t, k)
  PROVE  TypeInv'
  <1> DEFINE tk == [task[t] EXCEPT !.pc = "del_rev", !.key = k]
  <1>1. task[t] \in Task
    BY DEF TypeInv, TypeOK
  <1>2. tk \in Task /\ tk.pc = "del_rev" /\ tk.key = k
    BY <1>1 DEF Task, Pc
  <1>3. task' = [task EXCEPT ![t] = tk]
    BY DEF DeleteKv, TypeInv, TypeOK
  <1> HIDE DEF tk
  <1>4. task' \in [Thread -> Task] /\ TaskOK'
    BY <1>2, <1>3, OneTaskChanges
  <1>5. kv' \in [Key -> KeyValue \cup {None}]
    BY DEF DeleteKv, TypeInv, TypeOK
  <1> QED
    BY <1>4, <1>5 DEF DeleteKv, TypeInv, TypeOK

\* delete_range's tombstone in kv_rev keeps the types.
LEMMA DeleteRevType ==
  ASSUME TypeInv, NEW t \in Thread, DeleteRev(t)
  PROVE  TypeInv'
  <1> DEFINE done == task[t].done \cup {task[t].key}
             pc == IF done = task[t].keys THEN "del_index" ELSE "del_kv"
             tk == [task[t] EXCEPT !.done = done, !.pc = pc]
  <1>1. task[t] \in Task /\ task[t].key \in Key
    BY DEF DeleteRev, TypeInv, TypeOK, TaskOK
  <1>2. done \in SUBSET Key /\ pc \in {"del_index", "del_kv"} /\ task[t].rev \in Revision
    BY <1>1 DEF Task
  <1>3. task' = [task EXCEPT ![t] = tk]
    BY DEF DeleteRev, TypeInv, TypeOK
  <1> HIDE DEF done, pc
  <1>4. tk \in Task /\ tk.pc = pc
    BY <1>1, <1>2 DEF Task, Pc
  <1>5. task' \in [Thread -> Task] /\ TaskOK'
    BY <1>2, <1>3, <1>4, OneTaskChanges
  <1>6. kv_rev' \in [Revision \X Key -> KeyValue \cup {None}]
    BY <1>2, TombstoneType DEF DeleteRev, TypeInv, TypeOK
  <1> QED
    BY <1>5, <1>6 DEF DeleteRev, TypeInv, TypeOK

\* delete_range's index update keeps the types.
LEMMA DeleteIndexType ==
  ASSUME TypeInv, NEW t \in Thread, DeleteIndex(t)
  PROVE  TypeInv'
  <1>1. task[t].rev \in Nat
    BY DEF TypeInv, TypeOK, Task, Revision
  <1>2. \A k \in Key : /\ key_index[k] \in Seq(Generation)
                       /\ IndexTombstone(key_index[k], task[t].rev) \in Seq(Generation)
    BY <1>1, IndexTombstoneAdds DEF TypeInv, TypeOK
  <1>3. key_index' \in [Key -> Seq(Generation)]
    BY <1>2 DEF DeleteIndex
  <1>4. task' \in [Thread -> Task] /\ TaskOK'
    BY TaskEnds DEF DeleteIndex
  <1> QED
    BY <1>3, <1>4 DEF DeleteIndex, TypeInv, TypeOK

\* A lookup of the index at a revision finds revisions up to it.
LEMMA IndexRangeType ==
  ASSUME TypeInv, NEW ks, NEW r \in Revision
  PROVE  IndexRange(ks, r) \in [Key -> Revision]
  <1>1. ASSUME NEW k \in Key PROVE RevisionAt(key_index[k], r) \in Revision
    <2>1. key_index[k] \in Seq(Generation) /\ r \in Nat
      BY DEF TypeInv, TypeOK, Revision
    <2> DEFINE rev == RevisionAt(key_index[k], r)
    <2>2. rev \in Nat /\ (rev = Gone \/ rev <= r)
      BY <2>1, RevisionAtListed, RevisionAtType
    <2> HIDE DEF rev
    <2>3. rev \in Revision
      BY <2>2 DEF Revision, Gone
    <2> QED
      BY <2>3 DEF rev
  <1> QED
    BY <1>1 DEF IndexRange, Revision, Gone

\* range's revision check keeps the types.
LEMMA RangeStartType ==
  ASSUME TypeInv, NEW t \in Thread, NEW ks \in ReadRange, NEW r \in 0..current_revision,
         RangeStart(t, ks, r)
  PROVE  TypeInv'
  <1> DEFINE rev == IF r = 0 THEN current_revision ELSE r
             latest == (r = 0 \/ r >= current_revision)
             tk == [Idle EXCEPT !.pc = "range_index", !.keys = ks, !.rev = rev, !.latest = latest]
  <1>1. rev \in Revision /\ latest \in BOOLEAN /\ ks \in SUBSET Key
    BY DEF TypeInv, TypeOK, Revision
  <1>2. task' = [task EXCEPT ![t] = tk]
    BY DEF RangeStart
  <1> HIDE DEF rev, latest
  <1>3. tk \in Task /\ tk.pc = "range_index"
    BY <1>1, IdleType DEF Task, Pc
  <1> QED
    BY <1>2, <1>3, MovesOn DEF RangeStart

\* range's index lookup keeps the types.
LEMMA RangeIndexType ==
  ASSUME TypeInv, NEW t \in Thread, RangeIndex(t)
  PROVE  TypeInv'
  <1> DEFINE found == IndexRange(task[t].keys, task[t].rev)
             done == {k \in Key : found[k] = Gone}
             tk == [task[t] EXCEPT !.pc = "range_read", !.found = found, !.done = done]
  <1>1. task[t] \in Task /\ task[t].rev \in Revision
    BY DEF TypeInv, TypeOK, Task
  <1>2. found \in [Key -> Revision] /\ done \in SUBSET Key
    BY <1>1, IndexRangeType
  <1>3. task' = [task EXCEPT ![t] = tk]
    BY DEF RangeIndex, TypeInv, TypeOK
  <1> HIDE DEF found, done
  <1>4. tk \in Task /\ tk.pc = "range_read"
    BY <1>1, <1>2 DEF Task, Pc
  <1> QED
    BY <1>3, <1>4, MovesOn DEF RangeIndex

\* range's read of one key keeps the types.
LEMMA RangeReadType ==
  ASSUME TypeInv, NEW t \in Thread, NEW k \in Key, RangeRead(t, k)
  PROVE  TypeInv'
  <1> DEFINE kvs == [task[t].kvs EXCEPT ![k] = ReadKey(task[t], k)]
             done == task[t].done \cup {k}
             tk == [task[t] EXCEPT !.kvs = kvs, !.done = done]
  <1>1. /\ task[t] \in Task /\ task[t].found[k] \in Revision
        /\ task[t].kvs \in [Key -> KeyValue \cup {None}] /\ task[t].done \in SUBSET Key
    BY DEF TypeInv, TypeOK, Task
  <1>2. ReadKey(task[t], k) \in KeyValue \cup {None}
    BY <1>1 DEF ReadKey, TypeInv, TypeOK
  <1>3. kvs \in [Key -> KeyValue \cup {None}] /\ done \in SUBSET Key
    BY <1>1, <1>2
  <1>4. task' = [task EXCEPT ![t] = tk]
    BY DEF RangeRead, TypeInv, TypeOK
  <1> HIDE DEF kvs, done
  <1>5. tk \in Task /\ tk.pc = task[t].pc
    BY <1>1, <1>3 DEF Task
  <1> QED
    BY <1>4, <1>5, MovesOn DEF RangeRead

\* range's reply keeps the types.
LEMMA RangeReplyType ==
  ASSUME TypeInv, NEW t \in Thread, RangeReply(t)
  PROVE  TypeInv'
  <1>1. /\ task[t].rev \in Revision /\ task[t].keys \in SUBSET Key
        /\ task[t].kvs \in [Key -> KeyValue \cup {None}]
    BY DEF TypeInv, TypeOK, Task
  <1>2. read' \in [Thread -> Read \cup {None}]
    BY <1>1 DEF RangeReply, TypeInv, TypeOK, Read
  <1>3. task' \in [Thread -> Task] /\ TaskOK'
    BY TaskEnds DEF RangeReply
  <1> QED
    BY <1>2, <1>3 DEF RangeReply, TypeInv, TypeOK, storeVars

\* compact's check and its new compact_revision keeps the types.
LEMMA CompactStartType ==
  ASSUME TypeInv, NEW t \in Thread, NEW r \in 1..MaxRevision, CompactStart(t, r)
  PROVE  TypeInv'
  <1> DEFINE tk == [Idle EXCEPT !.pc = "compact_index", !.rev = r]
  <1>1. r \in Revision
    BY DEF Revision
  <1>2. tk \in Task /\ tk.pc = "compact_index"
    BY <1>1, IdleType DEF Task, Pc
  <1>3. task' \in [Thread -> Task] /\ TaskOK'
    BY <1>2, OneTaskChanges DEF CompactStart
  <1> QED
    BY <1>1, <1>3 DEF CompactStart, TypeInv, TypeOK

\* compact's pass over the index keeps the types.
LEMMA CompactIndexType ==
  ASSUME TypeInv, NEW t \in Thread, CompactIndex(t)
  PROVE  TypeInv'
  <1> DEFINE tk == [task[t] EXCEPT !.pc = "compact_trees"]
  <1>1. task[t] \in Task /\ task[t].rev \in Nat
    BY DEF TypeInv, TypeOK, Task, Revision
  <1>2. tk \in Task /\ tk.pc = "compact_trees"
    BY <1>1 DEF Task, Pc
  <1>3. task' = [task EXCEPT ![t] = tk]
    BY DEF CompactIndex, TypeInv, TypeOK
  <1> HIDE DEF tk
  <1>4. task' \in [Thread -> Task] /\ TaskOK'
    BY <1>2, <1>3, OneTaskChanges
  <1>5. \A k \in Key : IndexCompact(key_index[k], task[t].rev) \in Seq(Generation)
    BY <1>1, IndexCompactAdds DEF TypeInv, TypeOK
  <1>6. key_index' \in [Key -> Seq(Generation)]
    BY <1>5 DEF CompactIndex
  <1> QED
    BY <1>4, <1>6 DEF CompactIndex, TypeInv, TypeOK

\* compact's pass over the trees keeps the types.
LEMMA CompactTreesType ==
  ASSUME TypeInv, NEW t \in Thread, CompactTrees(t)
  PROVE  TypeInv'
  <1>1. kv_rev' \in [Revision \X Key -> KeyValue \cup {None}]
    BY DEF CompactTrees, KeptFrom, TypeInv, TypeOK
  <1>2. compacted' \in Revision
    BY DEF CompactTrees, TypeInv, TypeOK, Task
  <1>3. task' \in [Thread -> Task] /\ TaskOK'
    BY TaskEnds DEF CompactTrees
  <1> QED
    BY <1>1, <1>2, <1>3 DEF CompactTrees, TypeInv, TypeOK

\* create_snapshot's read of the revisions keeps the types.
LEMMA SnapshotStartType ==
  ASSUME TypeInv, NEW t \in Thread, SnapshotStart(t)
  PROVE  TypeInv'
  <1> DEFINE tk == [Idle EXCEPT !.pc = "snapshot_kv", !.rev = current_revision,
                                !.compact = compact_revision]
  <1>0. current_revision \in Revision /\ compact_revision \in Revision
    BY DEF TypeInv, TypeOK
  <1>1. tk \in Task /\ tk.pc = "snapshot_kv"
    BY <1>0, IdleType DEF Task, Pc
  <1>2. task' = [task EXCEPT ![t] = tk]
    BY DEF SnapshotStart
  <1> HIDE DEF tk
  <1> QED
    BY <1>1, <1>2, MovesOn DEF SnapshotStart

\* create_snapshot's copy of kv keeps the types.
LEMMA SnapshotKvType ==
  ASSUME TypeInv, NEW t \in Thread, SnapshotKv(t)
  PROVE  TypeInv'
  <1> DEFINE tk == [task[t] EXCEPT !.pc = "snapshot_rev", !.kvs = kv]
  <1>0. task[t] \in Task /\ kv \in [Key -> KeyValue \cup {None}]
    BY DEF TypeInv, TypeOK
  <1>1. tk \in Task /\ tk.pc = "snapshot_rev"
    BY <1>0 DEF Task, Pc
  <1>2. task' = [task EXCEPT ![t] = tk]
    BY DEF SnapshotKv, TypeInv, TypeOK
  <1> HIDE DEF tk
  <1> QED
    BY <1>1, <1>2, MovesOn DEF SnapshotKv

\* create_snapshot's copy of kv_rev keeps the types.
LEMMA SnapshotRevType ==
  ASSUME TypeInv, NEW t \in Thread, SnapshotRev(t)
  PROVE  TypeInv'
  <1>1. /\ task[t].rev \in Revision /\ task[t].compact \in Revision
        /\ task[t].kvs \in [Key -> KeyValue \cup {None}]
    BY DEF TypeInv, TypeOK, Task
  <1>2. SnapshotData(task[t]) \in Snapshot
    BY <1>1 DEF SnapshotData, Snapshot, TypeInv, TypeOK
  <1>3. task' \in [Thread -> Task] /\ TaskOK'
    BY TaskEnds DEF SnapshotRev
  <1> QED
    BY <1>2, <1>3 DEF SnapshotRev, TypeInv, TypeOK, storeVars

\* restore_snapshot's clear_all keeps the types.
LEMMA RestoreClearType ==
  ASSUME TypeInv, NEW t \in Thread, NEW data \in Received, RestoreClear(t, data)
  PROVE  TypeInv'
  <1> DEFINE tk == [Idle EXCEPT !.pc = "restore_trees", !.data = data]
  <1>1. data \in Snapshot
    BY ReceivedType
  <1>2. tk \in Task /\ tk.pc = "restore_trees" /\ tk.data = data
    BY <1>1, IdleType DEF Task, Pc
  <1>3. task' = [task EXCEPT ![t] = tk]
    BY DEF RestoreClear
  <1> HIDE DEF tk
  <1>4. task' \in [Thread -> Task] /\ TaskOK'
    BY <1>1, <1>2, <1>3, OneTaskChanges
  <1>5. /\ kv' \in [Key -> KeyValue \cup {None}]
        /\ kv_rev' \in [Revision \X Key -> KeyValue \cup {None}]
    BY DEF RestoreClear, NoKeyValues
  <1> QED
    BY <1>4, <1>5 DEF RestoreClear, TypeInv, TypeOK

\* restore_snapshot's refill of the trees keeps the types.
LEMMA RestoreTreesType ==
  ASSUME TypeInv, NEW t \in Thread, RestoreTrees(t)
  PROVE  TypeInv'
  <1> DEFINE tk == [task[t] EXCEPT !.pc = "restore_counters"]
  <1>1. task[t] \in Task /\ task[t].data \in Snapshot
    BY DEF RestoreTrees, TypeInv, TypeOK, TaskOK
  <1>2. tk \in Task /\ tk.pc = "restore_counters" /\ tk.data = task[t].data
    BY <1>1 DEF Task, Pc
  <1>3. task' = [task EXCEPT ![t] = tk]
    BY DEF RestoreTrees, TypeInv, TypeOK
  <1> HIDE DEF tk
  <1>4. task' \in [Thread -> Task] /\ TaskOK'
    BY <1>1, <1>2, <1>3, OneTaskChanges
  <1>5. /\ task[t].data.kv \in [Key -> KeyValue \cup {None}]
        /\ task[t].data.kv_rev \in [Revision \X Key -> KeyValue \cup {None}]
    BY <1>1 DEF Snapshot
  <1>6. /\ kv' \in [Key -> KeyValue \cup {None}]
        /\ kv_rev' \in [Revision \X Key -> KeyValue \cup {None}]
    BY <1>5 DEF RestoreTrees, Overlay, TypeInv, TypeOK
  <1> QED
    BY <1>4, <1>6 DEF RestoreTrees, TypeInv, TypeOK

\* restore_snapshot's reset of the revisions keeps the types.
LEMMA RestoreCountersType ==
  ASSUME TypeInv, NEW t \in Thread, RestoreCounters(t)
  PROVE  TypeInv'
  <1> DEFINE tk == [task[t] EXCEPT !.pc = "restore_index"]
  <1>1. task[t] \in Task /\ task[t].data \in Snapshot
    BY DEF RestoreCounters, TypeInv, TypeOK, TaskOK
  <1>2. tk \in Task /\ tk.pc = "restore_index"
    BY <1>1 DEF Task, Pc
  <1>3. task' = [task EXCEPT ![t] = tk]
    BY DEF RestoreCounters, TypeInv, TypeOK
  <1> HIDE DEF tk
  <1>4. task' \in [Thread -> Task] /\ TaskOK'
    BY <1>2, <1>3, OneTaskChanges
  <1>5. task[t].data.current \in Revision /\ task[t].data.compact \in Revision
    BY <1>1 DEF Snapshot
  <1>6. history' \in [Revision -> Write]
    BY <1>1 DEF RestoreCounters, Snapshot
  <1> QED
    BY <1>4, <1>5, <1>6 DEF RestoreCounters, TypeInv, TypeOK

\* rebuild_key_index keeps the types.
LEMMA RestoreIndexType ==
  ASSUME TypeInv, NEW t \in Thread, RestoreIndex(t)
  PROVE  TypeInv'
  <1>1. ASSUME NEW k \in Key, kv[k] # None
        PROVE  IndexPut(<<>>, kv[k].mod) \in Seq(Generation)
    <2>1. kv[k].mod \in Nat
      BY <1>1 DEF TypeInv, TypeOK, KeyValue, Revision
    <2>2. <<>> \in Seq(Generation)
      OBVIOUS
    <2> QED
      BY <2>1, <2>2, IndexPutAdds
  <1>2. key_index' \in [Key -> Seq(Generation)]
    BY <1>1 DEF RestoreIndex, IndexRebuilt
  <1>3. task' \in [Thread -> Task] /\ TaskOK'
    BY TaskEnds DEF RestoreIndex
  <1> QED
    BY <1>2, <1>3 DEF RestoreIndex, TypeInv, TypeOK

\* A restart of the process keeps the types.
LEMMA RestartType ==
  ASSUME TypeInv, Restart
  PROVE  TypeInv'
  <1>1. task' \in [Thread -> Task] /\ TaskOK'
    BY IdleType DEF Restart, TaskOK
  <1>2. 1 \in Revision /\ 0 \in Revision
    BY DEF Revision
  <1>3. key_index' \in [Key -> Seq(Generation)]
    BY DEF Restart
  <1> QED
    BY <1>1, <1>2, <1>3 DEF Restart, TypeInv, TypeOK

\* The initial state is well typed.
LEMMA InitType == Init => TypeInv
  <1> SUFFICES ASSUME Init PROVE TypeInv
    OBVIOUS
  <1>1. 1 \in Revision /\ 0 \in Revision
    BY DEF Revision
  <1>2. task \in [Thread -> Task] /\ TaskOK
    BY IdleType DEF Init, TaskOK
  <1>3. key_index \in [Key -> Seq(Generation)] /\ NoWrite \in Write
    BY DEF Init, NoWrite, Write
  <1> QED
    BY <1>1, <1>2, <1>3 DEF Init, TypeInv, TypeOK, NoKeyValues

\* Every step keeps the types.
LEMMA NextType == TypeInv /\ [Next]_vars => TypeInv'
  <1> SUFFICES ASSUME TypeInv, [Next]_vars PROVE TypeInv'
    OBVIOUS
  <1>1. ASSUME NEW t \in Thread, PutNext(t) PROVE TypeInv'
    BY <1>1, PutAllocateType, PutReadType, PutKvType, PutRevType, PutIndexType DEF PutNext
  <1>2. ASSUME NEW t \in Thread, DeleteNext(t) PROVE TypeInv'
    BY <1>2, DeleteAllocateType, DeleteScanType, DeleteReadType, DeleteKvType,
       DeleteRevType, DeleteIndexType DEF DeleteNext
  <1>3. ASSUME NEW t \in Thread, RangeNext(t) PROVE TypeInv'
    BY <1>3, RangeStartType, RangeIndexType, RangeReadType, RangeReplyType DEF RangeNext
  <1>4. ASSUME NEW t \in Thread, CompactNext(t) PROVE TypeInv'
    BY <1>4, CompactStartType, CompactIndexType, CompactTreesType DEF CompactNext
  <1>5. ASSUME NEW t \in Thread, SnapshotNext(t) PROVE TypeInv'
    BY <1>5, SnapshotStartType, SnapshotKvType, SnapshotRevType, RestoreClearType,
       RestoreTreesType, RestoreCountersType, RestoreIndexType DEF SnapshotNext
  <1>6. CASE UNCHANGED vars
    BY <1>6 DEF vars, storeVars, TypeInv, TypeOK, TaskOK
  <1> QED
    BY <1>1, <1>2, <1>3, <1>4, <1>5, <1>6, RestartType DEF Next

\* Every variable keeps its type under any interleaving of puts, deletes,
\* ranges, compactions, snapshots, restores and restarts: in particular no
\* revision exceeds what next_revision has handed out, and the index never
\* names a revision above the one it was asked for.
THEOREM TypeCorrect == Spec => []TypeOK
  <1>1. TypeInv => TypeOK
    BY DEF TypeInv
  <1> QED
    BY <1>1, InitType, NextType, PTL DEF Spec
=============================================================================
