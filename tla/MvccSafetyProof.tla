-------------------------- MODULE MvccSafetyProof --------------------------
(***************************************************************************)
(* Proofs of what concurrent writers, readers and compactions of the MVCC  *)
(* store preserve while no snapshot is installed.  IndexBacked also        *)
(* survives restarts; that revisions are never reused does not, and is     *)
(* proved for a process that is not restarted.  The second half is about   *)
(* one caller at a time, with snapshots but without compaction and         *)
(* restart: what a range returns is what the writes left.                  *)
(***************************************************************************)
EXTENDS MvccProof, MvccReads

SnapshotPc == {"snapshot_kv", "snapshot_rev",
               "restore_trees", "restore_counters", "restore_index"}

\* Nothing makes or installs a snapshot.
NoSnapshots == snapshot = None /\ \A t \in Thread : task[t].pc \notin SnapshotPc

-----------------------------------------------------------------------------
(***************************************************************************)
(* IndexBacked.  The index names a revision only after kv_rev has it: so   *)
(* each writer must have in kv_rev what it is about to enter, and a        *)
(* compaction that takes entries away must have raised the compaction      *)
(* point above them.                                                       *)
(***************************************************************************)

\* kv_rev holds revision r of k, unless it has been compacted.
Backed(r, k) == r >= compacted => kv_rev[<<r, k>>] # None

\* An entry of kv_rev is of the revision it is filed under.
FiledUnderMod == \A rk \in Revision \X Key : kv_rev[rk] # None => kv_rev[rk].mod = rk[1]

Listed ==
  \A k \in Key : \A r \in Revisions(key_index[k]) :
    r # Gone => r \in Revision /\ Backed(r, k)

\* What a writer has still to enter in the index is in kv_rev.
TaskBacked(tk) ==
  /\ tk.pc = "put_index" => Backed(tk.rev, tk.key)
  /\ tk.pc \in {"del_kv", "del_rev"} => \A k \in tk.done : Backed(tk.rev, k)
  /\ tk.pc = "del_index" => \A k \in tk.keys : Backed(tk.rev, k)

BackedInv ==
  /\ TypeInv /\ NoSnapshots /\ FiledUnderMod /\ Listed
  /\ \A t \in Thread : TaskBacked(task[t])

\* The invariant implies the property.
LEMMA BackedInvGivesIndexBacked == BackedInv => IndexBacked
  <1> SUFFICES ASSUME BackedInv, NEW k \in Key, NEW g \in DOMAIN key_index[k],
                      NEW p \in DOMAIN key_index[k][g].revs,
                      key_index[k][g].revs[p] # Gone, key_index[k][g].revs[p] >= compacted
               PROVE  LET r == key_index[k][g].revs[p]
                      IN kv_rev[<<r, k>>] # None /\ kv_rev[<<r, k>>].mod = r
    BY DEF IndexBacked
  <1> DEFINE r == key_index[k][g].revs[p]
  <1>1. key_index[k] \in Seq(Generation)
    BY DEF BackedInv, TypeInv, TypeOK
  <1>2. key_index[k][g] \in Generation
    BY <1>1
  <1>3. r \in Nat
    BY <1>2 DEF Generation
  <1>4. r \in Revisions(key_index[k])
    BY <1>3 DEF Revisions
  <1> HIDE DEF r
  <1>5. r \in Revision /\ Backed(r, k)
    BY <1>4 DEF BackedInv, Listed, r
  <1>6. kv_rev[<<r, k>>] # None
    BY <1>5 DEF Backed, r
  <1>7. kv_rev[<<r, k>>].mod = r
    BY <1>5, <1>6 DEF BackedInv, FiledUnderMod
  <1> QED
    BY <1>6, <1>7 DEF r

\* The store starts empty.
LEMMA InitBacked == Init => BackedInv
  <1> SUFFICES ASSUME Init PROVE BackedInv
    OBVIOUS
  <1>1. TypeInv
    BY InitType
  <1>2. NoSnapshots /\ \A t \in Thread : TaskBacked(task[t])
    BY IdleType DEF Init, NoSnapshots, SnapshotPc, TaskBacked
  <1>3. FiledUnderMod
    BY DEF Init, FiledUnderMod
  <1>4. Listed
    BY DEF Init, Listed, Revisions
  <1> QED
    BY <1>1, <1>2, <1>3, <1>4 DEF BackedInv

\* A step that touches neither kv_rev nor the index, and moves thread t on to
\* tk.
LEMMA TaskMovesBacked ==
  ASSUME BackedInv, TypeInv', NEW t \in Thread, NEW tk, task' = [task EXCEPT ![t] = tk],
         UNCHANGED <<kv_rev, compacted, key_index, snapshot>>,
         TaskBacked(tk), tk.pc \notin SnapshotPc
  PROVE  BackedInv'
  <1>1. NoSnapshots' /\ FiledUnderMod' /\ Listed'
    BY DEF BackedInv, TypeInv, TypeOK, NoSnapshots, FiledUnderMod, Listed, Backed
  <1>2. \A u \in Thread : TaskBacked(task[u])'
    BY DEF BackedInv, TypeInv, TypeOK, TaskBacked, Backed
  <1> QED
    BY <1>1, <1>2 DEF BackedInv

\* put before its write to kv_rev, delete_range before its first write to it,
\* and the steps of range and compact that only read or count.
LEMMA QuietStepBacked ==
  ASSUME BackedInv, TypeInv', NEW t \in Thread,
         \/ \E k \in Key, v \in Value : PutAllocate(t, k, v)
         \/ PutRead(t) \/ PutKv(t)
         \/ \E ks \in DeleteRange : DeleteAllocate(t, ks)
         \/ DeleteScan(t)
         \/ \E ks \in ReadRange, r \in 0..current_revision : RangeStart(t, ks, r)
         \/ RangeIndex(t) \/ RangeReply(t)
         \/ \E k \in Key : RangeRead(t, k)
         \/ \E r \in 1..MaxRevision : CompactStart(t, r)
  PROVE  BackedInv'
  <1> DEFINE tk == task'[t]
  <1>1. task \in [Thread -> Task] /\ task[t] \in Task
    BY DEF BackedInv, TypeInv, TypeOK
  <1>2. UNCHANGED <<kv_rev, compacted, key_index, snapshot>>
    BY DEF PutAllocate, PutRead, PutKv, DeleteAllocate, DeleteScan, RangeStart, RangeIndex,
           RangeReply, RangeRead, CompactStart, storeVars
  <1>3. task' = [task EXCEPT ![t] = tk]
    BY <1>1 DEF PutAllocate, PutRead, PutKv, DeleteAllocate, DeleteScan, RangeStart, RangeIndex,
                RangeReply, RangeRead, CompactStart
  <1>4. \/ tk.pc \in {"idle", "put_read", "put_kv", "put_rev", "del_scan", "del_read",
                      "range_index", "range_read", "compact_index"}
        \/ tk.pc = "del_index" /\ tk.keys = {}
    <2>1. CASE \E k \in Key, v \in Value : PutAllocate(t, k, v)
      <3>1. PICK k \in Key, v \in Value : PutAllocate(t, k, v)
        BY <2>1
      <3>2. tk = [Idle EXCEPT !.pc = "put_read", !.key = k, !.value = v, !.rev = NextRevision]
        BY <1>1, <3>1 DEF PutAllocate
      <3> HIDE DEF tk
      <3> QED
        BY <3>2, IdleType DEF Task
    <2>2. CASE PutRead(t) \/ PutKv(t)
      BY <1>1, <2>2 DEF PutRead, PutKv, Task
    <2>3. CASE \E ks \in DeleteRange : DeleteAllocate(t, ks)
      <3>1. PICK ks \in DeleteRange : DeleteAllocate(t, ks)
        BY <2>3
      <3>2. tk = [Idle EXCEPT !.pc = "del_scan", !.keys = ks, !.rev = NextRevision]
        BY <1>1, <3>1 DEF DeleteAllocate
      <3> HIDE DEF tk
      <3> QED
        BY <3>2, IdleType DEF Task
    <2>4. CASE DeleteScan(t)
      BY <1>1, <2>4 DEF DeleteScan, Task
    <2>5. CASE \E ks \in ReadRange, r \in 0..current_revision : RangeStart(t, ks, r)
      <3>1. PICK ks \in ReadRange, r \in 0..current_revision : RangeStart(t, ks, r)
        BY <2>5
      <3>2. tk = [Idle EXCEPT !.pc = "range_index", !.keys = ks,
                              !.rev = IF r = 0 THEN current_revision ELSE r,
                              !.latest = (r = 0 \/ r >= current_revision)]
        BY <1>1, <3>1 DEF RangeStart
      <3> HIDE DEF tk
      <3> QED
        BY <3>2, IdleType DEF Task
    <2>6. CASE RangeIndex(t)
      BY <1>1, <2>6 DEF RangeIndex, Task
    <2>7. CASE RangeReply(t)
      BY <1>1, <2>7, IdleType DEF RangeReply
    <2>8. CASE \E k \in Key : RangeRead(t, k)
      <3>1. PICK k \in Key : RangeRead(t, k)
        BY <2>8
      <3>2. /\ task[t].pc = "range_read"
            /\ tk = [task[t] EXCEPT !.kvs[k] = ReadKey(task[t], k), !.done = @ \cup {k}]
        BY <1>1, <3>1 DEF RangeRead
      <3> HIDE DEF tk
      <3> QED
        BY <1>1, <3>2 DEF Task
    <2>9. CASE \E r \in 1..MaxRevision : CompactStart(t, r)
      <3>1. PICK r \in 1..MaxRevision : CompactStart(t, r)
        BY <2>9
      <3>2. tk = [Idle EXCEPT !.pc = "compact_index", !.rev = r]
        BY <1>1, <3>1 DEF CompactStart
      <3> HIDE DEF tk
      <3> QED
        BY <3>2, IdleType DEF Task
    <2> QED
      BY <2>1, <2>2, <2>3, <2>4, <2>5, <2>6, <2>7, <2>8, <2>9
  <1>5. TaskBacked(tk) /\ tk.pc \notin SnapshotPc
    BY <1>4 DEF TaskBacked, SnapshotPc
  <1> QED
    BY <1>2, <1>3, <1>5, TaskMovesBacked

\* delete_range's read loop: it comes out with nothing deleted yet.
LEMMA DeleteReadBacked ==
  ASSUME BackedInv, TypeInv', NEW t \in Thread, NEW k \in Key, DeleteRead(t, k)
  PROVE  BackedInv'
  <1> DEFINE keys == IF kv[k] = None THEN task[t].keys \ {k} ELSE task[t].keys
             done == IF kv[k] = None THEN task[t].done ELSE task[t].done \cup {k}
             next == IF done = keys THEN {} ELSE done
             pc == CASE keys = {} -> "del_index"
                     [] keys # {} /\ done = keys -> "del_kv"
                     [] OTHER -> "del_read"
             tk == [task[t] EXCEPT !.keys = keys, !.done = next, !.pc = pc]
  <1>1. task \in [Thread -> Task] /\ task[t] \in Task
    BY DEF BackedInv, TypeInv, TypeOK
  <1>2. task' = [task EXCEPT ![t] = tk]
    BY <1>1 DEF DeleteRead
  <1>3. \/ pc = "del_index" /\ keys = {}
        \/ pc = "del_kv" /\ next = {}
        \/ pc = "del_read"
    OBVIOUS
  <1> HIDE DEF keys, next, pc
  <1>4. tk.pc = pc /\ tk.keys = keys /\ tk.done = next
    BY <1>1 DEF Task
  <1>5. TaskBacked(tk) /\ tk.pc \notin SnapshotPc
    BY <1>3, <1>4 DEF TaskBacked, SnapshotPc
  <1> HIDE DEF tk
  <1>6. UNCHANGED <<kv_rev, compacted, key_index, snapshot>>
    BY DEF DeleteRead, storeVars
  <1> QED
    BY <1>2, <1>5, <1>6, TaskMovesBacked

\* delete_range takes a key out of the kv tree.
LEMMA DeleteKvBacked ==
  ASSUME BackedInv, TypeInv', NEW t \in Thread, NEW k \in Key, DeleteKv(t, k)
  PROVE  BackedInv'
  <1> DEFINE tk == [task[t] EXCEPT !.pc = "del_rev", !.key = k]
  <1>1. task \in [Thread -> Task] /\ task[t] \in Task /\ TaskBacked(task[t])
    BY DEF BackedInv, TypeInv, TypeOK
  <1>2. task' = [task EXCEPT ![t] = tk] /\ task[t].pc = "del_kv"
    BY <1>1 DEF DeleteKv
  <1>3. tk.pc = "del_rev" /\ tk.done = task[t].done /\ tk.rev = task[t].rev
    BY <1>1 DEF Task
  <1>4. TaskBacked(tk) /\ tk.pc \notin SnapshotPc
    BY <1>1, <1>2, <1>3 DEF TaskBacked, SnapshotPc
  <1> HIDE DEF tk
  <1>5. UNCHANGED <<kv_rev, compacted, key_index, snapshot>>
    BY DEF DeleteKv
  <1> QED
    BY <1>2, <1>4, <1>5, TaskMovesBacked

\* A write to kv_rev: an entry is filed under its revision, and nothing is
\* taken away.
LEMMA KvRevWriteBacked ==
  ASSUME BackedInv, TypeInv', NEW t \in Thread,
         \A u \in Thread : u # t => task'[u] = task[u],
         TaskBacked(task[t])', task'[t].pc \notin SnapshotPc,
         NEW r \in Revision, NEW k \in Key, NEW e \in KeyValue, e.mod = r,
         kv_rev' = [kv_rev EXCEPT ![<<r, k>>] = e],
         UNCHANGED <<compacted, key_index, snapshot>>
  PROVE  BackedInv'
  <1>1. e # None
    BY NoneAssumption
  <1>2. \A rk \in Revision \X Key : kv_rev'[rk] = IF rk = <<r, k>> THEN e ELSE kv_rev[rk]
    BY DEF BackedInv, TypeInv, TypeOK
  <1>3. FiledUnderMod'
    BY <1>2 DEF BackedInv, FiledUnderMod
  <1>4. ASSUME NEW q \in Revision, NEW j \in Key, Backed(q, j) PROVE Backed(q, j)'
    BY <1>1, <1>2, <1>4 DEF Backed
  <1>5. Listed'
    BY <1>4 DEF BackedInv, Listed
  <1>6. NoSnapshots'
    BY DEF BackedInv, TypeInv, TypeOK, NoSnapshots
  <1>7. ASSUME NEW u \in Thread, u # t PROVE TaskBacked(task[u])'
    <2>1. task'[u] = task[u] /\ TaskBacked(task[u])
      BY <1>7 DEF BackedInv, TypeInv, TypeOK
    <2>2. task[u].rev \in Revision /\ task[u].done \in SUBSET Key /\ task[u].keys \in SUBSET Key
          /\ (task[u].pc = "put_index" => task[u].key \in Key)
      BY DEF BackedInv, TypeInv, TypeOK, TaskOK, Task
    <2> QED
      BY <1>4, <2>1, <2>2 DEF TaskBacked
  <1> QED
    BY <1>3, <1>5, <1>6, <1>7 DEF BackedInv

\* put writes kv_rev and has then only the index to write.
LEMMA PutRevBacked ==
  ASSUME BackedInv, TypeInv', NEW t \in Thread, PutRev(t)
  PROVE  BackedInv'
  <1> DEFINE tk == [task[t] EXCEPT !.pc = "put_index"]
             e == NewKeyValue(task[t])
  <1>1. task \in [Thread -> Task] /\ task[t] \in Task /\ task[t].key \in Key
    BY DEF BackedInv, TypeInv, TypeOK, TaskOK, PutRev
  <1>2. task[t].rev \in Revision /\ e \in KeyValue /\ e.mod = task[t].rev
    BY <1>1, NewKeyValueType DEF Task
  <1>3. /\ task' = [task EXCEPT ![t] = tk]
        /\ kv_rev' = [kv_rev EXCEPT ![<<task[t].rev, task[t].key>>] = e]
        /\ UNCHANGED <<compacted, key_index, snapshot>>
    BY <1>1 DEF PutRev
  <1>4. tk.pc = "put_index" /\ tk.rev = task[t].rev /\ tk.key = task[t].key
    BY <1>1 DEF Task
  <1> HIDE DEF e
  <1>5. kv_rev'[<<task[t].rev, task[t].key>>] = e
    BY <1>1, <1>2, <1>3 DEF BackedInv, TypeInv, TypeOK
  <1>6. Backed(task[t].rev, task[t].key)'
    <2>1. kv_rev'[<<task[t].rev, task[t].key>>] # None
      BY <1>2, <1>5, NoneAssumption
    <2>2. task'[t].rev = task[t].rev /\ task'[t].key = task[t].key
      BY <1>1, <1>3, <1>4
    <2> QED
      BY <2>1, <2>2 DEF Backed
  <1>7. TaskBacked(task[t])'
    BY <1>1, <1>3, <1>4, <1>6 DEF TaskBacked
  <1>8. task'[t].pc \notin SnapshotPc /\ \A u \in Thread : u # t => task'[u] = task[u]
    BY <1>1, <1>3, <1>4 DEF SnapshotPc
  <1> QED
    BY <1>1, <1>2, <1>3, <1>7, <1>8, KvRevWriteBacked

\* delete_range writes a tombstone; after the last one it has only the index
\* to write.
LEMMA DeleteRevBacked ==
  ASSUME BackedInv, TypeInv', NEW t \in Thread, DeleteRev(t)
  PROVE  BackedInv'
  <1> DEFINE key == task[t].key
             rev == task[t].rev
             done == task[t].done \cup {key}
             pc == IF done = task[t].keys THEN "del_index" ELSE "del_kv"
             tk == [task[t] EXCEPT !.done = done, !.pc = pc]
             e == Tombstone(rev)
  <1>1. /\ task \in [Thread -> Task] /\ task[t] \in Task /\ key \in Key
        /\ task[t].pc = "del_rev" /\ TaskBacked(task[t])
    BY DEF BackedInv, TypeInv, TypeOK, TaskOK, DeleteRev
  <1>2. rev \in Revision /\ e \in KeyValue /\ e.mod = rev /\ task[t].done \in SUBSET Key
    BY <1>1, TombstoneType DEF Task
  <1>3. /\ task' = [task EXCEPT ![t] = tk]
        /\ kv_rev' = [kv_rev EXCEPT ![<<rev, key>>] = e]
        /\ UNCHANGED <<compacted, key_index, snapshot>>
    BY <1>1 DEF DeleteRev
  <1>4. /\ pc = "del_kv" \/ (pc = "del_index" /\ done = task[t].keys)
        /\ tk.pc = pc /\ tk.done = done /\ tk.keys = task[t].keys /\ tk.rev = rev
    BY <1>1 DEF Task
  <1> HIDE DEF e, pc
  <1>5. e # None
    BY <1>2, NoneAssumption
  <1>6. ASSUME NEW k \in done PROVE rev >= compacted => kv_rev'[<<rev, k>>] # None
    <2>1. CASE k = key
      BY <1>1, <1>2, <1>3, <1>5, <2>1 DEF BackedInv, TypeInv, TypeOK
    <2>2. CASE k # key
      <3>1. k \in Key /\ Backed(rev, k)
        BY <1>1, <1>2, <2>2 DEF TaskBacked
      <3>2. kv_rev'[<<rev, k>>] = kv_rev[<<rev, k>>]
        BY <1>2, <1>3, <2>2, <3>1 DEF BackedInv, TypeInv, TypeOK
      <3> QED
        BY <3>1, <3>2 DEF Backed
    <2> QED
      BY <2>1, <2>2
  <1>7. /\ task'[t].pc \in {"del_index", "del_kv"} /\ task'[t].done = done
        /\ task'[t].rev = rev /\ (task'[t].pc = "del_index" => task'[t].keys = done)
    BY <1>1, <1>3, <1>4
  <1> HIDE DEF done, rev, tk
  <1>8. TaskBacked(task[t])'
    BY <1>3, <1>6, <1>7 DEF TaskBacked, Backed
  <1>9. task'[t].pc \notin SnapshotPc /\ \A u \in Thread : u # t => task'[u] = task[u]
    BY <1>1, <1>3, <1>7 DEF SnapshotPc
  <1> QED
    BY <1>1, <1>2, <1>3, <1>8, <1>9, KvRevWriteBacked

\* A change of the index that enters nothing that is not in kv_rev.
LEMMA IndexWriteBacked ==
  ASSUME BackedInv, TypeInv', NEW t \in Thread, NEW tk, task' = [task EXCEPT ![t] = tk],
         tk.pc \in {"idle", "compact_trees"},
         UNCHANGED <<kv_rev, compacted, snapshot>>,
         \A k \in Key : \A r \in Revisions(key_index'[k]) :
           r # Gone => r \in Revisions(key_index[k]) \/ (r \in Revision /\ Backed(r, k))
  PROVE  BackedInv'
  <1>1. Listed'
    BY DEF BackedInv, Listed, Backed
  <1>2. NoSnapshots' /\ FiledUnderMod'
    BY DEF BackedInv, TypeInv, TypeOK, NoSnapshots, FiledUnderMod, SnapshotPc
  <1>3. \A u \in Thread : TaskBacked(task[u])'
    BY DEF BackedInv, TypeInv, TypeOK, TaskBacked, Backed
  <1> QED
    BY <1>1, <1>2, <1>3 DEF BackedInv

\* put enters its revision in the index.
LEMMA PutIndexBacked ==
  ASSUME BackedInv, TypeInv', NEW t \in Thread, PutIndex(t)
  PROVE  BackedInv'
  <1>1. task[t].rev \in Revision /\ task[t].key \in Key /\ Backed(task[t].rev, task[t].key)
    BY DEF BackedInv, TypeInv, TypeOK, TaskOK, Task, TaskBacked, PutIndex
  <1>2. key_index[task[t].key] \in Seq(Generation) /\ task[t].rev \in Nat
    BY <1>1 DEF BackedInv, TypeInv, TypeOK, Revision
  <1>3. ASSUME NEW k \in Key, NEW r \in Revisions(key_index'[k])
        PROVE  r \in Revisions(key_index[k]) \/ (r \in Revision /\ Backed(r, k))
    <2>1. CASE k = task[t].key
      <3>1. key_index'[k] = IndexPut(key_index[k], task[t].rev)
        BY <2>1 DEF PutIndex, BackedInv, TypeInv, TypeOK
      <3> QED
        BY <1>1, <1>2, <2>1, <3>1, IndexPutAdds
    <2>2. CASE k # task[t].key
      BY <2>2 DEF PutIndex, BackedInv, TypeInv, TypeOK
    <2> QED
      BY <2>1, <2>2
  <1> QED
    BY <1>3, IdleType, IndexWriteBacked DEF PutIndex

\* delete_range enters its tombstones in the index.
LEMMA DeleteIndexBacked ==
  ASSUME BackedInv, TypeInv', NEW t \in Thread, DeleteIndex(t)
  PROVE  BackedInv'
  <1>1. task[t].rev \in Revision /\ \A k \in task[t].keys : Backed(task[t].rev, k)
    BY DEF BackedInv, TypeInv, TypeOK, Task, TaskBacked, DeleteIndex
  <1>2. task[t].rev \in Nat
    BY <1>1 DEF Revision
  <1>3. ASSUME NEW k \in Key, NEW r \in Revisions(key_index'[k])
        PROVE  r \in Revisions(key_index[k]) \/ (r \in Revision /\ Backed(r, k))
    <2>1. key_index[k] \in Seq(Generation)
      BY DEF BackedInv, TypeInv, TypeOK
    <2>2. key_index'[k] = IF k \in task[t].keys
                          THEN IndexTombstone(key_index[k], task[t].rev) ELSE key_index[k]
      BY DEF DeleteIndex
    <2>3. CASE k \in task[t].keys
      BY <1>1, <1>2, <2>1, <2>2, <2>3, IndexTombstoneAdds
    <2>4. CASE k \notin task[t].keys
      BY <2>2, <2>4
    <2> QED
      BY <2>3, <2>4
  <1> QED
    BY <1>3, IdleType, IndexWriteBacked DEF DeleteIndex

\* compact drops revisions from the index.
LEMMA CompactIndexBacked ==
  ASSUME BackedInv, TypeInv', NEW t \in Thread, CompactIndex(t)
  PROVE  BackedInv'
  <1> DEFINE tk == [task[t] EXCEPT !.pc = "compact_trees"]
  <1>1. task \in [Thread -> Task] /\ task[t] \in Task /\ task[t].rev \in Nat
    <2>1. task \in [Thread -> Task]
      BY DEF BackedInv, TypeInv, TypeOK
    <2>2. task[t] \in Task
      BY <2>1
    <2> QED
      BY <2>1, <2>2 DEF Task, Revision
  <1>2. task' = [task EXCEPT ![t] = tk] /\ tk.pc = "compact_trees"
    BY <1>1 DEF CompactIndex, Task
  <1> HIDE DEF tk
  <1>3. ASSUME NEW k \in Key, NEW r \in Revisions(key_index'[k]), r # Gone
        PROVE  r \in Revisions(key_index[k])
    <2>1. key_index[k] \in Seq(Generation)
      BY DEF BackedInv, TypeInv, TypeOK
    <2>2. key_index'[k] = IndexCompact(key_index[k], task[t].rev)
      BY DEF CompactIndex
    <2> QED
      BY <1>1, <1>3, <2>1, <2>2, IndexCompactAdds
  <1> QED
    BY <1>2, <1>3, IndexWriteBacked DEF CompactIndex

\* compact drops entries from kv_rev: those below the new compaction point.
LEMMA CompactTreesBacked ==
  ASSUME BackedInv, TypeInv', NEW t \in Thread, CompactTrees(t)
  PROVE  BackedInv'
  <1>1. /\ task[t].rev \in Nat /\ compacted \in Nat /\ compacted' \in Nat
        /\ compacted' >= compacted /\ compacted' >= task[t].rev
    BY DEF BackedInv, TypeInv, TypeOK, Task, Revision, CompactTrees
  <1>2. \A rk \in Revision \X Key :
          kv_rev'[rk] = IF rk[1] < task[t].rev THEN None ELSE kv_rev[rk]
    BY DEF CompactTrees, KeptFrom
  <1>3. ASSUME NEW q \in Revision, NEW j \in Key, Backed(q, j) PROVE Backed(q, j)'
    <2> SUFFICES ASSUME q >= compacted' PROVE kv_rev'[<<q, j>>] # None
      BY DEF Backed
    <2>1. q \in Nat
      BY DEF Revision
    <2>2. q >= compacted /\ ~ (q < task[t].rev)
      BY <1>1, <2>1
    <2> QED
      BY <1>2, <1>3, <2>2 DEF Backed
  <1>4. FiledUnderMod'
    BY <1>2 DEF BackedInv, FiledUnderMod
  <1>5. Listed'
    BY <1>3 DEF BackedInv, Listed, CompactTrees
  <1>6. NoSnapshots'
    BY IdleType DEF BackedInv, TypeInv, TypeOK, NoSnapshots, SnapshotPc, CompactTrees
  <1>7. ASSUME NEW u \in Thread PROVE TaskBacked(task[u])'
    <2>1. CASE u # t
      <3>1. task'[u] = task[u] /\ TaskBacked(task[u])
        BY <2>1 DEF BackedInv, TypeInv, TypeOK, CompactTrees
      <3>2. /\ task[u].rev \in Revision
            /\ task[u].done \in SUBSET Key /\ task[u].keys \in SUBSET Key
            /\ (task[u].pc = "put_index" => task[u].key \in Key)
        BY DEF BackedInv, TypeInv, TypeOK, TaskOK, Task
      <3> QED
        BY <1>3, <3>1, <3>2 DEF TaskBacked
    <2>2. CASE u = t
      <3>1. task'[u].pc = "idle"
        BY <2>2, IdleType DEF BackedInv, TypeInv, TypeOK, CompactTrees
      <3> QED
        BY <3>1 DEF TaskBacked
    <2> QED
      BY <2>1, <2>2
  <1> QED
    BY <1>4, <1>5, <1>6, <1>7 DEF BackedInv

\* After a restart the index is empty and nobody is writing.
LEMMA RestartBacked ==
  ASSUME BackedInv, TypeInv', Restart
  PROVE  BackedInv'
  <1>1. NoSnapshots' /\ \A t \in Thread : TaskBacked(task[t])'
    BY IdleType DEF BackedInv, Restart, NoSnapshots, SnapshotPc, TaskBacked
  <1>2. FiledUnderMod'
    BY DEF BackedInv, Restart, FiledUnderMod
  <1>3. Listed'
    BY DEF Restart, Listed, Revisions
  <1> QED
    BY <1>1, <1>2, <1>3 DEF BackedInv

\* Without snapshots no step of one is enabled.
LEMMA NoSnapshotSteps ==
  ASSUME WithSnapshots = FALSE, TypeInv, NoSnapshots, NEW t \in Thread
  PROVE  ~ SnapshotNext(t)
  <1>1. task[t].pc \notin SnapshotPc /\ snapshot = None
    BY DEF NoSnapshots
  <1> QED
    BY <1>1 DEF SnapshotNext, SnapshotPc, SnapshotStart, SnapshotKv, SnapshotRev, RestoreClear,
                RestoreTrees, RestoreCounters, RestoreIndex

\* Every step keeps the invariant.
LEMMA NextBacked ==
  ASSUME WithSnapshots = FALSE
  PROVE  BackedInv /\ [Next]_vars => BackedInv'
  <1> SUFFICES ASSUME BackedInv, [Next]_vars PROVE BackedInv'
    OBVIOUS
  <1>1. TypeInv'
    BY NextType DEF BackedInv
  <1>2. ASSUME NEW t \in Thread, PutNext(t) PROVE BackedInv'
    BY <1>1, <1>2, QuietStepBacked, PutRevBacked, PutIndexBacked DEF PutNext
  <1>3. ASSUME NEW t \in Thread, DeleteNext(t) PROVE BackedInv'
    BY <1>1, <1>3, QuietStepBacked, DeleteReadBacked, DeleteKvBacked, DeleteRevBacked,
       DeleteIndexBacked DEF DeleteNext
  <1>4. ASSUME NEW t \in Thread, RangeNext(t) PROVE BackedInv'
    BY <1>1, <1>4, QuietStepBacked DEF RangeNext
  <1>5. ASSUME NEW t \in Thread, CompactNext(t) PROVE BackedInv'
    BY <1>1, <1>5, QuietStepBacked, CompactIndexBacked, CompactTreesBacked DEF CompactNext
  <1>6. CASE UNCHANGED vars
    BY <1>1, <1>6 DEF vars, storeVars, BackedInv, NoSnapshots, FiledUnderMod, Listed, Backed,
                      TaskBacked
  <1> QED
    BY <1>1, <1>2, <1>3, <1>4, <1>5, <1>6, RestartBacked, NoSnapshotSteps DEF Next, BackedInv

\* While no snapshot is installed, every revision the index can hand to a
\* historical read is in kv_rev unless it has been compacted away, for any
\* number of threads that put, delete, read and compact, restarts included.
THEOREM IndexStaysBacked ==
  ASSUME WithSnapshots = FALSE
  PROVE  Spec => []IndexBacked
  <1>1. BackedInv /\ [Next]_vars => BackedInv'
    BY NextBacked
  <1> QED
    BY <1>1, InitBacked, BackedInvGivesIndexBacked, PTL DEF Spec

-----------------------------------------------------------------------------
(***************************************************************************)
(* Revisions are handed out once.  A writer between its next_revision and  *)
(* its last write to kv_rev owns its revision: no other writer has it, and *)
(* kv_rev has nothing under it that this writer has not put there.         *)
(***************************************************************************)
WritingPc == {"put_read", "put_kv", "put_rev", "del_scan", "del_read", "del_kv", "del_rev"}

\* The writer owns its revision.
TaskFresh(tk) ==
  tk.pc \in WritingPc =>
    /\ tk.rev <= current_revision
    /\ \A k \in Key : \/ (tk.pc \in {"del_kv", "del_rev"} /\ k \in tk.done)
                       \/ kv_rev[<<tk.rev, k>>] = None
    /\ tk.pc = "del_rev" => tk.key \notin tk.done

OneOwner ==
  \A t, u \in Thread :
    task[t].pc \in WritingPc /\ task[u].pc \in WritingPc /\ task[t].rev = task[u].rev => t = u

FreshInv ==
  /\ TypeInv /\ NoSnapshots /\ RevisionsBehind /\ OneOwner
  /\ \A t \in Thread : TaskFresh(task[t])

\* The store starts without writers.
LEMMA InitFresh == Init => FreshInv
  <1> SUFFICES ASSUME Init PROVE FreshInv
    OBVIOUS
  <1>1. TypeInv
    BY InitType
  <1>2. NoSnapshots /\ OneOwner /\ \A t \in Thread : TaskFresh(task[t])
    BY IdleType DEF Init, NoSnapshots, SnapshotPc, OneOwner, WritingPc, TaskFresh
  <1>3. RevisionsBehind
    BY DEF Init, RevisionsBehind, NoKeyValues
  <1> QED
    BY <1>1, <1>2, <1>3 DEF FreshInv

\* A step that leaves kv_rev and the counter alone and moves thread t on,
\* which keeps its revision if it is still writing.
LEMMA TaskMovesFresh ==
  ASSUME FreshInv, TypeInv', NEW t \in Thread, NEW tk, task' = [task EXCEPT ![t] = tk],
         UNCHANGED <<kv_rev, current_revision, snapshot>>,
         tk.pc \in WritingPc => task[t].pc \in WritingPc /\ tk.rev = task[t].rev,
         TaskFresh(tk), tk.pc \notin SnapshotPc,
         \A k \in Key : kv'[k] # None => kv'[k].mod <= current_revision
  PROVE  FreshInv'
  <1>1. task \in [Thread -> Task]
    BY DEF FreshInv, TypeInv, TypeOK
  <1>2. NoSnapshots' /\ RevisionsBehind'
    BY <1>1 DEF FreshInv, NoSnapshots, RevisionsBehind
  <1>3. OneOwner'
    BY <1>1 DEF FreshInv, OneOwner
  <1>4. \A u \in Thread : TaskFresh(task[u])'
    BY <1>1 DEF FreshInv, TaskFresh
  <1> QED
    BY <1>2, <1>3, <1>4 DEF FreshInv

\* next_revision hands out a revision nobody has and kv_rev does not know.
LEMMA AllocateFresh ==
  ASSUME FreshInv, TypeInv', NEW t \in Thread, NEW tk \in Task, task' = [task EXCEPT ![t] = tk],
         tk.pc \in {"put_read", "del_scan"}, tk.rev = current_revision + 1,
         current_revision' = current_revision + 1,
         UNCHANGED <<kv, kv_rev, snapshot>>
  PROVE  FreshInv'
  <1>1. /\ task \in [Thread -> Task] /\ current_revision \in Nat
        /\ current_revision + 1 \in Revision
    BY DEF FreshInv, TypeInv, TypeOK, Revision
  <1>2. NoSnapshots'
    BY <1>1 DEF FreshInv, NoSnapshots, SnapshotPc
  <1>3. RevisionsBehind'
    <2>1. /\ \A k \in Key : kv[k] # None => kv[k].mod \in Nat
          /\ \A rk \in Revision \X Key : rk[1] \in Nat
      BY DEF FreshInv, TypeInv, TypeOK, KeyValue, Revision
    <2>2. \A n \in Nat : n <= current_revision => n <= current_revision'
      BY <1>1
    <2> QED
      BY <2>1, <2>2 DEF FreshInv, RevisionsBehind
  <1>4. \A k \in Key : kv_rev[<<current_revision + 1, k>>] = None
    <2> SUFFICES ASSUME NEW k \in Key, kv_rev[<<current_revision + 1, k>>] # None PROVE FALSE
      OBVIOUS
    <2>1. <<current_revision + 1, k>>[1] <= current_revision
      BY <1>1 DEF FreshInv, RevisionsBehind
    <2> QED
      BY <1>1, <2>1
  <1>5. ASSUME NEW u \in Thread, u # t, task[u].pc \in WritingPc
        PROVE  task[u].rev \in Nat /\ task[u].rev <= current_revision
    BY <1>1, <1>5 DEF FreshInv, TaskFresh, Task, Revision
  <1>6. OneOwner'
    BY <1>1, <1>5 DEF FreshInv, OneOwner, WritingPc
  <1>7. ASSUME NEW u \in Thread PROVE TaskFresh(task[u])'
    <2>1. CASE u = t
      BY <1>1, <1>4, <2>1 DEF TaskFresh
    <2>2. CASE u # t
      <3>1. task'[u] = task[u] /\ TaskFresh(task[u])
        BY <1>1, <2>2 DEF FreshInv
      <3> QED
        BY <1>1, <1>5, <2>2, <3>1 DEF TaskFresh
    <2> QED
      BY <2>1, <2>2
  <1> QED
    BY <1>2, <1>3, <1>6, <1>7 DEF FreshInv

\* put and delete_range begin.
LEMMA BeginFresh ==
  ASSUME FreshInv, TypeInv', NEW t \in Thread,
         \/ \E k \in Key, v \in Value : PutAllocate(t, k, v)
         \/ \E ks \in DeleteRange : DeleteAllocate(t, ks)
  PROVE  FreshInv'
  <1>1. task \in [Thread -> Task] /\ task'[t] \in Task
    BY DEF FreshInv, TypeInv, TypeOK
  <1>2. CASE \E k \in Key, v \in Value : PutAllocate(t, k, v)
    <2>1. PICK k \in Key, v \in Value : PutAllocate(t, k, v)
      BY <1>2
    <2> DEFINE tk == [Idle EXCEPT !.pc = "put_read", !.key = k, !.value = v, !.rev = NextRevision]
    <2>2. task' = [task EXCEPT ![t] = tk]
      BY <2>1 DEF PutAllocate
    <2>3. tk.pc = "put_read" /\ tk.rev = current_revision + 1
      BY IdleType DEF Task, NextRevision
    <2> HIDE DEF tk
    <2>4. tk \in Task
      BY <1>1, <2>2
    <2> QED
      BY <2>1, <2>2, <2>3, <2>4, AllocateFresh DEF PutAllocate, NextRevision
  <1>3. CASE \E ks \in DeleteRange : DeleteAllocate(t, ks)
    <2>1. PICK ks \in DeleteRange : DeleteAllocate(t, ks)
      BY <1>3
    <2> DEFINE tk == [Idle EXCEPT !.pc = "del_scan", !.keys = ks, !.rev = NextRevision]
    <2>2. task' = [task EXCEPT ![t] = tk]
      BY <2>1 DEF DeleteAllocate
    <2>3. tk.pc = "del_scan" /\ tk.rev = current_revision + 1
      BY IdleType DEF Task, NextRevision
    <2> HIDE DEF tk
    <2>4. tk \in Task
      BY <1>1, <2>2
    <2> QED
      BY <2>1, <2>2, <2>3, <2>4, AllocateFresh DEF DeleteAllocate, NextRevision
  <1> QED
    BY <1>2, <1>3

\* Steps of tasks that have nothing to write to kv_rev.
LEMMA ReadersFresh ==
  ASSUME FreshInv, TypeInv', NEW t \in Thread,
         \/ PutIndex(t) \/ DeleteIndex(t)
         \/ \E ks \in ReadRange, r \in 0..current_revision : RangeStart(t, ks, r)
         \/ RangeIndex(t) \/ RangeReply(t)
         \/ \E k \in Key : RangeRead(t, k)
         \/ \E r \in 1..MaxRevision : CompactStart(t, r)
         \/ CompactIndex(t)
  PROVE  FreshInv'
  <1> DEFINE tk == task'[t]
  <1>1. task \in [Thread -> Task] /\ task[t] \in Task
    BY DEF FreshInv, TypeInv, TypeOK
  <1>2. UNCHANGED <<kv, kv_rev, current_revision, snapshot>>
    BY DEF PutIndex, DeleteIndex, RangeStart, RangeIndex, RangeReply, RangeRead, CompactStart,
           CompactIndex, storeVars
  <1>3. task' = [task EXCEPT ![t] = tk]
    BY <1>1 DEF PutIndex, DeleteIndex, RangeStart, RangeIndex, RangeReply, RangeRead,
                CompactStart, CompactIndex
  <1>4. tk.pc \in {"idle", "range_index", "range_read", "compact_index", "compact_trees"}
    <2>1. CASE PutIndex(t) \/ DeleteIndex(t) \/ RangeReply(t)
      BY <1>1, <2>1, IdleType DEF PutIndex, DeleteIndex, RangeReply
    <2>2. CASE \E ks \in ReadRange, r \in 0..current_revision : RangeStart(t, ks, r)
      <3>1. PICK ks \in ReadRange, r \in 0..current_revision : RangeStart(t, ks, r)
        BY <2>2
      <3>2. tk = [Idle EXCEPT !.pc = "range_index", !.keys = ks,
                              !.rev = IF r = 0 THEN current_revision ELSE r,
                              !.latest = (r = 0 \/ r >= current_revision)]
        BY <1>1, <3>1 DEF RangeStart
      <3> HIDE DEF tk
      <3> QED
        BY <3>2, IdleType DEF Task
    <2>3. CASE RangeIndex(t) \/ CompactIndex(t)
      BY <1>1, <2>3 DEF RangeIndex, CompactIndex, Task
    <2>4. CASE \E k \in Key : RangeRead(t, k)
      <3>1. PICK k \in Key : RangeRead(t, k)
        BY <2>4
      <3>2. /\ task[t].pc = "range_read"
            /\ tk = [task[t] EXCEPT !.kvs[k] = ReadKey(task[t], k), !.done = @ \cup {k}]
        BY <1>1, <3>1 DEF RangeRead
      <3> HIDE DEF tk
      <3> QED
        BY <1>1, <3>2 DEF Task
    <2>5. CASE \E r \in 1..MaxRevision : CompactStart(t, r)
      <3>1. PICK r \in 1..MaxRevision : CompactStart(t, r)
        BY <2>5
      <3>2. tk = [Idle EXCEPT !.pc = "compact_index", !.rev = r]
        BY <1>1, <3>1 DEF CompactStart
      <3> HIDE DEF tk
      <3> QED
        BY <3>2, IdleType DEF Task
    <2> QED
      BY <2>1, <2>2, <2>3, <2>4, <2>5
  <1>5. tk.pc \notin WritingPc /\ TaskFresh(tk) /\ tk.pc \notin SnapshotPc
    BY <1>4 DEF TaskFresh, WritingPc, SnapshotPc
  <1>6. \A k \in Key : kv'[k] # None => kv'[k].mod <= current_revision
    BY <1>2 DEF FreshInv, RevisionsBehind
  <1> QED
    BY <1>2, <1>3, <1>5, <1>6, TaskMovesFresh

\* put reads and writes the kv tree.
LEMMA PutKvFresh ==
  ASSUME FreshInv, TypeInv', NEW t \in Thread, PutRead(t) \/ PutKv(t)
  PROVE  FreshInv'
  <1> DEFINE tk == task'[t]
  <1>1. task \in [Thread -> Task] /\ task[t] \in Task /\ TaskFresh(task[t])
    BY DEF FreshInv, TypeInv, TypeOK
  <1>2. task[t].pc \in {"put_read", "put_kv"} /\ task[t].key \in Key
    BY DEF PutRead, PutKv, FreshInv, TypeInv, TaskOK
  <1>3. UNCHANGED <<kv_rev, current_revision, snapshot>> /\ task' = [task EXCEPT ![t] = tk]
    BY <1>1 DEF PutRead, PutKv, storeVars
  <1>4. tk.pc \in {"put_kv", "put_rev"} /\ tk.rev = task[t].rev
    BY <1>1 DEF PutRead, PutKv, Task
  <1>5. tk.pc \in WritingPc /\ task[t].pc \in WritingPc /\ tk.pc \notin SnapshotPc
    BY <1>2, <1>4 DEF WritingPc, SnapshotPc
  <1>6. TaskFresh(tk)
    BY <1>1, <1>2, <1>4, <1>5 DEF TaskFresh
  <1>7. ASSUME NEW k \in Key, kv'[k] # None PROVE kv'[k].mod <= current_revision
    <2>1. CASE kv' = kv
      BY <1>7, <2>1 DEF FreshInv, RevisionsBehind
    <2>2. CASE PutKv(t)
      <3>1. kv'[k] = IF k = task[t].key THEN NewKeyValue(task[t]) ELSE kv[k]
        BY <1>2, <2>2 DEF PutKv, FreshInv, TypeInv, TypeOK
      <3>2. NewKeyValue(task[t]).mod = task[t].rev /\ task[t].rev <= current_revision
        BY <1>1, <1>5, NewKeyValueType DEF TaskFresh
      <3> QED
        BY <1>7, <3>1, <3>2 DEF FreshInv, RevisionsBehind
    <2> QED
      BY <2>1, <2>2 DEF PutRead, storeVars
  <1> HIDE DEF tk
  <1> QED
    BY <1>3, <1>4, <1>5, <1>6, <1>7, TaskMovesFresh

\* delete_range looks for keys and takes them out of the kv tree.
LEMMA DeleteKvFresh ==
  ASSUME FreshInv, TypeInv', NEW t \in Thread,
         DeleteScan(t) \/ \E k \in Key : DeleteRead(t, k) \/ DeleteKv(t, k)
  PROVE  FreshInv'
  <1> DEFINE tk == task'[t]
  <1>1. task \in [Thread -> Task] /\ task[t] \in Task /\ TaskFresh(task[t])
    BY DEF FreshInv, TypeInv, TypeOK
  <1>2. UNCHANGED <<kv_rev, current_revision, snapshot>> /\ task' = [task EXCEPT ![t] = tk]
    BY <1>1 DEF DeleteScan, DeleteRead, DeleteKv, storeVars
  <1>3. /\ tk.rev = task[t].rev
        /\ \/ /\ task[t].pc \in {"del_scan", "del_read"}
              /\ tk.pc \in {"del_read", "del_kv", "del_index"}
           \/ /\ task[t].pc = "del_kv" /\ tk.pc = "del_rev"
              /\ tk.done = task[t].done /\ tk.key \notin task[t].done
    <2>1. CASE DeleteScan(t)
      BY <1>1, <2>1 DEF DeleteScan, Task
    <2>2. CASE \E k \in Key : DeleteRead(t, k)
      <3>1. PICK k \in Key : DeleteRead(t, k)
        BY <2>2
      <3> DEFINE keys == IF kv[k] = None THEN task[t].keys \ {k} ELSE task[t].keys
                 done == IF kv[k] = None THEN task[t].done ELSE task[t].done \cup {k}
                 next == IF done = keys THEN {} ELSE done
                 pc == CASE keys = {} -> "del_index"
                         [] keys # {} /\ done = keys -> "del_kv"
                         [] OTHER -> "del_read"
      <3>2. tk = [task[t] EXCEPT !.keys = keys, !.done = next, !.pc = pc]
        BY <1>1, <3>1 DEF DeleteRead
      <3>3. pc \in {"del_read", "del_kv", "del_index"}
        OBVIOUS
      <3> HIDE DEF keys, next, pc, tk
      <3>4. tk.rev = task[t].rev /\ tk.pc = pc
        BY <1>1, <3>2 DEF Task
      <3> QED
        BY <3>1, <3>3, <3>4 DEF DeleteRead
    <2>3. CASE \E k \in Key : DeleteKv(t, k)
      <3>1. PICK k \in Key : DeleteKv(t, k)
        BY <2>3
      <3>2. tk = [task[t] EXCEPT !.pc = "del_rev", !.key = k]
        BY <1>1, <3>1 DEF DeleteKv
      <3> HIDE DEF tk
      <3>3. tk.rev = task[t].rev /\ tk.pc = "del_rev" /\ tk.key = k /\ tk.done = task[t].done
        BY <1>1, <3>2 DEF Task
      <3> QED
        BY <3>1, <3>3 DEF DeleteKv
    <2> QED
      BY <2>1, <2>2, <2>3
  <1>4. task[t].pc \in WritingPc /\ tk.pc \notin SnapshotPc
    BY <1>3 DEF WritingPc, SnapshotPc
  <1>5. TaskFresh(tk)
    BY <1>1, <1>3, <1>4 DEF TaskFresh
  <1>6. \A k \in Key : kv'[k] # None => kv'[k].mod <= current_revision
    <2>1. \A k \in Key : kv'[k] \in {kv[k], None}
      BY DEF DeleteScan, DeleteRead, DeleteKv, storeVars, FreshInv, TypeInv, TypeOK
    <2> QED
      BY <2>1 DEF FreshInv, RevisionsBehind
  <1> HIDE DEF tk
  <1> QED
    BY <1>2, <1>3, <1>4, <1>5, <1>6, TaskMovesFresh

\* The owner of a revision writes to kv_rev under it.
LEMMA KvRevWriteFresh ==
  ASSUME FreshInv, TypeInv', NEW t \in Thread, task[t].pc \in WritingPc,
         NEW tk, task' = [task EXCEPT ![t] = tk], tk.rev = task[t].rev,
         \/ tk.pc \in {"put_index", "del_index"}
         \/ /\ tk.pc = "del_kv"
            /\ \A k \in Key : k \in tk.done \/ kv_rev'[<<tk.rev, k>>] = None,
         NEW key \in Key, NEW e \in KeyValue,
         kv_rev' = [kv_rev EXCEPT ![<<task[t].rev, key>>] = e],
         UNCHANGED <<kv, current_revision, snapshot>>
  PROVE  FreshInv'
  <1> DEFINE rev == task[t].rev
  <1>1. task \in [Thread -> Task] /\ task[t] \in Task /\ TaskFresh(task[t])
    BY DEF FreshInv, TypeInv, TypeOK
  <1>2. rev \in Revision /\ rev <= current_revision
    BY <1>1 DEF Task, TaskFresh
  <1>3. \A rk \in Revision \X Key : kv_rev'[rk] = IF rk = <<rev, key>> THEN e ELSE kv_rev[rk]
    BY <1>2 DEF FreshInv, TypeInv, TypeOK
  <1> HIDE DEF rev
  <1>4. RevisionsBehind'
    BY <1>2, <1>3 DEF FreshInv, RevisionsBehind
  <1>5. NoSnapshots'
    BY <1>1 DEF FreshInv, NoSnapshots, SnapshotPc
  <1>6. OneOwner'
    BY <1>1 DEF FreshInv, OneOwner
  <1>7. ASSUME NEW u \in Thread PROVE TaskFresh(task[u])'
    <2>1. CASE u = t
      BY <1>1, <1>2, <2>1 DEF TaskFresh, WritingPc, rev
    <2>2. CASE u # t
      <3>1. task'[u] = task[u] /\ TaskFresh(task[u]) /\ task[u].rev \in Revision
        BY <1>1, <2>2 DEF FreshInv, Task
      <3>2. task[u].pc \in WritingPc => task[u].rev # rev
        BY <2>2 DEF FreshInv, OneOwner, rev
      <3>3. task[u].pc \in WritingPc =>
              \A k \in Key : kv_rev'[<<task[u].rev, k>>] = kv_rev[<<task[u].rev, k>>]
        BY <1>3, <3>1, <3>2
      <3> QED
        BY <3>1, <3>3 DEF TaskFresh
    <2> QED
      BY <2>1, <2>2
  <1> QED
    BY <1>4, <1>5, <1>6, <1>7 DEF FreshInv

\* put writes kv_rev.
LEMMA PutRevFresh ==
  ASSUME FreshInv, TypeInv', NEW t \in Thread, PutRev(t)
  PROVE  FreshInv' /\ kv_rev[<<task[t].rev, task[t].key>>] = None
  <1> DEFINE tk == [task[t] EXCEPT !.pc = "put_index"]
             e == NewKeyValue(task[t])
  <1>1. /\ task \in [Thread -> Task] /\ task[t] \in Task /\ TaskFresh(task[t])
        /\ task[t].pc = "put_rev" /\ task[t].key \in Key
    BY DEF FreshInv, TypeInv, TypeOK, TaskOK, PutRev
  <1>2. task' = [task EXCEPT ![t] = tk] /\ tk.pc = "put_index" /\ tk.rev = task[t].rev
    BY <1>1 DEF PutRev, Task
  <1>3. /\ e \in KeyValue
        /\ kv_rev' = [kv_rev EXCEPT ![<<task[t].rev, task[t].key>>] = e]
        /\ UNCHANGED <<kv, current_revision, snapshot>>
    BY <1>1, NewKeyValueType DEF PutRev
  <1>4. task[t].pc \in WritingPc
    BY <1>1 DEF WritingPc
  <1>5. kv_rev[<<task[t].rev, task[t].key>>] = None
    BY <1>1, <1>4 DEF TaskFresh
  <1> HIDE DEF tk, e
  <1>6. FreshInv'
    BY <1>1, <1>2, <1>3, <1>4, KvRevWriteFresh
  <1> QED
    BY <1>5, <1>6

\* delete_range writes a tombstone.
LEMMA DeleteRevFresh ==
  ASSUME FreshInv, TypeInv', NEW t \in Thread, DeleteRev(t)
  PROVE  FreshInv' /\ kv_rev[<<task[t].rev, task[t].key>>] = None
  <1> DEFINE done == task[t].done \cup {task[t].key}
             pc == IF done = task[t].keys THEN "del_index" ELSE "del_kv"
             tk == [task[t] EXCEPT !.done = done, !.pc = pc]
             e == Tombstone(task[t].rev)
  <1>1. /\ task \in [Thread -> Task] /\ task[t] \in Task /\ TaskFresh(task[t])
        /\ task[t].pc = "del_rev" /\ task[t].key \in Key
    BY DEF FreshInv, TypeInv, TypeOK, TaskOK, DeleteRev
  <1>2. task[t].rev \in Revision /\ e \in KeyValue
    BY <1>1, TombstoneType DEF Task
  <1>3. /\ task' = [task EXCEPT ![t] = tk]
        /\ kv_rev' = [kv_rev EXCEPT ![<<task[t].rev, task[t].key>>] = e]
        /\ UNCHANGED <<kv, current_revision, snapshot>>
    BY <1>1 DEF DeleteRev
  <1>4. pc \in {"del_index", "del_kv"} /\ tk.pc = pc /\ tk.done = done /\ tk.rev = task[t].rev
    BY <1>1 DEF Task
  <1>5. task[t].pc \in WritingPc
    BY <1>1 DEF WritingPc
  <1>6. /\ kv_rev[<<task[t].rev, task[t].key>>] = None
        /\ \A k \in Key : k \in task[t].done \/ kv_rev[<<task[t].rev, k>>] = None
    BY <1>1, <1>5 DEF TaskFresh
  <1> HIDE DEF e, pc, tk
  <1>7. \A k \in Key : k \in done \/ kv_rev'[<<task[t].rev, k>>] = None
    BY <1>1, <1>2, <1>3, <1>6 DEF FreshInv, TypeInv, TypeOK
  <1>8. FreshInv'
    BY <1>1, <1>2, <1>3, <1>4, <1>5, <1>7, KvRevWriteFresh
  <1> QED
    BY <1>6, <1>8

\* compact only takes entries away.
LEMMA CompactTreesFresh ==
  ASSUME FreshInv, TypeInv', NEW t \in Thread, CompactTrees(t)
  PROVE  FreshInv' /\ \A rk \in Revision \X Key : kv_rev'[rk] \in {kv_rev[rk], None}
  <1>1. task \in [Thread -> Task] /\ task' = [task EXCEPT ![t] = Idle]
    BY DEF FreshInv, TypeInv, TypeOK, CompactTrees
  <1>2. \A rk \in Revision \X Key : kv_rev'[rk] \in {kv_rev[rk], None}
    BY DEF CompactTrees, KeptFrom
  <1>3. RevisionsBehind'
    BY <1>2 DEF FreshInv, RevisionsBehind, CompactTrees
  <1>4. NoSnapshots' /\ OneOwner'
    BY <1>1, IdleType DEF FreshInv, NoSnapshots, SnapshotPc, OneOwner, WritingPc, CompactTrees
  <1>5. ASSUME NEW u \in Thread PROVE TaskFresh(task[u])'
    <2>1. CASE u = t
      BY <1>1, <2>1, IdleType DEF TaskFresh, WritingPc
    <2>2. CASE u # t
      <3>1. task'[u] = task[u] /\ TaskFresh(task[u]) /\ task[u].rev \in Revision
        BY <1>1, <2>2 DEF FreshInv, Task
      <3> QED
        BY <1>2, <3>1 DEF TaskFresh, CompactTrees
    <2> QED
      BY <2>1, <2>2
  <1> QED
    BY <1>2, <1>3, <1>4, <1>5 DEF FreshInv

\* What a step may do to kv_rev.
WritesOnce ==
  \A rk \in Revision \X Key : kv_rev[rk] # None => kv_rev'[rk] \in {kv_rev[rk], None}

\* Every step of a process that is not restarted keeps the invariant and
\* overwrites nothing.
LEMMA NextFresh ==
  ASSUME WithSnapshots = FALSE, MaxRestarts = 0
  PROVE  FreshInv /\ [Next]_vars => FreshInv' /\ WritesOnce
  <1> SUFFICES ASSUME FreshInv, [Next]_vars PROVE FreshInv' /\ WritesOnce
    OBVIOUS
  <1>1. TypeInv' /\ kv_rev \in [Revision \X Key -> KeyValue \cup {None}]
    BY NextType DEF FreshInv, TypeInv, TypeOK
  <1>2. kv_rev' = kv_rev => WritesOnce
    BY DEF WritesOnce
  <1>3. ASSUME NEW t \in Thread, PutNext(t) PROVE FreshInv' /\ WritesOnce
    <2>1. CASE PutRev(t)
      BY <1>1, <2>1, PutRevFresh DEF PutRev, WritesOnce
    <2>2. CASE ~ PutRev(t)
      <3>1. kv_rev' = kv_rev
        BY <1>3, <2>2 DEF PutNext, PutAllocate, PutRead, PutKv, PutIndex, storeVars
      <3> QED
        BY <1>1, <1>2, <1>3, <2>2, <3>1, BeginFresh, PutKvFresh, ReadersFresh DEF PutNext
    <2> QED
      BY <2>1, <2>2
  <1>4. ASSUME NEW t \in Thread, DeleteNext(t) PROVE FreshInv' /\ WritesOnce
    <2>1. CASE DeleteRev(t)
      BY <1>1, <2>1, DeleteRevFresh DEF DeleteRev, WritesOnce
    <2>2. CASE ~ DeleteRev(t)
      <3>1. kv_rev' = kv_rev
        BY <1>4, <2>2 DEF DeleteNext, DeleteAllocate, DeleteScan, DeleteRead, DeleteKv,
                          DeleteIndex, storeVars
      <3> QED
        BY <1>1, <1>2, <1>4, <2>2, <3>1, BeginFresh, DeleteKvFresh, ReadersFresh DEF DeleteNext
    <2> QED
      BY <2>1, <2>2
  <1>5. ASSUME NEW t \in Thread, RangeNext(t) PROVE FreshInv' /\ WritesOnce
    <2>1. kv_rev' = kv_rev
      BY <1>5 DEF RangeNext, RangeStart, RangeIndex, RangeRead, RangeReply, storeVars
    <2> QED
      BY <1>1, <1>2, <1>5, <2>1, ReadersFresh DEF RangeNext
  <1>6. ASSUME NEW t \in Thread, CompactNext(t) PROVE FreshInv' /\ WritesOnce
    <2>1. CASE CompactTrees(t)
      BY <1>1, <2>1, CompactTreesFresh DEF WritesOnce
    <2>2. CASE ~ CompactTrees(t)
      <3>1. kv_rev' = kv_rev
        BY <1>6, <2>2 DEF CompactNext, CompactStart, CompactIndex
      <3> QED
        BY <1>1, <1>2, <1>6, <2>2, <3>1, ReadersFresh DEF CompactNext
    <2> QED
      BY <2>1, <2>2
  <1>7. ~ Restart
    BY DEF FreshInv, TypeInv, TypeOK, Restart
  <1>8. CASE UNCHANGED vars
    BY <1>1, <1>8 DEF vars, storeVars, FreshInv, NoSnapshots, RevisionsBehind, OneOwner,
                      TaskFresh, WritesOnce
  <1> QED
    BY <1>3, <1>4, <1>5, <1>6, <1>7, <1>8, NoSnapshotSteps DEF Next, FreshInv

\* While no snapshot is installed and the process is not restarted, nothing in
\* the trees is newer than current_revision, for any number of threads.
THEOREM RevisionsNotAhead ==
  ASSUME WithSnapshots = FALSE, MaxRestarts = 0
  PROVE  Spec => []NoFutureRevision
  <1>1. FreshInv /\ [Next]_vars => FreshInv'
    BY NextFresh
  <1>2. FreshInv => NoFutureRevision
    BY DEF FreshInv, NoFutureRevision
  <1> QED
    BY <1>1, <1>2, InitFresh, PTL DEF Spec

\* Under the same conditions no write to kv_rev replaces another: concurrent
\* writers never share a revision.
THEOREM RevisionsWrittenOnce ==
  ASSUME WithSnapshots = FALSE, MaxRestarts = 0
  PROVE  Spec => KvRevWriteOnce
  <1>1. FreshInv /\ [Next]_vars => FreshInv'
    BY NextFresh
  <1>2. FreshInv /\ [Next]_vars => [WritesOnce]_vars
    BY NextFresh
  <1>3. [WritesOnce]_vars =>
          [restarts' = 0 =>
             \A rk \in Revision \X Key :
               kv_rev[rk] # None => kv_rev'[rk] \in {kv_rev[rk], None}]_vars
    BY DEF WritesOnce
  <1> QED
    BY <1>1, <1>2, <1>3, InitFresh, PTL DEF Spec, KvRevWriteOnce

-----------------------------------------------------------------------------
(***************************************************************************)
(* What put does to the reference.                                         *)
(***************************************************************************)
\* After a put of the key the reference has its revision.
LEMMA RefOfPut ==
  ASSUME NEW h \in [Revision -> Write], NEW k \in Key, NEW c \in Revision, c >= 1,
         IsPut(h, c, k)
  PROVE  RefIn(h, k, c) # None /\ RefIn(h, k, c).mod = c
  <1> DEFINE S == LivePutsIn(h, k, c)
  <1>0. c \in Nat /\ c \in 1..c /\ (\A d \in c..c : d = c) /\ \A y \in 1..c : y <= c
    BY DEF Revision
  <1>1. S \in SUBSET (1..c)
    BY <1>0, LivePutsFinite
  <1>2. c \in S
    BY <1>0 DEF LivePutsIn, IsPut, IsDelete
  <1>3. RefIn(h, k, c) # None
    BY <1>2, RefType
  <1> HIDE DEF S
  <1>4. Max(S) = c
    BY <1>0, <1>1, <1>2, MaxUnique
  <1>5. RefIn(h, k, c).mod = Max(S)
    BY <1>2 DEF RefIn, Described, S
  <1> QED
    BY <1>3, <1>4, <1>5

\* What put builds from the KeyValue it read is what the reference becomes.
LEMMA RefNew ==
  ASSUME NEW h \in [Revision -> Write], NEW k \in Key, NEW c \in Revision, c # 0,
         IsPut(h, c, k), NEW tk, tk.rev = c, tk.value = h[c].value,
         tk.prev = RefIn(h, k, c - 1)
  PROVE  NewKeyValue(tk) = RefIn(h, k, c)
  <1> DEFINE r == c - 1
             prev == RefIn(h, k, r)
  <1>0. r \in Revision /\ r \in Nat /\ r + 1 = c /\ c \in Nat
    BY BoundAssumption DEF Revision
  <1>1. LivePutsIn(h, k, r) = {} \/ None # Described(h, LivePutsIn(h, k, r))
    BY <1>0, RefType DEF RefIn
  <1>2. prev # None => prev.version # 0
    BY <1>0, RefType
  <1> HIDE DEF r
  <1>3. RefIn(h, k, c) =
          [value |-> h[c].value, mod |-> c,
           version |-> IF prev = None THEN 1 ELSE prev.version + 1,
           create |-> IF prev = None THEN c ELSE prev.create]
    BY <1>0, <1>1, RefPut
  <1>4. tk.prev = prev
    BY DEF r
  <1> HIDE DEF prev
  <1> QED
    BY <1>2, <1>3, <1>4 DEF NewKeyValue

-----------------------------------------------------------------------------
(***************************************************************************)
(* One caller at a time.  Each of the trees and the index is up to date    *)
(* with the writes, except for the keys the operation under way has still  *)
(* to write there: for these it is up to date with the revision before.    *)
(***************************************************************************)
PutPc == {"put_read", "put_kv", "put_rev", "put_index"}
DeletePc == {"del_scan", "del_read", "del_kv", "del_rev", "del_index"}
RestorePc == {"restore_trees", "restore_counters", "restore_index"}
CompactPc == {"compact_index", "compact_trees"}

\* The keys still to be written to the kv tree, and to the index.
KvPending(tk) ==
  CASE tk.pc \in {"put_read", "put_kv"} -> {tk.key}
    [] tk.pc \in {"del_scan", "del_read"} -> tk.keys
    [] tk.pc = "del_kv" -> tk.keys \ tk.done
    [] tk.pc = "del_rev" -> tk.keys \ (tk.done \cup {tk.key})
    [] OTHER -> {}

IndexPending(tk) ==
  CASE tk.pc \in PutPc -> {tk.key} [] tk.pc \in DeletePc -> tk.keys [] OTHER -> {}

\* The last revision that kv_rev has the put of.
FiledUpTo(tk, c) == IF tk.pc \in {"put_read", "put_kv", "put_rev"} THEN c - 1 ELSE c

UpTo(c, k, pending) == IF k \in pending THEN c - 1 ELSE c

ModOf(e) == IF e = None THEN Gone ELSE e.mod

\* The kv tree holds each key's reference.
KvMatches(tree, h, c, pending) ==
  \A k \in Key : tree[k] = RefIn(h, k, UpTo(c, k, pending))

\* kv_rev holds, under the revision of each put, what the key became by it.
Filed(tree, h, to) ==
  \A r \in 1..to, k \in Key : IsPut(h, r, k) => tree[<<r, k>>] = RefIn(h, k, r)

\* A lookup at any revision from one to another finds the last put of the key.
Tracks(entry, h, k, from, to) ==
  \A r \in from..to : RevisionAt(entry, r) = ModOf(RefIn(h, k, r))

IndexTracks(ix, h, from, c, pending) ==
  \A k \in Key : /\ Bounded(ix[k], UpTo(c, k, pending))
                 /\ Tracks(ix[k], h, k, from, UpTo(c, k, pending))

\* A snapshot is what the writes that went into it left at its revision.
SnapshotMatches(sn) ==
  /\ sn.current \in 1..MaxRevision
  /\ KvMatches(sn.kv, sn.writes, sn.current, {})
  /\ Filed(sn.kv_rev, sn.writes, sn.current)

\* An answer given is what the reference says.
ReadMatches(rd, h, from, c) ==
  rd # None =>
    /\ rd.rev \in 1..c
    /\ rd.rev >= from =>
         \A k \in Key : rd.kvs[k] = IF k \in rd.keys THEN RefIn(h, k, rd.rev) ELSE None

\* A writer works at the current revision, and history has its write.
Writing(tk) ==
  /\ tk.pc \in PutPc \cup DeletePc => tk.rev = current_revision /\ compacted < current_revision
  /\ tk.pc \in PutPc =>
       history[current_revision] = [kind |-> "put", keys |-> {tk.key}, value |-> tk.value]
  /\ tk.pc \in {"put_kv", "put_rev"} =>
       tk.prev = RefIn(history, tk.key, current_revision - 1)
  /\ tk.pc \in DeletePc =>
       /\ history[current_revision].kind = "delete"
       /\ tk.keys \subseteq history[current_revision].keys
       /\ tk.done \subseteq tk.keys
  /\ tk.pc = "del_scan" => tk.done = {}
  /\ tk.pc \in {"del_read", "del_kv", "del_rev"} =>
       \A k \in tk.keys : RefIn(history, k, current_revision - 1) # None
  /\ tk.pc = "del_rev" => tk.key \in tk.keys \ tk.done

\* A reader has looked up the keys, and has read right the ones it has read.
Reading(tk) ==
  /\ tk.pc \in {"range_index", "range_read"} =>
       tk.rev \in 1..current_revision /\ (tk.latest => tk.rev = current_revision)
  /\ tk.pc = "range_index" => tk.kvs = NoKeyValues
  /\ tk.pc = "range_read" =>
       /\ tk.found = IndexRange(tk.keys, tk.rev)
       /\ \A k \in Key : tk.found[k] = Gone => k \in tk.done
       /\ tk.rev >= compacted =>
            \A k \in Key :
              tk.kvs[k] = IF k \in tk.keys \cap tk.done THEN RefIn(history, k, tk.rev)
                          ELSE None

\* What a snapshot under way has copied, and where the trees are while one is
\* installed.
Copying(tk) ==
  /\ tk.pc \in {"snapshot_kv", "snapshot_rev"} => tk.rev = current_revision
  /\ tk.pc = "snapshot_rev" => tk.kvs = kv
  /\ tk.pc \in {"restore_trees", "restore_counters"} =>
       tk.data \in Snapshot /\ SnapshotMatches(tk.data)
  /\ tk.pc = "restore_trees" => kv = NoKeyValues /\ kv_rev = [rk \in Revision \X Key |-> None]
  /\ tk.pc = "restore_counters" => kv = tk.data.kv /\ kv_rev = tk.data.kv_rev
  /\ tk.pc = "restore_index" => compacted = current_revision

TreesMatch(tk) ==
  /\ tk.pc \notin {"restore_trees", "restore_counters"} =>
       /\ KvMatches(kv, history, current_revision, KvPending(tk))
       /\ Filed(kv_rev, history, FiledUpTo(tk, current_revision))
  /\ tk.pc \notin RestorePc =>
       IndexTracks(key_index, history, compacted, current_revision, IndexPending(tk))

SeqTask(tk) ==
  tk.pc \notin CompactPc /\ Writing(tk) /\ Reading(tk) /\ Copying(tk) /\ TreesMatch(tk)

SeqInv ==
  /\ TypeInv
  /\ current_revision >= 1 /\ compacted <= current_revision
  /\ \A t \in Thread :
       SeqTask(task[t]) /\ ReadMatches(read[t], history, compacted, current_revision)

\* Where a task is says what it has still to write.
LEMMA Pendings ==
  ASSUME NEW tk, NEW c
  PROVE  /\ tk.pc \in {"put_read", "put_kv"} => KvPending(tk) = {tk.key}
         /\ tk.pc \in {"del_scan", "del_read"} => KvPending(tk) = tk.keys
         /\ tk.pc = "del_kv" => KvPending(tk) = tk.keys \ tk.done
         /\ tk.pc = "del_rev" => KvPending(tk) = tk.keys \ (tk.done \cup {tk.key})
         /\ tk.pc \notin {"put_read", "put_kv", "del_scan", "del_read", "del_kv", "del_rev"}
              => KvPending(tk) = {}
         /\ tk.pc \in PutPc => IndexPending(tk) = {tk.key}
         /\ tk.pc \in DeletePc => IndexPending(tk) = tk.keys
         /\ tk.pc \notin PutPc \cup DeletePc => IndexPending(tk) = {}
         /\ tk.pc \in {"put_read", "put_kv", "put_rev"} => FiledUpTo(tk, c) = c - 1
         /\ tk.pc \notin {"put_read", "put_kv", "put_rev"} => FiledUpTo(tk, c) = c
  BY DEF KvPending, IndexPending, FiledUpTo, PutPc, DeletePc

\* g extends the history h by the write w at revision c + 1.
Extends(h, g, c, w) == (\A q \in 1..c : g[q] = h[q]) /\ g[c + 1] = w

\* Writing one more revision down leaves the revisions before as they were.
LEMMA HistoryExtended ==
  ASSUME NEW h \in [Revision -> Write], NEW c \in Revision, c + 1 \in Revision, NEW w
  PROVE  Extends(h, [h EXCEPT ![c + 1] = w], c, w)
  <1>1. c \in Nat /\ MaxRevision \in Nat /\ c <= MaxRevision
    BY BoundAssumption DEF Revision
  <1>2. ASSUME NEW q \in 1..c PROVE q \in Revision /\ q # c + 1
    BY <1>1 DEF Revision
  <1> QED
    BY <1>2 DEF Extends

\* The past stays as it is, and so does a key the new write is not about.
LEMMA RefPast ==
  ASSUME NEW h, NEW g, NEW c \in Nat, NEW w, Extends(h, g, c, w), NEW k, NEW r \in 0..c
  PROVE  RefIn(g, k, r) = RefIn(h, k, r)
  <1>1. r \in Nat /\ \A q \in 1..r : q \in 1..c
    OBVIOUS
  <1>2. \A q \in 1..r : g[q] = h[q]
    BY <1>1 DEF Extends
  <1> QED
    BY <1>1, <1>2, RefDepends

\* A write that does not name a key leaves what the key should hold.
LEMMA RefUntouched ==
  ASSUME NEW h, NEW g, NEW c \in Nat, NEW w, Extends(h, g, c, w), NEW k, k \notin w.keys
  PROVE  RefIn(g, k, c + 1) = RefIn(h, k, c)
  <1>1. ~ IsPut(g, c + 1, k) /\ ~ IsDelete(g, c + 1, k)
    BY DEF IsPut, IsDelete, Extends
  <1>2. RefIn(g, k, c + 1) = RefIn(g, k, c)
    BY <1>1, RefSame
  <1>3. c \in 0..c
    OBVIOUS
  <1> QED
    BY <1>2, <1>3, RefPast

\* The trees and the index when a write begins: they are behind on its keys
\* alone.
LEMMA KvExtended ==
  ASSUME NEW h, NEW g, NEW c \in Nat, NEW w, Extends(h, g, c, w),
         NEW tree, KvMatches(tree, h, c, {})
  PROVE  KvMatches(tree, g, c + 1, w.keys)
  <1> SUFFICES ASSUME NEW k \in Key PROVE tree[k] = RefIn(g, k, UpTo(c + 1, k, w.keys))
    BY DEF KvMatches
  <1>0. c \in 0..c /\ (c + 1) - 1 = c
    OBVIOUS
  <1>1. tree[k] = RefIn(h, k, c)
    BY DEF KvMatches, UpTo
  <1>2. /\ RefIn(g, k, c) = RefIn(h, k, c)
        /\ k \notin w.keys => RefIn(g, k, c + 1) = RefIn(h, k, c)
    BY <1>0, RefPast, RefUntouched
  <1> QED
    BY <1>0, <1>1, <1>2 DEF UpTo

\* What kv_rev holds stays filed when a revision is allocated and not yet written.
LEMMA FiledExtended ==
  ASSUME NEW h, NEW g, NEW c \in Nat, NEW w, Extends(h, g, c, w),
         NEW tree, Filed(tree, h, c)
  PROVE  Filed(tree, g, c) /\ (w.kind # "put" => Filed(tree, g, c + 1))
  <1>1. ASSUME NEW r \in 1..c, NEW k \in Key, IsPut(g, r, k) PROVE tree[<<r, k>>] = RefIn(g, k, r)
    <2>1. g[r] = h[r] /\ r \in 0..c
      BY DEF Extends
    <2>2. IsPut(h, r, k)
      BY <1>1, <2>1 DEF IsPut
    <2>3. RefIn(g, k, r) = RefIn(h, k, r)
      BY <2>1, RefPast
    <2> QED
      BY <2>2, <2>3 DEF Filed
  <1>2. ASSUME w.kind # "put", NEW r \in 1..(c + 1), NEW k \in Key, IsPut(g, r, k)
        PROVE  tree[<<r, k>>] = RefIn(g, k, r)
    <2>1. r # c + 1
      BY <1>2 DEF IsPut, Extends
    <2>2. r \in 1..c
      BY <2>1
    <2> QED
      BY <1>1, <1>2, <2>2
  <1> QED
    BY <1>1, <1>2 DEF Filed

\* When a revision is allocated, the index is behind for the keys it will write.
LEMMA IndexExtended ==
  ASSUME NEW h, NEW g, NEW c \in Nat, NEW w, Extends(h, g, c, w),
         NEW ix \in [Key -> Seq(Generation)], NEW from \in Nat, from <= c,
         IndexTracks(ix, h, from, c, {})
  PROVE  IndexTracks(ix, g, from, c + 1, w.keys)
  <1> SUFFICES ASSUME NEW k \in Key
               PROVE  /\ Bounded(ix[k], UpTo(c + 1, k, w.keys))
                      /\ Tracks(ix[k], g, k, from, UpTo(c + 1, k, w.keys))
    BY DEF IndexTracks
  <1>0. (c + 1) - 1 = c /\ ix[k] \in Seq(Generation) /\ c + 1 \in Nat /\ c <= c + 1
    OBVIOUS
  <1>1. Bounded(ix[k], c) /\ Tracks(ix[k], h, k, from, c)
    BY DEF IndexTracks, UpTo
  <1>2. ASSUME NEW r \in 0..c PROVE RefIn(g, k, r) = RefIn(h, k, r)
    BY RefPast
  <1>3. ASSUME NEW r \in from..c PROVE RevisionAt(ix[k], r) = ModOf(RefIn(g, k, r))
    <2>1. r \in 0..c
      OBVIOUS
    <2> QED
      BY <1>1, <1>2, <2>1 DEF Tracks
  <1>4. CASE k \in w.keys
    <2>1. UpTo(c + 1, k, w.keys) = c
      BY <1>0, <1>4 DEF UpTo
    <2> QED
      BY <1>1, <1>3, <2>1 DEF Tracks
  <1>5. CASE k \notin w.keys
    <2>1. Bounded(ix[k], c + 1) /\ RevisionAt(ix[k], c + 1) = RevisionAt(ix[k], c)
      BY <1>0, <1>1, LaterLookup
    <2>2. RefIn(g, k, c + 1) = RefIn(h, k, c)
      BY <1>5, RefUntouched
    <2>3. RevisionAt(ix[k], c) = ModOf(RefIn(h, k, c))
      BY <1>0, <1>1 DEF Tracks
    <2>4. \A r \in from..(c + 1) : r \in from..c \/ r = c + 1
      OBVIOUS
    <2>5. Tracks(ix[k], g, k, from, c + 1)
      BY <1>3, <2>1, <2>2, <2>3, <2>4 DEF Tracks
    <2> QED
      BY <1>5, <2>1, <2>5 DEF UpTo
  <1> QED
    BY <1>4, <1>5

\* An answer is about the past.
LEMMA PastKept ==
  ASSUME NEW h, NEW g, NEW c \in Nat, NEW d \in Nat, c <= d, \A q \in 1..c : g[q] = h[q],
         NEW from, NEW rd, ReadMatches(rd, h, from, c)
  PROVE  ReadMatches(rd, g, from, d)
  <1>1. ASSUME NEW k, NEW r \in 1..c PROVE RefIn(g, k, r) = RefIn(h, k, r)
    <2>1. r \in Nat /\ \A q \in 1..r : q \in 1..c
      OBVIOUS
    <2> QED
      BY <2>1, RefDepends
  <1>2. 1..c \subseteq 1..d
    OBVIOUS
  <1> QED
    BY <1>1, <1>2 DEF ReadMatches

-----------------------------------------------------------------------------
\* One thread uses the store.
Alone == \A t, u \in Thread : t = u

\* What holds in every state of the invariant.
LEMMA SeqFacts ==
  ASSUME SeqInv, NEW t \in Thread
  PROVE  /\ current_revision \in Nat /\ current_revision \in Revision
         /\ compacted \in Nat /\ compacted <= current_revision
         /\ current_revision >= 1 /\ MaxRevision \in Nat /\ current_revision <= MaxRevision
         /\ history \in [Revision -> Write] /\ key_index \in [Key -> Seq(Generation)]
         /\ kv \in [Key -> KeyValue \cup {None}]
         /\ kv_rev \in [Revision \X Key -> KeyValue \cup {None}]
         /\ task \in [Thread -> Task] /\ task[t] \in Task
         /\ read \in [Thread -> Read \cup {None}]
         /\ SeqTask(task[t])
         /\ ReadMatches(read[t], history, compacted, current_revision)
  <1>1. TypeOK
    BY DEF SeqInv, TypeInv
  <1>2. current_revision \in Revision /\ compacted \in Revision
    BY <1>1 DEF TypeOK
  <1>3. /\ current_revision \in Nat /\ compacted \in Nat
        /\ MaxRevision \in Nat /\ current_revision <= MaxRevision
    BY <1>2, BoundAssumption DEF Revision
  <1>4. /\ history \in [Revision -> Write] /\ key_index \in [Key -> Seq(Generation)]
        /\ kv \in [Key -> KeyValue \cup {None}]
        /\ kv_rev \in [Revision \X Key -> KeyValue \cup {None}]
        /\ task \in [Thread -> Task] /\ read \in [Thread -> Read \cup {None}]
    BY <1>1 DEF TypeOK
  <1> QED
    BY <1>2, <1>3, <1>4 DEF SeqInv

\* Nothing is pending: between operations, and while a range or a snapshot is
\* under way.
LEMMA Settled ==
  ASSUME SeqInv, NEW t \in Thread,
         task[t].pc \in {"idle", "range_index", "range_read", "snapshot_kv", "snapshot_rev"}
  PROVE  /\ KvMatches(kv, history, current_revision, {})
         /\ Filed(kv_rev, history, current_revision)
         /\ IndexTracks(key_index, history, compacted, current_revision, {})
  <1>1. TreesMatch(task[t])
    BY SeqFacts DEF SeqTask
  <1>2. /\ KvPending(task[t]) = {} /\ IndexPending(task[t]) = {}
        /\ FiledUpTo(task[t], current_revision) = current_revision
    BY Pendings DEF PutPc, DeletePc
  <1>3. task[t].pc \notin RestorePc
    BY DEF RestorePc
  <1> QED
    BY <1>1, <1>2, <1>3 DEF TreesMatch, RestorePc

\* A step that ends with nothing pending.
LEMMA SettledAfter ==
  ASSUME NEW t \in Thread,
         task'[t].pc \in {"idle", "range_index", "range_read", "snapshot_kv", "snapshot_rev"},
         KvMatches(kv', history', current_revision', {}),
         Filed(kv_rev', history', current_revision'),
         IndexTracks(key_index', history', compacted', current_revision', {})
  PROVE  TreesMatch(task[t])' /\ Writing(task[t])'
  <1>1. /\ KvPending(task'[t]) = {} /\ IndexPending(task'[t]) = {}
        /\ FiledUpTo(task'[t], current_revision') = current_revision'
    BY Pendings DEF PutPc, DeletePc
  <1>2. TreesMatch(task[t])'
    BY <1>1 DEF TreesMatch
  <1>3. Writing(task[t])'
    BY DEF Writing, PutPc, DeletePc
  <1> QED
    BY <1>2, <1>3

\* The parts of the invariant after a step of the one thread.
LEMMA SeqInvAfter ==
  ASSUME Alone, TypeInv', NEW t \in Thread, (current_revision >= 1)',
         (compacted <= current_revision)',
         task'[t].pc \notin CompactPc, Writing(task[t])', Reading(task[t])', Copying(task[t])',
         TreesMatch(task[t])',
         ReadMatches(read[t], history, compacted, current_revision)'
  PROVE  SeqInv'
  <1>1. SeqTask(task[t])'
    BY DEF SeqTask
  <1>2. \A u \in Thread : u = t
    BY DEF Alone
  <1> QED
    BY <1>1, <1>2 DEF SeqInv

\* A write begins: it takes its revision, and history has it.
LEMMA WriteBegins ==
  ASSUME SeqInv, NEW t \in Thread, task[t].pc = "idle", current_revision < MaxRevision,
         NEW w, current_revision' = current_revision + 1,
         history' = [history EXCEPT ![current_revision + 1] = w],
         UNCHANGED <<key_index, kv, kv_rev, read, snapshot, compacted>>
  PROVE  /\ current_revision' >= 1 /\ compacted' < current_revision'
         /\ compacted' <= current_revision' /\ history'[current_revision'] = w
         /\ KvMatches(kv', history', current_revision', w.keys)
         /\ Filed(kv_rev', history', current_revision' - 1)
         /\ w.kind # "put" => Filed(kv_rev', history', current_revision')
         /\ IndexTracks(key_index', history', compacted', current_revision', w.keys)
         /\ ReadMatches(read'[t], history', compacted', current_revision')
  <1> DEFINE c == current_revision
  <1>1. /\ c \in Nat /\ c >= 1 /\ c < MaxRevision /\ c \in Revision
        /\ compacted \in Nat /\ compacted <= c
        /\ history \in [Revision -> Write] /\ key_index \in [Key -> Seq(Generation)]
        /\ ReadMatches(read[t], history, compacted, c)
    BY SeqFacts
  <1>2. c + 1 \in Revision /\ c + 1 \in Nat /\ (c + 1) - 1 = c /\ c <= c + 1
    BY <1>1, BoundAssumption DEF Revision
  <1>3. /\ KvMatches(kv, history, c, {}) /\ Filed(kv_rev, history, c)
        /\ IndexTracks(key_index, history, compacted, c, {})
    BY Settled
  <1>4. PICK g : g = [history EXCEPT ![c + 1] = w]
    OBVIOUS
  <1>5. Extends(history, g, c, w)
    BY <1>1, <1>2, <1>4, HistoryExtended
  <1>6. history' = g /\ current_revision' = c + 1
    BY <1>4
  <1> HIDE DEF c
  <1>7. KvMatches(kv, g, c + 1, w.keys)
    BY <1>1, <1>3, <1>5, KvExtended
  <1>8. Filed(kv_rev, g, c) /\ (w.kind # "put" => Filed(kv_rev, g, c + 1))
    BY <1>1, <1>3, <1>5, FiledExtended
  <1>9. IndexTracks(key_index, g, compacted, c + 1, w.keys)
    BY <1>1, <1>3, <1>5, IndexExtended
  <1>10. \A q \in 1..c : g[q] = history[q]
    BY <1>5 DEF Extends
  <1>11. ReadMatches(read[t], g, compacted, c + 1)
    BY <1>1, <1>2, <1>10, PastKept
  <1>12. g[c + 1] = w /\ c + 1 >= 1 /\ compacted < c + 1 /\ compacted <= c + 1
    BY <1>1, <1>5 DEF Extends
  <1> QED
    BY <1>2, <1>6, <1>7, <1>8, <1>9, <1>11, <1>12

\* put takes its revision.
LEMMA PutAllocateSeq ==
  ASSUME Alone, SeqInv, TypeInv', NEW t \in Thread, NEW k \in Key, NEW v \in Value,
         PutAllocate(t, k, v)
  PROVE  SeqInv'
  <1> DEFINE w == [kind |-> "put", keys |-> {k}, value |-> v]
             tk == [Idle EXCEPT !.pc = "put_read", !.key = k, !.value = v,
                                !.rev = current_revision + 1]
  <1>1. /\ current_revision' = current_revision + 1 /\ current_revision < MaxRevision
        /\ history' = [history EXCEPT ![current_revision + 1] = w]
        /\ task' = [task EXCEPT ![t] = tk] /\ task[t].pc = "idle"
        /\ UNCHANGED <<key_index, kv, kv_rev, read, snapshot, compacted>>
    BY DEF PutAllocate, NextRevision
  <1>2. tk.pc = "put_read" /\ tk.key = k /\ tk.value = v /\ tk.rev = current_revision + 1
    BY IdleType DEF Task
  <1>3. w.keys = {k} /\ w = [kind |-> "put", keys |-> {k}, value |-> v]
    OBVIOUS
  <1> HIDE DEF tk, w
  <1>4. /\ (current_revision >= 1)' /\ compacted' < current_revision'
        /\ (compacted <= current_revision)' /\ history'[current_revision'] = w
        /\ KvMatches(kv', history', current_revision', {k})
        /\ Filed(kv_rev', history', current_revision' - 1)
        /\ IndexTracks(key_index', history', compacted', current_revision', {k})
        /\ ReadMatches(read'[t], history', compacted', current_revision')
    BY <1>1, <1>3, WriteBegins
  <1>5. /\ task'[t].pc = "put_read" /\ task'[t].key = k /\ task'[t].value = v
        /\ task'[t].rev = current_revision'
    BY <1>1, <1>2, SeqFacts
  <1>6. TreesMatch(task[t])'
    <2>1. /\ KvPending(task'[t]) = {k} /\ IndexPending(task'[t]) = {k}
          /\ FiledUpTo(task'[t], current_revision') = current_revision' - 1
      BY <1>5, Pendings DEF PutPc
    <2> QED
      BY <1>4, <2>1 DEF TreesMatch
  <1>7. Writing(task[t])'
    BY <1>3, <1>4, <1>5 DEF Writing, PutPc, DeletePc
  <1>8. Reading(task[t])' /\ Copying(task[t])' /\ task'[t].pc \notin CompactPc
    BY <1>5 DEF Reading, Copying, RestorePc, CompactPc
  <1> QED
    BY <1>4, <1>6, <1>7, <1>8, SeqInvAfter

\* delete_range takes its revision.
LEMMA DeleteAllocateSeq ==
  ASSUME Alone, SeqInv, TypeInv', NEW t \in Thread, NEW ks \in DeleteRange,
         DeleteAllocate(t, ks)
  PROVE  SeqInv'
  <1> DEFINE w == [kind |-> "delete", keys |-> ks, value |-> None]
             tk == [Idle EXCEPT !.pc = "del_scan", !.keys = ks, !.rev = current_revision + 1]
  <1>1. /\ current_revision' = current_revision + 1 /\ current_revision < MaxRevision
        /\ history' = [history EXCEPT ![current_revision + 1] = w]
        /\ task' = [task EXCEPT ![t] = tk] /\ task[t].pc = "idle"
        /\ UNCHANGED <<key_index, kv, kv_rev, read, snapshot, compacted>>
    BY DEF DeleteAllocate, NextRevision
  <1>2. tk.pc = "del_scan" /\ tk.keys = ks /\ tk.done = {} /\ tk.rev = current_revision + 1
    BY IdleType DEF Task, Idle
  <1>3. w.keys = ks /\ w.kind = "delete"
    OBVIOUS
  <1> HIDE DEF tk, w
  <1>4. /\ (current_revision >= 1)' /\ compacted' < current_revision'
        /\ (compacted <= current_revision)' /\ history'[current_revision'] = w
        /\ KvMatches(kv', history', current_revision', ks)
        /\ Filed(kv_rev', history', current_revision')
        /\ IndexTracks(key_index', history', compacted', current_revision', ks)
        /\ ReadMatches(read'[t], history', compacted', current_revision')
    BY <1>1, <1>3, WriteBegins
  <1>5. /\ task'[t].pc = "del_scan" /\ task'[t].keys = ks /\ task'[t].done = {}
        /\ task'[t].rev = current_revision'
    BY <1>1, <1>2, SeqFacts
  <1>6. TreesMatch(task[t])'
    <2>1. /\ KvPending(task'[t]) = ks /\ IndexPending(task'[t]) = ks
          /\ FiledUpTo(task'[t], current_revision') = current_revision'
      BY <1>5, Pendings DEF DeletePc
    <2> QED
      BY <1>4, <2>1 DEF TreesMatch
  <1>7. Writing(task[t])'
    BY <1>3, <1>4, <1>5 DEF Writing, PutPc, DeletePc
  <1>8. Reading(task[t])' /\ Copying(task[t])' /\ task'[t].pc \notin CompactPc
    BY <1>5 DEF Reading, Copying, RestorePc, CompactPc
  <1> QED
    BY <1>4, <1>6, <1>7, <1>8, SeqInvAfter

\* A step that takes no revision and gives no answer.
LEMMA PastUnchanged ==
  ASSUME SeqInv, NEW t \in Thread,
         UNCHANGED <<current_revision, history, compacted, read>>
  PROVE  /\ (current_revision >= 1)' /\ (compacted <= current_revision)'
         /\ ReadMatches(read[t], history, compacted, current_revision)'
  BY SeqFacts

\* A put under way.
LEMMA PutFacts ==
  ASSUME SeqInv, NEW t \in Thread, task[t].pc \in PutPc
  PROVE  /\ task[t].key \in Key /\ task[t].rev = current_revision
         /\ compacted < current_revision /\ current_revision # 0
         /\ history[current_revision] =
              [kind |-> "put", keys |-> {task[t].key}, value |-> task[t].value]
         /\ IsPut(history, current_revision, task[t].key)
         /\ IndexTracks(key_index, history, compacted, current_revision, {task[t].key})
         /\ task[t].pc \in {"put_read", "put_kv"} =>
              KvMatches(kv, history, current_revision, {task[t].key})
         /\ task[t].pc \in {"put_rev", "put_index"} =>
              KvMatches(kv, history, current_revision, {})
         /\ task[t].pc # "put_index" => Filed(kv_rev, history, current_revision - 1)
         /\ task[t].pc = "put_index" => Filed(kv_rev, history, current_revision)
         /\ task[t].pc \in {"put_kv", "put_rev"} =>
              NewKeyValue(task[t]) = RefIn(history, task[t].key, current_revision)
  <1> DEFINE tk == task[t]
  <1>1. Writing(tk) /\ TreesMatch(tk) /\ current_revision >= 1
    BY SeqFacts DEF SeqTask
  <1>2. tk.key \in Key
    BY DEF SeqInv, TypeInv, TaskOK, PutPc
  <1>3. /\ tk.rev = current_revision /\ compacted < current_revision
        /\ history[current_revision] = [kind |-> "put", keys |-> {tk.key}, value |-> tk.value]
    BY <1>1 DEF Writing
  <1>4. IsPut(history, current_revision, tk.key)
    BY <1>3 DEF IsPut
  <1>5. tk.pc \notin RestorePc /\ tk.pc \notin {"restore_trees", "restore_counters"}
    BY DEF PutPc, RestorePc
  <1>6. /\ KvMatches(kv, history, current_revision, KvPending(tk))
        /\ Filed(kv_rev, history, FiledUpTo(tk, current_revision))
        /\ IndexTracks(key_index, history, compacted, current_revision, {tk.key})
    BY <1>1, <1>5, Pendings DEF TreesMatch
  <1>7. /\ tk.pc \in {"put_read", "put_kv"} => KvPending(tk) = {tk.key}
        /\ tk.pc \in {"put_rev", "put_index"} => KvPending(tk) = {}
        /\ tk.pc # "put_index" => FiledUpTo(tk, current_revision) = current_revision - 1
        /\ tk.pc = "put_index" => FiledUpTo(tk, current_revision) = current_revision
    BY Pendings DEF PutPc
  <1>8. ASSUME tk.pc \in {"put_kv", "put_rev"}
        PROVE  NewKeyValue(tk) = RefIn(history, tk.key, current_revision)
    <2>1. tk.prev = RefIn(history, tk.key, current_revision - 1)
      BY <1>1, <1>8 DEF Writing
    <2>2. tk.value = history[current_revision].value
      BY <1>3
    <2> HIDE DEF tk
    <2>3. /\ history \in [Revision -> Write] /\ current_revision \in Revision
          /\ current_revision # 0
      BY SeqFacts
    <2> QED
      BY <1>2, <1>3, <1>4, <2>1, <2>2, <2>3, RefNew
  <1>9. current_revision # 0
    BY SeqFacts
  <1> QED
    BY <1>2, <1>3, <1>4, <1>6, <1>7, <1>8, <1>9

\* put reads the key's KeyValue.
LEMMA PutReadSeq ==
  ASSUME Alone, SeqInv, TypeInv', NEW t \in Thread, PutRead(t)
  PROVE  SeqInv'
  <1> DEFINE k == task[t].key
             tk == [task[t] EXCEPT !.pc = "put_kv", !.prev = kv[k]]
  <1>1. /\ task[t].pc = "put_read" /\ task' = [task EXCEPT ![t] = tk]
        /\ UNCHANGED <<current_revision, history, compacted, read, snapshot, kv, kv_rev, key_index>>
    BY SeqFacts DEF PutRead, storeVars
  <1>2. /\ tk.pc = "put_kv" /\ tk.key = k /\ tk.value = task[t].value
        /\ tk.rev = task[t].rev /\ tk.prev = kv[k]
    BY SeqFacts DEF Task
  <1> HIDE DEF tk
  <1>3. task'[t] = tk
    BY <1>1, SeqFacts
  <1>4. /\ k \in Key /\ task[t].rev = current_revision /\ compacted < current_revision
        /\ history[current_revision] = [kind |-> "put", keys |-> {k}, value |-> task[t].value]
        /\ IndexTracks(key_index, history, compacted, current_revision, {k})
        /\ KvMatches(kv, history, current_revision, {k})
        /\ Filed(kv_rev, history, current_revision - 1)
    BY <1>1, PutFacts DEF PutPc
  <1>5. kv[k] = RefIn(history, k, current_revision - 1)
    BY <1>4 DEF KvMatches, UpTo
  <1> HIDE DEF k
  <1>6. TreesMatch(task[t])'
    <2>1. /\ KvPending(tk) = {k} /\ IndexPending(tk) = {k}
          /\ FiledUpTo(tk, current_revision) = current_revision - 1
      BY <1>2, Pendings DEF PutPc
    <2> QED
      BY <1>1, <1>3, <1>4, <2>1 DEF TreesMatch
  <1>7. Writing(task[t])'
    BY <1>1, <1>2, <1>3, <1>4, <1>5 DEF Writing, PutPc, DeletePc
  <1>8. Reading(task[t])' /\ Copying(task[t])' /\ task'[t].pc \notin CompactPc
    BY <1>2, <1>3 DEF Reading, Copying, RestorePc, CompactPc
  <1> QED
    BY <1>1, <1>6, <1>7, <1>8, PastUnchanged, SeqInvAfter

\* put writes the kv tree.
LEMMA PutKvSeq ==
  ASSUME Alone, SeqInv, TypeInv', NEW t \in Thread, PutKv(t)
  PROVE  SeqInv'
  <1> DEFINE k == task[t].key
             e == NewKeyValue(task[t])
             tk == [task[t] EXCEPT !.pc = "put_rev"]
  <1>1. /\ task[t].pc = "put_kv" /\ task' = [task EXCEPT ![t] = tk]
        /\ kv' = [kv EXCEPT ![k] = e]
        /\ UNCHANGED <<current_revision, history, compacted, read, snapshot, kv_rev, key_index>>
    BY SeqFacts DEF PutKv
  <1>2. /\ tk.pc = "put_rev" /\ tk.key = k /\ tk.value = task[t].value
        /\ tk.rev = task[t].rev /\ tk.prev = task[t].prev
    BY SeqFacts DEF Task
  <1> HIDE DEF tk
  <1>3. task'[t] = tk
    BY <1>1, SeqFacts
  <1>4. /\ k \in Key /\ task[t].rev = current_revision /\ compacted < current_revision
        /\ history[current_revision] = [kind |-> "put", keys |-> {k}, value |-> task[t].value]
        /\ IndexTracks(key_index, history, compacted, current_revision, {k})
        /\ KvMatches(kv, history, current_revision, {k})
        /\ Filed(kv_rev, history, current_revision - 1)
        /\ e = RefIn(history, k, current_revision)
    BY <1>1, PutFacts DEF PutPc
  <1>5. task[t].prev = RefIn(history, k, current_revision - 1)
    BY <1>1, SeqFacts DEF SeqTask, Writing
  <1> HIDE DEF k, e
  <1>6. KvMatches(kv', history, current_revision, {})
    <2> SUFFICES ASSUME NEW j \in Key PROVE kv'[j] = RefIn(history, j, current_revision)
      BY DEF KvMatches, UpTo
    <2>1. kv'[j] = IF j = k THEN e ELSE kv[j]
      BY <1>1, <1>4, SeqFacts
    <2>2. j # k => kv[j] = RefIn(history, j, current_revision)
      BY <1>4 DEF KvMatches, UpTo
    <2> QED
      BY <1>4, <2>1, <2>2
  <1>7. TreesMatch(task[t])'
    <2>1. /\ KvPending(tk) = {} /\ IndexPending(tk) = {k}
          /\ FiledUpTo(tk, current_revision) = current_revision - 1
      BY <1>2, Pendings DEF PutPc
    <2> QED
      BY <1>1, <1>3, <1>4, <1>6, <2>1 DEF TreesMatch
  <1>8. Writing(task[t])'
    BY <1>1, <1>2, <1>3, <1>4, <1>5 DEF Writing, PutPc, DeletePc
  <1>9. Reading(task[t])' /\ Copying(task[t])' /\ task'[t].pc \notin CompactPc
    BY <1>2, <1>3 DEF Reading, Copying, RestorePc, CompactPc
  <1> QED
    BY <1>1, <1>7, <1>8, <1>9, PastUnchanged, SeqInvAfter

\* put writes kv_rev.
LEMMA PutRevSeq ==
  ASSUME Alone, SeqInv, TypeInv', NEW t \in Thread, PutRev(t)
  PROVE  SeqInv'
  <1> DEFINE k == task[t].key
             e == NewKeyValue(task[t])
             tk == [task[t] EXCEPT !.pc = "put_index"]
  <1>1. /\ task[t].pc = "put_rev" /\ task' = [task EXCEPT ![t] = tk]
        /\ kv_rev' = [kv_rev EXCEPT ![<<task[t].rev, k>>] = e]
        /\ UNCHANGED <<current_revision, history, compacted, read, snapshot, kv, key_index>>
    BY SeqFacts DEF PutRev
  <1>2. /\ tk.pc = "put_index" /\ tk.key = k /\ tk.value = task[t].value
        /\ tk.rev = task[t].rev
    BY SeqFacts DEF Task
  <1> HIDE DEF tk
  <1>3. task'[t] = tk
    BY <1>1, SeqFacts
  <1>4. /\ k \in Key /\ task[t].rev = current_revision /\ compacted < current_revision
        /\ history[current_revision] = [kind |-> "put", keys |-> {k}, value |-> task[t].value]
        /\ IndexTracks(key_index, history, compacted, current_revision, {k})
        /\ KvMatches(kv, history, current_revision, {})
        /\ Filed(kv_rev, history, current_revision - 1)
        /\ e = RefIn(history, k, current_revision)
    BY <1>1, PutFacts DEF PutPc
  <1> HIDE DEF k, e
  <1>5. Filed(kv_rev', history, current_revision)
    <2> DEFINE c == current_revision
    <2> SUFFICES ASSUME NEW r \in 1..c, NEW j \in Key, IsPut(history, r, j)
                 PROVE  kv_rev'[<<r, j>>] = RefIn(history, j, r)
      BY DEF Filed
    <2>0. c \in Nat /\ c >= 1 /\ r \in Revision /\ c \in Revision
      BY SeqFacts DEF Revision
    <2>1. kv_rev'[<<r, j>>] = IF r = c /\ j = k THEN e ELSE kv_rev[<<r, j>>]
      BY <1>1, <1>4, <2>0, SeqFacts
    <2>2. CASE r = c
      BY <1>4, <2>1, <2>2 DEF IsPut
    <2>3. CASE r # c
      <3>1. r \in 1..(c - 1)
        BY <2>0, <2>3
      <3> QED
        BY <1>4, <2>1, <2>3, <3>1 DEF Filed
    <2> QED
      BY <2>2, <2>3
  <1>6. TreesMatch(task[t])'
    <2>1. /\ KvPending(tk) = {} /\ IndexPending(tk) = {k}
          /\ FiledUpTo(tk, current_revision) = current_revision
      BY <1>2, Pendings DEF PutPc
    <2> QED
      BY <1>1, <1>3, <1>4, <1>5, <2>1 DEF TreesMatch
  <1>7. Writing(task[t])'
    BY <1>1, <1>2, <1>3, <1>4 DEF Writing, PutPc, DeletePc
  <1>8. Reading(task[t])' /\ Copying(task[t])' /\ task'[t].pc \notin CompactPc
    BY <1>2, <1>3 DEF Reading, Copying, RestorePc, CompactPc
  <1> QED
    BY <1>1, <1>6, <1>7, <1>8, PastUnchanged, SeqInvAfter

\* A task that ends.
LEMMA TaskEndsSeq ==
  ASSUME SeqInv, NEW t \in Thread, task' = [task EXCEPT ![t] = Idle]
  PROVE  /\ task'[t].pc = "idle" /\ Reading(task[t])' /\ Copying(task[t])'
         /\ task'[t].pc \notin CompactPc
  <1>1. task'[t].pc = "idle"
    BY SeqFacts, IdleType
  <1> QED
    BY <1>1 DEF Reading, Copying, RestorePc, CompactPc

\* put enters its revision in the index.
LEMMA PutIndexSeq ==
  ASSUME Alone, SeqInv, TypeInv', NEW t \in Thread, PutIndex(t)
  PROVE  SeqInv'
  <1> DEFINE k == task[t].key
             c == current_revision
  <1>1. /\ task[t].pc = "put_index" /\ task' = [task EXCEPT ![t] = Idle]
        /\ key_index' = [key_index EXCEPT ![k] = IndexPut(@, task[t].rev)]
        /\ UNCHANGED <<current_revision, history, compacted, read, snapshot, kv, kv_rev>>
    BY DEF PutIndex
  <1>2. /\ k \in Key /\ task[t].rev = c /\ IsPut(history, c, k)
        /\ IndexTracks(key_index, history, compacted, c, {k})
        /\ KvMatches(kv, history, c, {}) /\ Filed(kv_rev, history, c)
    BY <1>1, PutFacts DEF PutPc
  <1>3. /\ c \in Nat /\ c >= 1 /\ c - 1 \in Nat /\ (c - 1) + 1 = c /\ c \in Revision
        /\ key_index \in [Key -> Seq(Generation)] /\ history \in [Revision -> Write]
        /\ compacted \in Nat
    BY SeqFacts
  <1> HIDE DEF k, c
  <1>4. ASSUME NEW j \in Key
        PROVE  Bounded(key_index'[j], c) /\ Tracks(key_index'[j], history, j, compacted, c)
    <2>1. CASE j # k
      <3>1. key_index'[j] = key_index[j]
        BY <1>1, <1>3, <2>1
      <3> QED
        BY <1>2, <2>1, <3>1 DEF IndexTracks, UpTo
    <2>2. CASE j = k
      <3>1. key_index'[j] = IndexPut(key_index[k], c) /\ key_index[k] \in Seq(Generation)
        BY <1>1, <1>2, <1>3, <2>2
      <3>2. Bounded(key_index[k], c - 1) /\ Tracks(key_index[k], history, k, compacted, c - 1)
        BY <1>2 DEF IndexTracks, UpTo
      <3>3. /\ Bounded(key_index'[j], c) /\ RevisionAt(key_index'[j], c) = c
            /\ \A q \in 0..(c - 1) : RevisionAt(key_index'[j], q) = RevisionAt(key_index[k], q)
        BY <1>3, <3>1, <3>2, PutLookup
      <3>4. ModOf(RefIn(history, k, c)) = c
        BY <1>2, <1>3, RefOfPut DEF ModOf
      <3>5. ASSUME NEW r \in compacted..c
            PROVE  RevisionAt(key_index'[j], r) = ModOf(RefIn(history, j, r))
        <4>1. CASE r = c
          BY <2>2, <3>3, <3>4, <4>1
        <4>2. CASE r # c
          <5>1. r \in compacted..(c - 1) /\ r \in 0..(c - 1)
            BY <1>3, <4>2
          <5> QED
            BY <2>2, <3>2, <3>3, <5>1 DEF Tracks
        <4> QED
          BY <4>1, <4>2
      <3> QED
        BY <3>3, <3>5 DEF Tracks
    <2> QED
      BY <2>1, <2>2
  <1>5. IndexTracks(key_index', history, compacted, c, {})
    BY <1>4 DEF IndexTracks, UpTo
  <1>6. TreesMatch(task[t])' /\ Writing(task[t])'
    BY <1>1, <1>2, <1>5, TaskEndsSeq, SettledAfter DEF c
  <1> QED
    BY <1>1, <1>6, TaskEndsSeq, PastUnchanged, SeqInvAfter

\* A delete_range under way.
LEMMA DeleteFacts ==
  ASSUME SeqInv, NEW t \in Thread, task[t].pc \in DeletePc
  PROVE  /\ task[t].rev = current_revision /\ compacted < current_revision
         /\ current_revision - 1 \in Nat /\ current_revision - 1 \in Revision
         /\ task[t].keys \in SUBSET Key /\ task[t].done \subseteq task[t].keys
         /\ history[current_revision].kind = "delete"
         /\ task[t].keys \subseteq history[current_revision].keys
         /\ \A k \in task[t].keys : RefIn(history, k, current_revision) = None
         /\ \A k \in Key : ~ IsPut(history, current_revision, k)
         /\ KvMatches(kv, history, current_revision, KvPending(task[t]))
         /\ Filed(kv_rev, history, current_revision)
         /\ IndexTracks(key_index, history, compacted, current_revision, task[t].keys)
         /\ task[t].pc \in {"del_read", "del_kv", "del_rev"} =>
              \A k \in task[t].keys : RefIn(history, k, current_revision - 1) # None
  <1> DEFINE tk == task[t]
             c == current_revision
  <1>1. Writing(tk) /\ TreesMatch(tk) /\ c >= 1 /\ c \in Nat /\ c \in Revision
    BY SeqFacts DEF SeqTask
  <1>2. /\ tk.rev = c /\ compacted < c /\ history[c].kind = "delete"
        /\ tk.keys \subseteq history[c].keys /\ tk.done \subseteq tk.keys
        /\ tk.pc \in {"del_read", "del_kv", "del_rev"} =>
              \A k \in tk.keys : RefIn(history, k, c - 1) # None
    BY <1>1 DEF Writing
  <1>3. tk.keys \in SUBSET Key
    BY SeqFacts DEF Task
  <1>4. c - 1 \in Nat /\ c - 1 \in Revision
    BY <1>1, BoundAssumption DEF Revision
  <1>5. ASSUME NEW k \in tk.keys PROVE RefIn(history, k, c) = None
    BY <1>1, <1>2, RefDelete DEF IsDelete
  <1>6. \A k \in Key : ~ IsPut(history, c, k)
    BY <1>2 DEF IsPut
  <1>7. tk.pc \notin RestorePc /\ tk.pc \notin {"restore_trees", "restore_counters"}
    BY DEF DeletePc, RestorePc
  <1>8. FiledUpTo(tk, c) = c /\ IndexPending(tk) = tk.keys
    BY Pendings DEF DeletePc
  <1>9. /\ KvMatches(kv, history, c, KvPending(tk)) /\ Filed(kv_rev, history, c)
        /\ IndexTracks(key_index, history, compacted, c, tk.keys)
    BY <1>1, <1>7, <1>8 DEF TreesMatch
  <1> QED
    BY <1>2, <1>3, <1>4, <1>5, <1>6, <1>9

\* The rest of the invariant after a step of delete_range that leaves the past
\* alone.
LEMMA DeleteStepSeq ==
  ASSUME Alone, SeqInv, TypeInv', NEW t \in Thread, task[t].pc \in DeletePc,
         task'[t].pc \in DeletePc, task'[t].rev = task[t].rev,
         task'[t].keys \subseteq task[t].keys, task'[t].done \subseteq task'[t].keys,
         task'[t].pc # "del_scan",
         task'[t].pc \in {"del_read", "del_kv", "del_rev"} =>
           \A k \in task'[t].keys : RefIn(history, k, current_revision - 1) # None,
         task'[t].pc = "del_rev" => task'[t].key \in task'[t].keys \ task'[t].done,
         KvMatches(kv', history, current_revision, KvPending(task'[t])),
         Filed(kv_rev', history, current_revision),
         IndexTracks(key_index', history, compacted, current_revision, task'[t].keys),
         UNCHANGED <<current_revision, history, compacted, read, snapshot>>
  PROVE  SeqInv'
  <1>1. /\ task[t].rev = current_revision /\ compacted < current_revision
        /\ history[current_revision].kind = "delete"
        /\ task[t].keys \subseteq history[current_revision].keys
    BY DeleteFacts
  <1>2. task'[t].pc \notin PutPc /\ task'[t].pc \notin {"put_kv", "put_rev"}
    BY DEF DeletePc, PutPc
  <1>3. Writing(task[t])'
    BY <1>1, <1>2 DEF Writing
  <1>4. FiledUpTo(task'[t], current_revision) = current_revision
        /\ IndexPending(task'[t]) = task'[t].keys
    BY Pendings DEF DeletePc
  <1>5. TreesMatch(task[t])'
    BY <1>4 DEF TreesMatch
  <1>6. Reading(task[t])' /\ Copying(task[t])' /\ task'[t].pc \notin CompactPc
    BY DEF Reading, Copying, RestorePc, CompactPc, DeletePc
  <1> QED
    BY <1>3, <1>5, <1>6, PastUnchanged, SeqInvAfter

\* delete_range looks its keys up: it finds the ones there are.
LEMMA DeleteScanSeq ==
  ASSUME Alone, SeqInv, TypeInv', NEW t \in Thread, DeleteScan(t)
  PROVE  SeqInv'
  <1> DEFINE c == current_revision
             keys == task[t].keys
             scanned == {k \in Key : IndexRange(keys, c)[k] # Gone}
             pc == IF scanned = {} THEN "del_index" ELSE "del_read"
             tk == [task[t] EXCEPT !.keys = scanned, !.pc = pc]
  <1>1. /\ task[t].pc = "del_scan" /\ task' = [task EXCEPT ![t] = tk]
        /\ UNCHANGED <<current_revision, history, compacted, read, snapshot, kv, kv_rev, key_index>>
    BY SeqFacts DEF DeleteScan, storeVars
  <1>2. /\ c \in Nat /\ c >= 1 /\ c \in Revision /\ compacted \in Nat /\ compacted < c
        /\ c - 1 \in Nat /\ c - 1 \in Revision /\ c - 1 <= c
        /\ keys \in SUBSET Key /\ Filed(kv_rev, history, c)
        /\ (\A k \in keys : RefIn(history, k, c) = None)
        /\ KvMatches(kv, history, c, keys)
        /\ IndexTracks(key_index, history, compacted, c, keys)
        /\ key_index \in [Key -> Seq(Generation)] /\ history \in [Revision -> Write]
    <2>1. /\ c \in Nat /\ c >= 1 /\ c \in Revision /\ compacted \in Nat
          /\ key_index \in [Key -> Seq(Generation)] /\ history \in [Revision -> Write]
      BY SeqFacts
    <2>2. task[t].pc \in DeletePc /\ KvPending(task[t]) = keys
      BY <1>1, Pendings DEF DeletePc
    <2>3. /\ compacted < c /\ c - 1 \in Nat /\ c - 1 \in Revision
          /\ keys \in SUBSET Key /\ Filed(kv_rev, history, c)
          /\ (\A k \in keys : RefIn(history, k, c) = None)
          /\ KvMatches(kv, history, c, keys)
          /\ IndexTracks(key_index, history, compacted, c, keys)
      BY <2>2, DeleteFacts
    <2>4. c - 1 <= c
      BY <2>1
    <2> QED
      BY <2>1, <2>3, <2>4
  <1>3. task[t].done = {}
    BY <1>1, SeqFacts DEF SeqTask, Writing
  <1>4. pc \in {"del_index", "del_read"} /\ (pc = "del_index" => scanned = {})
    OBVIOUS
  <1> HIDE DEF c, keys
  <1>5. ASSUME NEW k \in keys
        PROVE  /\ Bounded(key_index[k], c) /\ Tracks(key_index[k], history, k, compacted, c - 1)
               /\ RevisionAt(key_index[k], c) = ModOf(RefIn(history, k, c - 1))
               /\ k \in scanned <=> RefIn(history, k, c - 1) # None
    <2>1. k \in Key /\ key_index[k] \in Seq(Generation)
      BY <1>2
    <2>2. Bounded(key_index[k], c - 1) /\ Tracks(key_index[k], history, k, compacted, c - 1)
      BY <1>2, <2>1 DEF IndexTracks, UpTo
    <2>3. RevisionAt(key_index[k], c - 1) = ModOf(RefIn(history, k, c - 1))
      <3>1. c - 1 \in compacted..(c - 1)
        BY <1>2
      <3> QED
        BY <2>2, <3>1 DEF Tracks
    <2>4. Bounded(key_index[k], c) /\ RevisionAt(key_index[k], c) = RevisionAt(key_index[k], c - 1)
      BY <1>2, <2>1, <2>2, LaterLookup
    <2>5. k \in scanned <=> RevisionAt(key_index[k], c) # Gone
      BY <2>1 DEF IndexRange
    <2>6. RefIn(history, k, c - 1) # None => ModOf(RefIn(history, k, c - 1)) # Gone
      <3>1. RefIn(history, k, c - 1) # None => RefIn(history, k, c - 1).mod \in 1..(c - 1)
        BY <1>2, <2>1, RefType
      <3> QED
        BY <1>2, <3>1 DEF ModOf, Gone
    <2>7. RefIn(history, k, c - 1) = None => ModOf(RefIn(history, k, c - 1)) = Gone
      BY DEF ModOf
    <2> QED
      BY <2>2, <2>3, <2>4, <2>5, <2>6, <2>7
  <1>6. scanned \subseteq keys
    BY DEF IndexRange
  <1> HIDE DEF scanned, pc
  <1>7. tk.pc = pc /\ tk.keys = scanned /\ tk.done = {} /\ tk.rev = task[t].rev
    BY <1>3, SeqFacts DEF Task
  <1> HIDE DEF tk
  <1>8. task'[t] = tk
    BY <1>1, SeqFacts
  <1>9. KvMatches(kv, history, c, scanned)
    <2> SUFFICES ASSUME NEW k \in Key PROVE kv[k] = RefIn(history, k, UpTo(c, k, scanned))
      BY DEF KvMatches
    <2>1. kv[k] = RefIn(history, k, UpTo(c, k, keys))
      BY <1>2 DEF KvMatches
    <2>2. CASE k \in keys \ scanned
      <3>1. kv[k] = None /\ RefIn(history, k, c) = None
        BY <1>2, <1>5, <2>1, <2>2 DEF UpTo
      <3> QED
        BY <2>2, <3>1 DEF UpTo
    <2>3. CASE k \notin keys \ scanned
      BY <1>6, <2>1, <2>3 DEF UpTo
    <2> QED
      BY <2>2, <2>3
  <1>10. IndexTracks(key_index, history, compacted, c, scanned)
    <2> SUFFICES ASSUME NEW k \in Key
                 PROVE  /\ Bounded(key_index[k], UpTo(c, k, scanned))
                        /\ Tracks(key_index[k], history, k, compacted, UpTo(c, k, scanned))
      BY DEF IndexTracks
    <2>1. /\ Bounded(key_index[k], UpTo(c, k, keys))
          /\ Tracks(key_index[k], history, k, compacted, UpTo(c, k, keys))
      BY <1>2 DEF IndexTracks
    <2>2. CASE k \in keys \ scanned
      <3>1. Bounded(key_index[k], c) /\ RevisionAt(key_index[k], c) = ModOf(RefIn(history, k, c))
        BY <1>2, <1>5, <2>2
      <3>2. \A r \in compacted..c : r \in compacted..(c - 1) \/ r = c
        BY <1>2
      <3>3. Tracks(key_index[k], history, k, compacted, c)
        BY <1>5, <2>2, <3>1, <3>2 DEF Tracks
      <3> QED
        BY <2>2, <3>1, <3>3 DEF UpTo
    <2>3. CASE k \notin keys \ scanned
      BY <1>6, <2>1, <2>3 DEF UpTo
    <2> QED
      BY <2>2, <2>3
  <1>11. KvMatches(kv, history, c, KvPending(tk))
    <2>1. CASE pc = "del_read"
      BY <1>7, <1>9, <2>1, Pendings
    <2>2. CASE pc = "del_index"
      <3>1. KvPending(tk) = {} /\ scanned = {}
        BY <1>4, <1>7, <2>2, Pendings
      <3> QED
        BY <1>9, <3>1
    <2> QED
      BY <1>4, <2>1, <2>2
  <1>12. \A k \in scanned : RefIn(history, k, c - 1) # None
    BY <1>5, <1>6
  <1>13. tk.pc \in DeletePc /\ tk.pc \notin {"del_scan", "del_rev"} /\ task[t].pc \in DeletePc
    BY <1>1, <1>4, <1>7 DEF DeletePc
  <1> QED
    BY <1>1, <1>2, <1>6, <1>7, <1>8, <1>10, <1>11, <1>12, <1>13, DeleteStepSeq DEF c, keys

\* delete_range reads a key: the kv tree has it.
LEMMA DeleteReadSeq ==
  ASSUME Alone, SeqInv, TypeInv', NEW t \in Thread, NEW k \in Key, DeleteRead(t, k)
  PROVE  SeqInv'
  <1> DEFINE c == current_revision
             keys == task[t].keys
             done == task[t].done \cup {k}
             next == IF done = keys THEN {} ELSE done
             pc == IF done = keys THEN "del_kv" ELSE "del_read"
             tk == [task[t] EXCEPT !.keys = keys, !.done = next, !.pc = pc]
  <1>1. /\ task[t].pc = "del_read" /\ k \in keys
        /\ UNCHANGED <<current_revision, history, compacted, read, snapshot, kv, kv_rev, key_index>>
    BY DEF DeleteRead, storeVars
  <1>2. task[t].pc \in DeletePc /\ KvPending(task[t]) = keys
    BY <1>1, Pendings DEF DeletePc
  <1>3. /\ keys \in SUBSET Key /\ task[t].done \subseteq keys /\ Filed(kv_rev, history, c)
        /\ KvMatches(kv, history, c, keys)
        /\ IndexTracks(key_index, history, compacted, c, keys)
        /\ \A j \in keys : RefIn(history, j, c - 1) # None
    BY <1>1, <1>2, DeleteFacts
  <1>4. kv[k] # None
    BY <1>1, <1>3 DEF KvMatches, UpTo
  <1>5. keys # {}
    BY <1>1
  <1>6. task' = [task EXCEPT ![t] = tk]
    <2>1. pc = CASE keys = {} -> "del_index"
                 [] keys # {} /\ done = keys -> "del_kv"
                 [] OTHER -> "del_read"
      BY <1>5
    <2> HIDE DEF pc
    <2> QED
      BY <1>4, <2>1, SeqFacts DEF DeleteRead
  <1>7. /\ pc \in {"del_kv", "del_read"} /\ (pc = "del_kv" => next = {})
        /\ next \subseteq keys
    BY <1>1, <1>3
  <1> HIDE DEF pc, next, keys
  <1>8. tk.pc = pc /\ tk.keys = keys /\ tk.done = next /\ tk.rev = task[t].rev
    BY SeqFacts DEF Task
  <1> HIDE DEF tk
  <1>9. task'[t] = tk
    BY <1>6, SeqFacts
  <1>10. KvPending(tk) = keys
    BY <1>7, <1>8, Pendings
  <1>11. tk.pc \in DeletePc /\ tk.pc \notin {"del_scan", "del_rev"}
    BY <1>7, <1>8 DEF DeletePc
  <1> QED
    BY <1>1, <1>2, <1>3, <1>7, <1>8, <1>9, <1>10, <1>11, DeleteStepSeq DEF keys

\* delete_range takes a key out of the kv tree.
LEMMA DeleteKvSeq ==
  ASSUME Alone, SeqInv, TypeInv', NEW t \in Thread, NEW k \in Key, DeleteKv(t, k)
  PROVE  SeqInv'
  <1> DEFINE c == current_revision
             keys == task[t].keys
             done == task[t].done
             tk == [task[t] EXCEPT !.pc = "del_rev", !.key = k]
  <1>1. /\ task[t].pc = "del_kv" /\ k \in keys \ done /\ task' = [task EXCEPT ![t] = tk]
        /\ kv' = [kv EXCEPT ![k] = None]
        /\ UNCHANGED <<current_revision, history, compacted, read, snapshot, kv_rev, key_index>>
    BY SeqFacts DEF DeleteKv
  <1>2. task[t].pc \in DeletePc /\ KvPending(task[t]) = keys \ done
    BY <1>1, Pendings DEF DeletePc
  <1>3. /\ done \subseteq keys /\ Filed(kv_rev, history, c)
        /\ KvMatches(kv, history, c, keys \ done)
        /\ IndexTracks(key_index, history, compacted, c, keys)
        /\ (\A j \in keys : RefIn(history, j, c - 1) # None)
        /\ (\A j \in keys : RefIn(history, j, c) = None)
    BY <1>1, <1>2, DeleteFacts
  <1>4. tk.pc = "del_rev" /\ tk.keys = keys /\ tk.done = done /\ tk.rev = task[t].rev /\ tk.key = k
    BY SeqFacts DEF Task
  <1> HIDE DEF tk, c, keys, done
  <1>5. task'[t] = tk
    BY <1>1, SeqFacts
  <1>6. KvPending(tk) = keys \ (done \cup {k})
    BY <1>4, Pendings
  <1>7. KvMatches(kv', history, c, keys \ (done \cup {k}))
    <2> SUFFICES ASSUME NEW j \in Key
                 PROVE  kv'[j] = RefIn(history, j, UpTo(c, j, keys \ (done \cup {k})))
      BY DEF KvMatches
    <2>1. kv'[j] = IF j = k THEN None ELSE kv[j]
      BY <1>1, SeqFacts
    <2>2. CASE j = k
      BY <1>1, <1>3, <2>1, <2>2 DEF UpTo
    <2>3. CASE j # k
      BY <1>3, <2>1, <2>3 DEF UpTo, KvMatches
    <2> QED
      BY <2>2, <2>3
  <1>8. tk.pc \in DeletePc /\ tk.pc # "del_scan"
    BY <1>4 DEF DeletePc
  <1> QED
    BY <1>1, <1>2, <1>3, <1>4, <1>5, <1>6, <1>7, <1>8, DeleteStepSeq DEF c, keys

\* delete_range writes a tombstone to kv_rev.
LEMMA DeleteRevSeq ==
  ASSUME Alone, SeqInv, TypeInv', NEW t \in Thread, DeleteRev(t)
  PROVE  SeqInv'
  <1> DEFINE c == current_revision
             keys == task[t].keys
             done == task[t].done \cup {task[t].key}
             pc == IF done = keys THEN "del_index" ELSE "del_kv"
             tk == [task[t] EXCEPT !.done = done, !.pc = pc]
             e == Tombstone(task[t].rev)
  <1>1. /\ task[t].pc = "del_rev" /\ task' = [task EXCEPT ![t] = tk]
        /\ kv_rev' = [kv_rev EXCEPT ![<<task[t].rev, task[t].key>>] = e]
        /\ UNCHANGED <<current_revision, history, compacted, read, snapshot, kv, key_index>>
    BY SeqFacts DEF DeleteRev
  <1>2. task[t].pc \in DeletePc /\ KvPending(task[t]) = keys \ done
    BY <1>1, Pendings DEF DeletePc
  <1>3. /\ task[t].rev = c /\ task[t].done \subseteq keys /\ Filed(kv_rev, history, c)
        /\ KvMatches(kv, history, c, keys \ done)
        /\ IndexTracks(key_index, history, compacted, c, keys)
        /\ (\A j \in keys : RefIn(history, j, c - 1) # None)
        /\ (\A j \in Key : ~ IsPut(history, c, j))
    BY <1>1, <1>2, DeleteFacts
  <1>4. task[t].key \in keys
    BY <1>1, SeqFacts DEF SeqTask, Writing
  <1>5. /\ pc \in {"del_index", "del_kv"} /\ (pc = "del_index" => done = keys)
        /\ done \subseteq keys
    BY <1>3, <1>4
  <1> HIDE DEF pc, done, keys, e
  <1>6. tk.pc = pc /\ tk.keys = keys /\ tk.done = done /\ tk.rev = task[t].rev
    BY SeqFacts DEF Task, keys
  <1> HIDE DEF tk
  <1>7. task'[t] = tk
    BY <1>1, SeqFacts
  <1>8. KvMatches(kv, history, c, KvPending(tk))
    <2>1. KvPending(tk) = keys \ done
      <3>1. CASE pc = "del_kv"
        BY <1>6, <3>1, Pendings
      <3>2. CASE pc = "del_index"
        <4>1. KvPending(tk) = {} /\ done = keys
          BY <1>5, <1>6, <3>2, Pendings
        <4> QED
          BY <4>1
      <3> QED
        BY <1>5, <3>1, <3>2
    <2> QED
      BY <1>3, <2>1
  <1>9. Filed(kv_rev', history, c)
    <2> SUFFICES ASSUME NEW r \in 1..c, NEW j \in Key, IsPut(history, r, j)
                 PROVE  kv_rev'[<<r, j>>] = RefIn(history, j, r)
      BY DEF Filed
    <2>1. r # c
      BY <1>3
    <2>2. r \in Revision
      BY SeqFacts DEF Revision
    <2>3. <<r, j>> # <<task[t].rev, task[t].key>>
      BY <1>3, <2>1
    <2>4. kv_rev'[<<r, j>>] = kv_rev[<<r, j>>]
      BY <1>1, <2>2, <2>3, SeqFacts
    <2> QED
      BY <1>3, <2>4 DEF Filed
  <1>10. tk.pc \in DeletePc /\ tk.pc \notin {"del_scan", "del_rev"}
    BY <1>5, <1>6 DEF DeletePc
  <1> QED
    BY <1>1, <1>2, <1>3, <1>5, <1>6, <1>7, <1>8, <1>9, <1>10, DeleteStepSeq DEF keys

\* delete_range enters its tombstones in the index.
LEMMA DeleteIndexSeq ==
  ASSUME Alone, SeqInv, TypeInv', NEW t \in Thread, DeleteIndex(t)
  PROVE  SeqInv'
  <1> DEFINE c == current_revision
             keys == task[t].keys
  <1>1. /\ task[t].pc = "del_index" /\ task' = [task EXCEPT ![t] = Idle]
        /\ key_index' = [k \in Key |-> IF k \in keys THEN IndexTombstone(key_index[k], task[t].rev)
                                       ELSE key_index[k]]
        /\ UNCHANGED <<current_revision, history, compacted, read, snapshot, kv, kv_rev>>
    BY DEF DeleteIndex
  <1>2. task[t].pc \in DeletePc /\ KvPending(task[t]) = {}
    BY <1>1, Pendings DEF DeletePc
  <1>3. /\ task[t].rev = c /\ Filed(kv_rev, history, c) /\ KvMatches(kv, history, c, {})
        /\ IndexTracks(key_index, history, compacted, c, keys)
        /\ (\A j \in keys : RefIn(history, j, c) = None) /\ c - 1 \in Nat
    BY <1>2, DeleteFacts
  <1>4. /\ c \in Nat /\ (c - 1) + 1 = c /\ key_index \in [Key -> Seq(Generation)]
        /\ compacted \in Nat
    BY SeqFacts
  <1> HIDE DEF c, keys
  <1>5. ASSUME NEW j \in Key
        PROVE  Bounded(key_index'[j], c) /\ Tracks(key_index'[j], history, j, compacted, c)
    <2>1. CASE j \notin keys
      <3>1. key_index'[j] = key_index[j]
        BY <1>1, <2>1
      <3> QED
        BY <1>3, <2>1, <3>1 DEF IndexTracks, UpTo
    <2>2. CASE j \in keys
      <3>1. key_index'[j] = IndexTombstone(key_index[j], c) /\ key_index[j] \in Seq(Generation)
        BY <1>1, <1>3, <1>4, <2>2
      <3>2. Bounded(key_index[j], c - 1) /\ Tracks(key_index[j], history, j, compacted, c - 1)
        BY <1>3, <2>2 DEF IndexTracks, UpTo
      <3>3. /\ Bounded(key_index'[j], c) /\ RevisionAt(key_index'[j], c) = Gone
            /\ \A q \in 0..(c - 1) : RevisionAt(key_index'[j], q) = RevisionAt(key_index[j], q)
        BY <1>3, <1>4, <3>1, <3>2, TombstoneLookup
      <3>4. ModOf(RefIn(history, j, c)) = Gone
        BY <1>3, <2>2 DEF ModOf
      <3>5. ASSUME NEW r \in compacted..c
            PROVE  RevisionAt(key_index'[j], r) = ModOf(RefIn(history, j, r))
        <4>1. CASE r = c
          BY <3>3, <3>4, <4>1
        <4>2. CASE r # c
          <5>1. r \in compacted..(c - 1) /\ r \in 0..(c - 1)
            BY <1>4, <4>2
          <5> QED
            BY <3>2, <3>3, <5>1 DEF Tracks
        <4> QED
          BY <4>1, <4>2
      <3> QED
        BY <3>3, <3>5 DEF Tracks
    <2> QED
      BY <2>1, <2>2
  <1>6. IndexTracks(key_index', history, compacted, c, {})
    BY <1>5 DEF IndexTracks, UpTo
  <1>7. TreesMatch(task[t])' /\ Writing(task[t])'
    BY <1>1, <1>3, <1>6, TaskEndsSeq, SettledAfter DEF c
  <1> QED
    BY <1>1, <1>7, TaskEndsSeq, PastUnchanged, SeqInvAfter

\* range begins, at the current revision or one before it.
LEMMA RangeStartSeq ==
  ASSUME Alone, SeqInv, TypeInv', NEW t \in Thread, NEW ks \in ReadRange,
         NEW r \in 0..current_revision, RangeStart(t, ks, r)
  PROVE  SeqInv'
  <1> DEFINE c == current_revision
             rev == IF r = 0 THEN c ELSE r
             latest == (r = 0 \/ r >= c)
             tk == [Idle EXCEPT !.pc = "range_index", !.keys = ks, !.rev = rev, !.latest = latest]
  <1>1. /\ task[t].pc = "idle" /\ task' = [task EXCEPT ![t] = tk]
        /\ UNCHANGED <<current_revision, history, compacted, read, snapshot, kv, kv_rev, key_index>>
    BY DEF RangeStart, storeVars
  <1>2. rev \in 1..c /\ (latest => rev = c)
    BY SeqFacts
  <1> HIDE DEF rev, latest
  <1>3. tk.pc = "range_index" /\ tk.rev = rev /\ tk.latest = latest /\ tk.kvs = NoKeyValues
    BY IdleType DEF Idle
  <1> HIDE DEF tk
  <1>4. task'[t] = tk
    BY <1>1, SeqFacts
  <1>5. Reading(task[t])'
    BY <1>1, <1>2, <1>3, <1>4 DEF Reading
  <1>6. Copying(task[t])' /\ task'[t].pc \notin CompactPc
    BY <1>3, <1>4 DEF Copying, RestorePc, CompactPc
  <1>7. TreesMatch(task[t])' /\ Writing(task[t])'
    BY <1>1, <1>3, <1>4, Settled, SettledAfter
  <1> QED
    BY <1>1, <1>5, <1>6, <1>7, PastUnchanged, SeqInvAfter

\* What the index says of a key at a revision that is not compacted, and no
\* write is under way.
LEMMA LookedUp ==
  ASSUME SeqInv, NEW t \in Thread, task[t].pc \in {"idle", "range_index", "range_read"},
         NEW k \in Key, NEW r \in 1..current_revision, r >= compacted
  PROVE  /\ RevisionAt(key_index[k], r) = ModOf(RefIn(history, k, r))
         /\ RevisionAt(key_index[k], r) = Gone <=> RefIn(history, k, r) = None
  <1>1. IndexTracks(key_index, history, compacted, current_revision, {})
    BY Settled
  <1>2. /\ r \in compacted..current_revision /\ r \in Revision
        /\ history \in [Revision -> Write]
    BY SeqFacts DEF Revision
  <1>3. RevisionAt(key_index[k], r) = ModOf(RefIn(history, k, r))
    BY <1>1, <1>2 DEF IndexTracks, Tracks, UpTo
  <1>4. RefIn(history, k, r) # None => RefIn(history, k, r).mod \in 1..r
    BY <1>2, RefType
  <1>5. RefIn(history, k, r) # None => RefIn(history, k, r).mod # Gone
    BY <1>4 DEF Gone
  <1> QED
    BY <1>3, <1>5 DEF ModOf

\* range looks its keys up.
LEMMA RangeIndexSeq ==
  ASSUME Alone, SeqInv, TypeInv', NEW t \in Thread, RangeIndex(t)
  PROVE  SeqInv'
  <1> DEFINE keys == task[t].keys
             rev == task[t].rev
             found == IndexRange(keys, rev)
             done == {k \in Key : found[k] = Gone}
             tk == [task[t] EXCEPT !.pc = "range_read", !.found = found, !.done = done]
  <1>1. /\ task[t].pc = "range_index" /\ task' = [task EXCEPT ![t] = tk]
        /\ UNCHANGED <<current_revision, history, compacted, read, snapshot, kv, kv_rev, key_index>>
    BY SeqFacts DEF RangeIndex, storeVars
  <1>2. /\ rev \in 1..current_revision /\ (task[t].latest => rev = current_revision)
        /\ task[t].kvs = NoKeyValues
    BY <1>1, SeqFacts DEF SeqTask, Reading
  <1>3. ASSUME rev >= compacted, NEW k \in keys \cap done PROVE RefIn(history, k, rev) = None
    <2>1. k \in Key /\ RevisionAt(key_index[k], rev) = Gone
      BY <1>3 DEF IndexRange
    <2> QED
      BY <1>1, <1>2, <1>3, <2>1, LookedUp
  <1>4. \A k \in Key : found[k] = Gone => k \in done
    OBVIOUS
  <1> HIDE DEF found, done
  <1>5. /\ tk.pc = "range_read" /\ tk.found = found /\ tk.done = done /\ tk.keys = keys
        /\ tk.rev = rev /\ tk.latest = task[t].latest /\ tk.kvs = task[t].kvs
    BY SeqFacts DEF Task
  <1> HIDE DEF tk
  <1>6. task'[t] = tk
    BY <1>1, SeqFacts
  <1> HIDE DEF keys, rev
  <1>8. Reading(task[t])'
    <2>1. task'[t].found = found /\ task'[t].keys = keys /\ task'[t].rev = rev
      BY <1>5, <1>6
    <2>2. ASSUME rev >= compacted, NEW k \in Key
          PROVE  task'[t].kvs[k] = IF k \in keys \cap done THEN RefIn(history, k, rev) ELSE None
      <3>1. task'[t].kvs[k] = None
        BY <1>2, <1>5, <1>6 DEF NoKeyValues
      <3> QED
        BY <1>3, <2>2, <3>1
    <2>3. key_index' = key_index
      BY <1>1
    <2>4. (task[t].found = IndexRange(task[t].keys, task[t].rev))'
      BY <2>1, <2>3 DEF IndexRange, found
    <2> QED
      BY <1>1, <1>2, <1>4, <1>5, <1>6, <2>2, <2>4 DEF Reading
  <1>9. Copying(task[t])' /\ task'[t].pc \notin CompactPc
    BY <1>5, <1>6 DEF Copying, RestorePc, CompactPc
  <1>10. TreesMatch(task[t])' /\ Writing(task[t])'
    BY <1>1, <1>5, <1>6, Settled, SettledAfter
  <1> QED
    BY <1>1, <1>8, <1>9, <1>10, PastUnchanged, SeqInvAfter

\* A key read is as the reference has it.
LEMMA ReadKeyMatches ==
  ASSUME SeqInv, NEW t \in Thread, task[t].pc = "range_read", task[t].rev >= compacted,
         NEW k \in Key \ task[t].done
  PROVE  k \in task[t].keys /\ ReadKey(task[t], k) = RefIn(history, k, task[t].rev)
  <1> DEFINE rev == task[t].rev
             e == RefIn(history, k, rev)
  <1>1. /\ rev \in 1..current_revision /\ (task[t].latest => rev = current_revision)
        /\ task[t].found = IndexRange(task[t].keys, rev) /\ task[t].found[k] # Gone
    BY SeqFacts DEF SeqTask, Reading
  <1>2. k \in task[t].keys /\ task[t].found[k] = RevisionAt(key_index[k], rev)
    BY <1>1 DEF IndexRange
  <1>3. task[t].found[k] = ModOf(e) /\ e # None
    BY <1>1, <1>2, LookedUp
  <1>4. rev \in Revision /\ rev \in Nat /\ history \in [Revision -> Write]
    BY <1>1, SeqFacts DEF Revision
  <1>5. /\ e.mod \in 1..rev /\ e.create <= rev /\ IsPut(history, e.mod, k)
        /\ RefIn(history, k, e.mod) = e
    BY <1>3, <1>4, RefType
  <1>6. KvMatches(kv, history, current_revision, {}) /\ Filed(kv_rev, history, current_revision)
    BY Settled
  <1> HIDE DEF rev, e
  <1>7. CASE task[t].latest
    <2>1. kv[k] = e
      BY <1>1, <1>6, <1>7 DEF KvMatches, UpTo, e
    <2>2. e.mod <= rev
      BY <1>4, <1>5
    <2> QED
      BY <1>2, <1>3, <1>5, <1>7, <2>1, <2>2 DEF ReadKey, rev, e
  <1>8. CASE ~ task[t].latest
    <2>1. ReadKey(task[t], k) = kv_rev[<<e.mod, k>>]
      BY <1>3, <1>8 DEF ReadKey, ModOf
    <2>2. e.mod \in 1..current_revision
      BY <1>1, <1>4, <1>5, SeqFacts
    <2>3. kv_rev[<<e.mod, k>>] = e
      BY <1>5, <1>6, <2>2 DEF Filed
    <2> QED
      BY <1>2, <2>1, <2>3 DEF rev, e
  <1> QED
    BY <1>7, <1>8

\* range reads a key.
LEMMA RangeReadSeq ==
  ASSUME Alone, SeqInv, TypeInv', NEW t \in Thread, NEW k \in Key, RangeRead(t, k)
  PROVE  SeqInv'
  <1> DEFINE kvs == [task[t].kvs EXCEPT ![k] = ReadKey(task[t], k)]
             done == task[t].done \cup {k}
             tk == [task[t] EXCEPT !.kvs = kvs, !.done = done]
  <1>1. /\ task[t].pc = "range_read" /\ k \in Key \ task[t].done
        /\ task' = [task EXCEPT ![t] = tk]
        /\ UNCHANGED <<current_revision, history, compacted, read, snapshot, kv, kv_rev, key_index>>
    BY SeqFacts DEF RangeRead, storeVars
  <1>2. /\ task[t].rev \in 1..current_revision
        /\ (task[t].latest => task[t].rev = current_revision)
        /\ task[t].found = IndexRange(task[t].keys, task[t].rev)
        /\ (\A j \in Key : task[t].found[j] = Gone => j \in task[t].done)
        /\ task[t].rev >= compacted =>
             \A j \in Key : task[t].kvs[j] = IF j \in task[t].keys \cap task[t].done
                                             THEN RefIn(history, j, task[t].rev) ELSE None
    BY <1>1, SeqFacts DEF SeqTask, Reading
  <1>3. task[t].kvs \in [Key -> KeyValue \cup {None}]
    BY SeqFacts DEF Task
  <1>4. \A j \in Key : kvs[j] = IF j = k THEN ReadKey(task[t], k) ELSE task[t].kvs[j]
    BY <1>3
  <1> HIDE DEF kvs
  <1>5. /\ tk.pc = "range_read" /\ tk.found = task[t].found /\ tk.done = done
        /\ tk.keys = task[t].keys /\ tk.rev = task[t].rev
        /\ tk.latest = task[t].latest /\ tk.kvs = kvs
    BY <1>1, SeqFacts DEF Task
  <1> HIDE DEF tk
  <1>6. task'[t] = tk
    BY <1>1, SeqFacts
  <1>7. ASSUME task[t].rev >= compacted, NEW j \in Key
        PROVE  kvs[j] = IF j \in task[t].keys \cap done THEN RefIn(history, j, task[t].rev)
                        ELSE None
    <2>1. k \in task[t].keys /\ ReadKey(task[t], k) = RefIn(history, k, task[t].rev)
      BY <1>1, <1>7, ReadKeyMatches
    <2>2. CASE j = k
      BY <1>4, <2>1, <2>2
    <2>3. CASE j # k
      BY <1>2, <1>4, <1>7, <2>3
    <2> QED
      BY <2>2, <2>3
  <1>8. Reading(task[t])'
    <2>1. (task[t].found = IndexRange(task[t].keys, task[t].rev))'
      BY <1>1, <1>2, <1>5, <1>6 DEF IndexRange
    <2>2. \A j \in Key : tk.found[j] = Gone => j \in tk.done
      BY <1>2, <1>5
    <2> QED
      BY <1>1, <1>2, <1>5, <1>6, <1>7, <2>1, <2>2 DEF Reading
  <1>9. Copying(task[t])' /\ task'[t].pc \notin CompactPc
    BY <1>5, <1>6 DEF Copying, RestorePc, CompactPc
  <1>10. TreesMatch(task[t])' /\ Writing(task[t])'
    BY <1>1, <1>5, <1>6, Settled, SettledAfter
  <1> QED
    BY <1>1, <1>8, <1>9, <1>10, PastUnchanged, SeqInvAfter

\* range answers.
LEMMA RangeReplySeq ==
  ASSUME Alone, SeqInv, TypeInv', NEW t \in Thread, RangeReply(t)
  PROVE  SeqInv'
  <1> DEFINE rd == [rev |-> task[t].rev, keys |-> task[t].keys, kvs |-> task[t].kvs]
  <1>1. /\ task[t].pc = "range_read" /\ task[t].done = Key /\ task' = [task EXCEPT ![t] = Idle]
        /\ read' = [read EXCEPT ![t] = rd]
        /\ UNCHANGED <<current_revision, history, compacted, snapshot, kv, kv_rev, key_index>>
    BY DEF RangeReply, storeVars
  <1>2. /\ task[t].rev \in 1..current_revision
        /\ task[t].rev >= compacted =>
             \A j \in Key : task[t].kvs[j] = IF j \in task[t].keys \cap task[t].done
                                             THEN RefIn(history, j, task[t].rev) ELSE None
    BY <1>1, SeqFacts DEF SeqTask, Reading
  <1>3. rd.rev = task[t].rev /\ rd.keys = task[t].keys /\ rd.kvs = task[t].kvs
    OBVIOUS
  <1> HIDE DEF rd
  <1>4. ReadMatches(rd, history, compacted, current_revision)
    BY <1>1, <1>2, <1>3 DEF ReadMatches
  <1>5. read'[t] = rd
    BY <1>1, SeqFacts
  <1>6. ReadMatches(read[t], history, compacted, current_revision)'
    BY <1>1, <1>4, <1>5
  <1>7. TreesMatch(task[t])' /\ Writing(task[t])'
    BY <1>1, TaskEndsSeq, Settled, SettledAfter
  <1>8. (current_revision >= 1)' /\ (compacted <= current_revision)'
    BY <1>1, SeqFacts
  <1> QED
    BY <1>1, <1>6, <1>7, <1>8, TaskEndsSeq, SeqInvAfter

\* A snapshot begins, and copies the kv tree.
LEMMA SnapshotBeginsSeq ==
  ASSUME Alone, SeqInv, TypeInv', NEW t \in Thread, SnapshotStart(t) \/ SnapshotKv(t)
  PROVE  SeqInv'
  <1>1. /\ task[t].pc \in {"idle", "snapshot_kv"}
        /\ UNCHANGED <<current_revision, history, compacted, read, snapshot, kv, kv_rev, key_index>>
    BY DEF SnapshotStart, SnapshotKv, storeVars
  <1>2. /\ task'[t].pc \in {"snapshot_kv", "snapshot_rev"} /\ task'[t].rev = current_revision
        /\ task'[t].pc = "snapshot_rev" => task'[t].kvs = kv
    <2>1. CASE SnapshotStart(t)
      <3> DEFINE tk == [Idle EXCEPT !.pc = "snapshot_kv", !.rev = current_revision,
                                    !.compact = compact_revision]
      <3>1. task'[t] = tk
        BY <2>1, SeqFacts DEF SnapshotStart
      <3>2. tk.pc = "snapshot_kv" /\ tk.rev = current_revision
        BY IdleType DEF Task
      <3> QED
        BY <3>1, <3>2
    <2>2. CASE SnapshotKv(t)
      <3> DEFINE tk == [task[t] EXCEPT !.pc = "snapshot_rev", !.kvs = kv]
      <3>1. task'[t] = tk /\ task[t].pc = "snapshot_kv"
        BY <2>2, SeqFacts DEF SnapshotKv
      <3>2. tk.pc = "snapshot_rev" /\ tk.rev = task[t].rev /\ tk.kvs = kv
        BY SeqFacts DEF Task
      <3>3. task[t].rev = current_revision
        BY <3>1, SeqFacts DEF SeqTask, Copying
      <3> QED
        BY <3>1, <3>2, <3>3
    <2> QED
      BY <2>1, <2>2
  <1>3. TreesMatch(task[t])' /\ Writing(task[t])'
    BY <1>1, <1>2, Settled, SettledAfter
  <1>4. Reading(task[t])' /\ Copying(task[t])' /\ task'[t].pc \notin CompactPc
    BY <1>1, <1>2 DEF Reading, Copying, RestorePc, CompactPc
  <1> QED
    BY <1>1, <1>3, <1>4, PastUnchanged, SeqInvAfter

\* A snapshot is made: nothing else changes.
LEMMA SnapshotRevSeq ==
  ASSUME Alone, SeqInv, TypeInv', NEW t \in Thread, SnapshotRev(t)
  PROVE  SeqInv'
  <1>1. /\ task[t].pc = "snapshot_rev" /\ task' = [task EXCEPT ![t] = Idle]
        /\ UNCHANGED <<current_revision, history, compacted, read, kv, kv_rev, key_index>>
    BY DEF SnapshotRev, storeVars
  <1>2. TreesMatch(task[t])' /\ Writing(task[t])'
    BY <1>1, TaskEndsSeq, Settled, SettledAfter
  <1> QED
    BY <1>1, <1>2, TaskEndsSeq, PastUnchanged, SeqInvAfter

\* A leader's snapshot, if nothing was compacted, is what its writes left.
LEMMA ReceivedMatches ==
  ASSUME WithCompaction = FALSE, NEW data \in Received
  PROVE  data \in Snapshot /\ SnapshotMatches(data)
  <1>1. PICK c \in 1..MaxRevision : \E h \in Histories(c) : \E p \in 0..c :
               data = SnapshotOf(h, c, p) /\ (~ WithCompaction => p = 0)
    BY ReceivedType
  <1>2. PICK h \in Histories(c) : \E p \in 0..c :
               data = SnapshotOf(h, c, p) /\ (~ WithCompaction => p = 0)
    BY <1>1
  <1>3. data = SnapshotOf(h, c, 0)
    BY <1>2
  <1>4. /\ data.current = c /\ data.writes = h
        /\ data.kv = [k \in Key |-> RefIn(h, k, c)]
        /\ data.kv_rev = [rk \in Revision \X Key |->
                            IF rk[1] \in 0..c THEN FiledIn(h, rk[2], rk[1]) ELSE None]
    BY <1>3 DEF SnapshotOf
  <1>5. \A r \in 1..c : r \in Revision /\ r \in 0..c
    BY BoundAssumption DEF Revision
  <1>6. KvMatches(data.kv, h, c, {})
    BY <1>4 DEF KvMatches, UpTo
  <1>7. ASSUME NEW r \in 1..c, NEW k \in Key, IsPut(h, r, k)
        PROVE  data.kv_rev[<<r, k>>] = RefIn(h, k, r)
    <2>1. data.kv_rev[<<r, k>>] = FiledIn(h, k, r)
      BY <1>4, <1>5
    <2> QED
      BY <1>7, <2>1 DEF FiledIn
  <1>8. Filed(data.kv_rev, h, c)
    BY <1>7 DEF Filed
  <1>9. data \in Snapshot
    BY ReceivedType
  <1> QED
    BY <1>4, <1>6, <1>8, <1>9 DEF SnapshotMatches

\* A snapshot is installed: the trees are emptied,
LEMMA RestoreClearSeq ==
  ASSUME Alone, WithCompaction = FALSE, SeqInv, TypeInv', NEW t \in Thread,
         NEW data \in Received, RestoreClear(t, data)
  PROVE  SeqInv'
  <1> DEFINE tk == [Idle EXCEPT !.pc = "restore_trees", !.data = data]
  <1>1. /\ task[t].pc = "idle" /\ task' = [task EXCEPT ![t] = tk]
        /\ kv' = NoKeyValues /\ kv_rev' = [rk \in Revision \X Key |-> None]
        /\ read' = [u \in Thread |-> None]
        /\ UNCHANGED <<current_revision, history, compacted, key_index>>
    BY DEF RestoreClear
  <1>2. tk.pc = "restore_trees" /\ tk.data = data
    BY IdleType DEF Idle
  <1> HIDE DEF tk
  <1>3. task'[t] = tk /\ read'[t] = None
    BY <1>1, SeqFacts
  <1>4. /\ Writing(task[t])' /\ Reading(task[t])' /\ TreesMatch(task[t])'
        /\ task'[t].pc \notin CompactPc
    BY <1>2, <1>3 DEF Writing, Reading, TreesMatch, PutPc, DeletePc, RestorePc, CompactPc
  <1>5. data \in Snapshot /\ SnapshotMatches(data)
    BY ReceivedMatches
  <1>6. Copying(task[t])'
    BY <1>1, <1>2, <1>3, <1>5 DEF Copying, RestorePc
  <1>7. ReadMatches(read[t], history, compacted, current_revision)'
    BY <1>3 DEF ReadMatches
  <1>8. (current_revision >= 1)' /\ (compacted <= current_revision)'
    BY <1>1, SeqFacts
  <1> QED
    BY <1>4, <1>6, <1>7, <1>8, SeqInvAfter

\* ... filled from the snapshot,
LEMMA RestoreTreesSeq ==
  ASSUME Alone, SeqInv, TypeInv', NEW t \in Thread, RestoreTrees(t)
  PROVE  SeqInv'
  <1> DEFINE tk == [task[t] EXCEPT !.pc = "restore_counters"]
             sn == task[t].data
  <1>1. /\ task[t].pc = "restore_trees" /\ task' = [task EXCEPT ![t] = tk]
        /\ kv' = Overlay(kv, sn.kv) /\ kv_rev' = Overlay(kv_rev, sn.kv_rev)
        /\ UNCHANGED <<current_revision, history, compacted, read, snapshot, key_index>>
    BY SeqFacts DEF RestoreTrees
  <1>2. /\ sn \in Snapshot /\ SnapshotMatches(sn)
        /\ kv = NoKeyValues /\ kv_rev = [rk \in Revision \X Key |-> None]
    BY <1>1, SeqFacts DEF SeqTask, Copying, RestorePc
  <1>3. tk.pc = "restore_counters" /\ tk.data = sn
    BY SeqFacts DEF Task
  <1> HIDE DEF tk, sn
  <1>4. /\ sn.kv \in [Key -> KeyValue \cup {None}]
        /\ sn.kv_rev \in [Revision \X Key -> KeyValue \cup {None}]
    BY <1>2 DEF Snapshot
  <1>5. kv' = sn.kv
    <2>1. DOMAIN kv = Key /\ \A x \in Key : kv[x] = None
      BY <1>2 DEF NoKeyValues
    <2>2. kv' = [x \in Key |-> sn.kv[x]]
      BY <1>1, <2>1 DEF Overlay
    <2> QED
      BY <1>4, <2>2
  <1>6. kv_rev' = sn.kv_rev
    <2>1. DOMAIN kv_rev = Revision \X Key /\ \A x \in Revision \X Key : kv_rev[x] = None
      BY <1>2
    <2>2. kv_rev' = [x \in Revision \X Key |-> sn.kv_rev[x]]
      BY <1>1, <2>1 DEF Overlay
    <2> QED
      BY <1>4, <2>2
  <1>7. task'[t] = tk
    BY <1>1, SeqFacts
  <1>8. /\ Writing(task[t])' /\ Reading(task[t])' /\ TreesMatch(task[t])'
        /\ task'[t].pc \notin CompactPc
    BY <1>3, <1>7 DEF Writing, Reading, TreesMatch, PutPc, DeletePc, RestorePc, CompactPc
  <1>9. Copying(task[t])'
    BY <1>2, <1>3, <1>5, <1>6, <1>7 DEF Copying, RestorePc
  <1> QED
    BY <1>1, <1>8, <1>9, PastUnchanged, SeqInvAfter

\* ... the counters set: from here on the history is the leader's,
LEMMA RestoreCountersSeq ==
  ASSUME Alone, SeqInv, TypeInv', NEW t \in Thread, RestoreCounters(t)
  PROVE  SeqInv'
  <1> DEFINE tk == [task[t] EXCEPT !.pc = "restore_index"]
             sn == task[t].data
             n == sn.current
  <1>1. /\ task[t].pc = "restore_counters" /\ task' = [task EXCEPT ![t] = tk]
        /\ current_revision' = n /\ compacted' = n /\ history' = sn.writes
        /\ read' = [u \in Thread |-> None]
        /\ UNCHANGED <<kv, kv_rev>>
    BY SeqFacts DEF RestoreCounters
  <1>2. SnapshotMatches(sn) /\ kv = sn.kv /\ kv_rev = sn.kv_rev
    BY <1>1, SeqFacts DEF SeqTask, Copying, RestorePc
  <1>3. tk.pc = "restore_index"
    BY SeqFacts DEF Task
  <1> HIDE DEF tk, sn
  <1>4. n \in 1..MaxRevision /\ KvMatches(kv, sn.writes, n, {}) /\ Filed(kv_rev, sn.writes, n)
    BY <1>2 DEF SnapshotMatches
  <1> HIDE DEF n
  <1>5. task'[t] = tk /\ read'[t] = None
    BY <1>1, SeqFacts
  <1>6. TreesMatch(task[t])'
    <2>1. KvPending(tk) = {} /\ FiledUpTo(tk, n) = n
      BY <1>3, Pendings
    <2> QED
      BY <1>1, <1>3, <1>4, <1>5, <2>1 DEF TreesMatch, RestorePc
  <1>7. Writing(task[t])' /\ Reading(task[t])' /\ task'[t].pc \notin CompactPc
    BY <1>3, <1>5 DEF Writing, Reading, PutPc, DeletePc, CompactPc
  <1>8. Copying(task[t])'
    BY <1>1, <1>3, <1>5 DEF Copying, RestorePc
  <1>9. ReadMatches(read[t], history, compacted, current_revision)'
    BY <1>5 DEF ReadMatches
  <1>10. (current_revision >= 1)' /\ (compacted <= current_revision)'
    BY <1>1, <1>4
  <1> QED
    BY <1>6, <1>7, <1>8, <1>9, <1>10, SeqInvAfter

\* ... and the index rebuilt, which finds every key at the installed revision.
LEMMA RestoreIndexSeq ==
  ASSUME Alone, SeqInv, TypeInv', NEW t \in Thread, RestoreIndex(t)
  PROVE  SeqInv'
  <1> DEFINE c == current_revision
  <1>1. /\ task[t].pc = "restore_index" /\ task' = [task EXCEPT ![t] = Idle]
        /\ key_index' = IndexRebuilt
        /\ UNCHANGED <<current_revision, history, compacted, read, snapshot, kv, kv_rev>>
    BY DEF RestoreIndex
  <1>2. c \in Nat /\ c >= 1 /\ c \in Revision /\ history \in [Revision -> Write] /\ compacted = c
    BY <1>1, SeqFacts DEF SeqTask, Copying
  <1>3. KvMatches(kv, history, c, {}) /\ Filed(kv_rev, history, c)
    <2>1. KvPending(task[t]) = {} /\ FiledUpTo(task[t], c) = c
      BY <1>1, Pendings
    <2> QED
      BY <1>1, <2>1, SeqFacts DEF SeqTask, TreesMatch
  <1> HIDE DEF c
  <1>4. ASSUME NEW k \in Key
        PROVE  /\ Bounded(key_index'[k], c)
               /\ RevisionAt(key_index'[k], c) = ModOf(RefIn(history, k, c))
    <2>1. kv[k] = RefIn(history, k, c)
      BY <1>3 DEF KvMatches, UpTo
    <2>2. key_index'[k] = IF kv[k] = None THEN <<>> ELSE IndexPut(<<>>, kv[k].mod)
      BY <1>1 DEF IndexRebuilt
    <2>3. CASE kv[k] = None
      <3>1. AliveAt(<<>>, c) = {}
        BY DEF AliveAt
      <3>2. RevisionAt(<<>>, c) = Gone
        BY <3>1 DEF RevisionAt
      <3>3. Bounded(<<>>, c)
        BY DEF Bounded
      <3> QED
        BY <2>1, <2>2, <2>3, <3>2, <3>3 DEF ModOf
    <2>4. CASE kv[k] # None
      <3> DEFINE m == kv[k].mod
                 n == m - 1
      <3>1. m \in 1..c
        BY <1>2, <2>1, <2>4, RefType
      <3>2. n \in Nat /\ n + 1 = m /\ m <= c /\ m \in Nat
        BY <1>2, <3>1
      <3> HIDE DEF m, n
      <3>3. <<>> \in Seq(Generation) /\ Bounded(<<>>, n)
        BY DEF Bounded
      <3>4. /\ IndexPut(<<>>, n + 1) \in Seq(Generation)
            /\ Bounded(IndexPut(<<>>, n + 1), n + 1)
            /\ RevisionAt(IndexPut(<<>>, n + 1), n + 1) = n + 1
        BY <3>2, <3>3, PutLookup
      <3>5. PICK f : f = IndexPut(<<>>, m)
        OBVIOUS
      <3>6. f \in Seq(Generation) /\ Bounded(f, m) /\ RevisionAt(f, m) = m
        BY <3>2, <3>4, <3>5
      <3>7. Bounded(f, c) /\ RevisionAt(f, c) = m
        BY <1>2, <3>2, <3>6, LaterLookup
      <3>8. key_index'[k] = f
        BY <2>2, <2>4, <3>5 DEF m
      <3>9. ModOf(RefIn(history, k, c)) = m
        BY <2>1, <2>4 DEF ModOf, m
      <3> QED
        BY <3>7, <3>8, <3>9
    <2> QED
      BY <2>3, <2>4
  <1>5. \A r \in compacted..c : r = c
    BY <1>2
  <1>6. IndexTracks(key_index', history, compacted, c, {})
    BY <1>4, <1>5 DEF IndexTracks, Tracks, UpTo
  <1>7. TreesMatch(task[t])' /\ Writing(task[t])'
    BY <1>1, <1>3, <1>6, TaskEndsSeq, SettledAfter DEF c
  <1> QED
    BY <1>1, <1>7, TaskEndsSeq, PastUnchanged, SeqInvAfter

\* The store starts empty, and so does the history.
LEMMA InitSeq == Init => SeqInv
  <1> SUFFICES ASSUME Init PROVE SeqInv
    OBVIOUS
  <1>1. TypeInv
    BY InitType
  <1>2. /\ current_revision = 1 /\ compacted = 0 /\ snapshot = None
        /\ kv = NoKeyValues /\ key_index = [k \in Key |-> <<>>]
        /\ history = [r \in Revision |-> NoWrite]
        /\ \A t \in Thread : task[t].pc = "idle" /\ read[t] = None
    BY IdleType DEF Init
  <1>3. 0 \in Revision /\ 1 \in Revision
    BY BoundAssumption DEF Revision
  <1>4. \A r \in 1..1, k \in Key : ~ IsPut(history, r, k)
    <2>1. \A r \in 1..1 : history[r] = NoWrite
      BY <1>2, <1>3
    <2> QED
      BY <2>1 DEF NoWrite, IsPut
  <1>5. ASSUME NEW k \in Key, NEW r \in 0..1 PROVE RefIn(history, k, r) = None
    <2>1. LivePutsIn(history, k, r) = {}
      BY <1>4 DEF LivePutsIn
    <2> QED
      BY <2>1 DEF RefIn, Described
  <1>6. KvMatches(kv, history, 1, {})
    BY <1>2, <1>5 DEF KvMatches, UpTo, NoKeyValues
  <1>7. Filed(kv_rev, history, 1)
    BY <1>4 DEF Filed
  <1>8. IndexTracks(key_index, history, 0, 1, {})
    <2>1. ASSUME NEW r \in 0..1 PROVE RevisionAt(<<>>, r) = Gone
      <3>1. AliveAt(<<>>, r) = {}
        BY DEF AliveAt
      <3> QED
        BY <3>1 DEF RevisionAt
    <2>2. Bounded(<<>>, 1)
      BY DEF Bounded
    <2>3. ASSUME NEW k \in Key PROVE Tracks(key_index[k], history, k, 0, 1)
      <3>1. ASSUME NEW r \in 0..1 PROVE ModOf(RefIn(history, k, r)) = Gone
        BY <1>5 DEF ModOf
      <3>2. key_index[k] = <<>>
        BY <1>2
      <3> QED
        BY <2>1, <3>1, <3>2 DEF Tracks
    <2>4. \A k \in Key : UpTo(1, k, {}) = 1 /\ Bounded(key_index[k], 1)
      BY <1>2, <2>2 DEF UpTo
    <2>5. ASSUME NEW k \in Key
          PROVE  /\ Bounded(key_index[k], UpTo(1, k, {}))
                 /\ Tracks(key_index[k], history, k, 0, UpTo(1, k, {}))
      BY <2>3, <2>4
    <2> QED
      BY <2>5 DEF IndexTracks
  <1>9. ASSUME NEW t \in Thread
        PROVE  SeqTask(task[t]) /\ ReadMatches(read[t], history, compacted, current_revision)
    <2>1. /\ KvPending(task[t]) = {} /\ IndexPending(task[t]) = {} /\ FiledUpTo(task[t], 1) = 1
      <3>1. task[t].pc = "idle"
        BY <1>2
      <3> QED
        BY <3>1 DEF KvPending, IndexPending, FiledUpTo, PutPc, DeletePc
    <2>2. TreesMatch(task[t])
      BY <1>2, <1>6, <1>7, <1>8, <2>1 DEF TreesMatch
    <2>3. Writing(task[t]) /\ Reading(task[t]) /\ Copying(task[t]) /\ task[t].pc \notin CompactPc
      BY <1>2 DEF Writing, Reading, Copying, PutPc, DeletePc, RestorePc, CompactPc
    <2> QED
      BY <1>2, <2>2, <2>3 DEF SeqTask, ReadMatches
  <1> QED
    BY <1>1, <1>2, <1>9 DEF SeqInv

\* Every step of the one caller keeps the invariant.
LEMMA NextSeq ==
  ASSUME Alone, WithCompaction = FALSE, MaxRestarts = 0
  PROVE  SeqInv /\ [Next]_vars => SeqInv'
  <1> SUFFICES ASSUME SeqInv, [Next]_vars PROVE SeqInv'
    OBVIOUS
  <1>1. TypeInv'
    BY NextType DEF SeqInv
  <1>2. ASSUME NEW t \in Thread, PutNext(t) PROVE SeqInv'
    BY <1>1, <1>2, PutAllocateSeq, PutReadSeq, PutKvSeq, PutRevSeq, PutIndexSeq DEF PutNext
  <1>3. ASSUME NEW t \in Thread, DeleteNext(t) PROVE SeqInv'
    BY <1>1, <1>3, DeleteAllocateSeq, DeleteScanSeq, DeleteReadSeq, DeleteKvSeq, DeleteRevSeq,
       DeleteIndexSeq DEF DeleteNext
  <1>4. ASSUME NEW t \in Thread, RangeNext(t) PROVE SeqInv'
    BY <1>1, <1>4, RangeStartSeq, RangeIndexSeq, RangeReadSeq, RangeReplySeq DEF RangeNext
  <1>5. ASSUME NEW t \in Thread, SnapshotNext(t) PROVE SeqInv'
    BY <1>1, <1>5, SnapshotBeginsSeq, SnapshotRevSeq, RestoreClearSeq, RestoreTreesSeq,
       RestoreCountersSeq, RestoreIndexSeq DEF SnapshotNext
  <1>6. ASSUME NEW t \in Thread PROVE ~ CompactNext(t)
    <2>1. task[t].pc \notin CompactPc
      BY SeqFacts DEF SeqTask
    <2> QED
      BY <2>1 DEF CompactNext, CompactStart, CompactIndex, CompactTrees, CompactPc
  <1>7. ~ Restart
    BY DEF SeqInv, TypeInv, TypeOK, Restart
  <1>8. CASE UNCHANGED vars
    <2>0. UNCHANGED <<kv, kv_rev, current_revision, compacted, key_index, snapshot, history,
                      task, read>>
      BY <1>8 DEF vars, storeVars
    <2>1. ASSUME NEW t \in Thread PROVE SeqTask(task[t])'
      <3>1. SeqTask(task[t])
        BY DEF SeqInv
      <3>2. Writing(task[t])'
        BY <2>0, <3>1 DEF SeqTask, Writing
      <3>3. Reading(task[t])'
        BY <2>0, <3>1 DEF SeqTask, Reading, IndexRange
      <3>4. Copying(task[t])'
        BY <2>0, <3>1 DEF SeqTask, Copying
      <3>5. TreesMatch(task[t])'
        BY <2>0, <3>1 DEF SeqTask, TreesMatch
      <3> QED
        BY <2>0, <3>1, <3>2, <3>3, <3>4, <3>5 DEF SeqTask
    <2> QED
      BY <1>1, <2>0, <2>1 DEF SeqInv
  <1> QED
    BY <1>2, <1>3, <1>4, <1>5, <1>6, <1>7, <1>8 DEF Next

\* One caller at a time, without compaction or restart: a range returns, for
\* every key and every revision back to the snapshot last installed, exactly
\* what the writes up to that revision left there, whatever was put, deleted,
\* put again and installed before: a leader's snapshot, older or newer, included.
THEOREM ReadsFollowHistory ==
  ASSUME Alone, WithCompaction = FALSE, MaxRestarts = 0
  PROVE  Spec => []ReadsMatchHistory
  <1>1. SeqInv /\ [Next]_vars => SeqInv'
    BY NextSeq
  <1>2. SeqInv => ReadsMatchHistory
    <2> SUFFICES ASSUME SeqInv, NEW t \in Thread, read[t] # None, read[t].rev >= compacted,
                        NEW k \in Key
                 PROVE  read[t].kvs[k] = IF k \in read[t].keys
                                         THEN ReferenceAt(k, read[t].rev) ELSE None
      BY DEF ReadsMatchHistory
    <2>1. ReadMatches(read[t], history, compacted, current_revision)
      BY DEF SeqInv
    <2>2. read[t].kvs[k] = IF k \in read[t].keys THEN RefIn(history, k, read[t].rev) ELSE None
      BY <2>1 DEF ReadMatches
    <2> QED
      BY <2>2 DEF ReferenceAt
  <1> QED
    BY <1>1, <1>2, InitSeq, PTL DEF Spec

\* Under the same conditions, whenever no operation is under way the index
\* finds exactly the keys the kv tree has, at the revisions it has them.
THEOREM IndexFollowsKv ==
  ASSUME Alone, Thread # {}, WithCompaction = FALSE, MaxRestarts = 0
  PROVE  Spec => []IndexMatchesKv
  <1>1. SeqInv /\ [Next]_vars => SeqInv'
    BY NextSeq
  <1>2. SeqInv => IndexMatchesKv
    <2> SUFFICES ASSUME SeqInv, NEW t \in Thread, Quiescent, NEW k \in Key
                 PROVE  RevisionAt(key_index[k], current_revision) =
                          IF kv[k] = None THEN Gone ELSE kv[k].mod
      BY DEF IndexMatchesKv
    <2>1. task[t].pc = "idle"
      BY DEF Quiescent
    <2>2. /\ current_revision \in 1..current_revision /\ current_revision >= compacted
      BY SeqFacts
    <2>3. RevisionAt(key_index[k], current_revision) = ModOf(RefIn(history, k, current_revision))
      BY <2>1, <2>2, LookedUp
    <2>4. kv[k] = RefIn(history, k, current_revision)
      BY <2>1, Settled DEF KvMatches, UpTo
    <2> QED
      BY <2>3, <2>4 DEF ModOf
  <1> QED
    BY <1>1, <1>2, InitSeq, PTL DEF Spec
=============================================================================
