----------------------------- MODULE MvccStore -----------------------------
(***************************************************************************)
(* The MVCC store, src/src/storage/mvcc.rs, over its sled trees            *)
(* (backend.rs) and the key index (index.rs), used by several threads.     *)
(*                                                                         *)
(* put, delete_range, range and compact take no lock of their own: each    *)
(* backend call and each critical section of the index lock is one step,   *)
(* and the steps of different threads interleave.  A whole-tree operation  *)
(* (iterating, clearing or restoring a tree) is one step.  A range of keys *)
(* is a set of keys, visited in any order; a value stands for its bytes;   *)
(* the lease number of a key is left out.                                  *)
(*                                                                         *)
(* NextRevisionLoaded, NextRevisionCountsDown, NewKeyValueAhead,           *)
(* ReadKeyFromKv, KeptFromAbove and SnapshotDataSwapped are broken         *)
(* variants of the definitions after them; no action uses them.            *)
(***************************************************************************)
EXTENDS KeyIndex, FiniteSets, FiniteSetsExt

CONSTANTS
  Thread,           \* tasks that use the store
  Key, Value,
  DeleteRange,      \* the ranges clients delete: sets of keys
  ReadRange,        \* the ranges clients read
  MaxRevision,      \* bound on current_revision
  MaxRestarts,      \* bound on restarts
  WithCompaction,   \* whether clients compact
  WithSnapshots,    \* whether snapshots are made and installed
  None              \* Option::None

ASSUME RangeAssumption == DeleteRange \cup ReadRange \subseteq SUBSET Key
ASSUME BoundAssumption == MaxRevision \in Nat \ {0} /\ MaxRestarts \in Nat

VARIABLES
  current_revision,
  compact_revision,
  key_index,        \* key -> generations
  kv,               \* tree "kv": key -> latest KeyValue
  kv_rev,           \* tree "kv_rev": revision and key -> KeyValue or tombstone
  task,             \* what each thread is doing
  read,             \* the result of each thread's last range, and
  snapshot,         \* the last snapshot made (it is for other nodes), since one
                    \* was installed
  restarts,
  history,          \* history: the writes in revision order, what each revision did
  compacted         \* history: the highest revision the trees were compacted to,
                    \* or a snapshot was installed at; the past before it is gone

storeVars == <<current_revision, compact_revision, key_index, kv, kv_rev>>
vars == <<storeVars, task, read, snapshot, restarts, history, compacted>>

Revision == 0..MaxRevision

KeyValue == [value : Value \cup {None}, create : Revision, mod : Revision, version : Nat]

ASSUME NoneAssumption == None \notin KeyValue

\* A delete writes a KeyValue without a value to kv_rev.
Tombstone(r) == [value |-> None, create |-> 0, mod |-> r, version |-> 0]

Pc == {"idle", "put_read", "put_kv", "put_rev", "put_index",
       "del_scan", "del_read", "del_kv", "del_rev", "del_index",
       "range_index", "range_read", "compact_index", "compact_trees",
       "snapshot_kv", "snapshot_rev",
       "restore_trees", "restore_counters", "restore_index"}

Write == [kind : {"put", "delete", "none"}, keys : SUBSET Key,
          value : Value \cup {None}]

NoWrite == [kind |-> "none", keys |-> {}, value |-> None]

\* `writes' is history: the writes the snapshot's store had performed.
Snapshot == [current : Revision, compact : Revision, kv : [Key -> KeyValue \cup {None}],
             kv_rev : [Revision \X Key -> KeyValue \cup {None}],
             writes : [Revision -> Write]]

Task == [pc : Pc, key : Key \cup {None}, value : Value \cup {None}, rev : Revision,
         prev : KeyValue \cup {None}, keys : SUBSET Key, done : SUBSET Key,
         latest : BOOLEAN, found : [Key -> Revision],
         kvs : [Key -> KeyValue \cup {None}], compact : Revision,
         data : Snapshot \cup {None}]

NoRevisions == [k \in Key |-> Gone]
NoKeyValues == [k \in Key |-> None]

Idle == [pc |-> "idle", key |-> None, value |-> None, rev |-> 0, prev |-> None,
         keys |-> {}, done |-> {}, latest |-> FALSE, found |-> NoRevisions,
         kvs |-> NoKeyValues, compact |-> 0, data |-> None]

Read == [rev : Revision, keys : SUBSET Key, kvs : [Key -> KeyValue \cup {None}]]

TypeOK ==
  /\ current_revision \in Revision
  /\ compact_revision \in Revision
  /\ key_index \in [Key -> Seq(Generation)]
  /\ kv \in [Key -> KeyValue \cup {None}]
  /\ kv_rev \in [Revision \X Key -> KeyValue \cup {None}]
  /\ task \in [Thread -> Task]
  /\ read \in [Thread -> Read \cup {None}]
  /\ snapshot \in Snapshot \cup {None}
  /\ restarts \in Nat
  /\ history \in [Revision -> Write]
  /\ compacted \in Revision

(***************************************************************************)
(* MvccStore::new on empty trees: the counter starts at 1, so the first    *)
(* write has revision 2.                                                   *)
(***************************************************************************)
Init ==
  /\ current_revision = 1
  /\ compact_revision = 0
  /\ key_index = [k \in Key |-> <<>>]
  /\ kv = NoKeyValues
  /\ kv_rev = [rk \in Revision \X Key |-> None]
  /\ task = [t \in Thread |-> Idle]
  /\ read = [t \in Thread |-> None]
  /\ snapshot = None
  /\ restarts = 0
  /\ history = [r \in Revision |-> NoWrite]
  /\ compacted = 0

-----------------------------------------------------------------------------
(***************************************************************************)
(* put                                                                     *)
(***************************************************************************)

NextRevisionLoaded == current_revision
NextRevisionCountsDown == current_revision - 1

\* next_revision: fetch_add returns a number no other thread gets.
NextRevision == current_revision + 1

PutAllocate(t, k, v) ==
  /\ task[t].pc = "idle"
  /\ current_revision < MaxRevision
  /\ current_revision' = NextRevision
  /\ task' = [task EXCEPT ![t] =
       [Idle EXCEPT !.pc = "put_read", !.key = k, !.value = v,
                    !.rev = NextRevision]]
  /\ history' = [history EXCEPT ![NextRevision] =
       [kind |-> "put", keys |-> {k}, value |-> v]]
  /\ UNCHANGED <<compact_revision, key_index, kv, kv_rev, read, snapshot,
                 restarts, compacted>>

PutRead(t) ==
  /\ task[t].pc = "put_read"
  /\ task' = [task EXCEPT ![t].pc = "put_kv", ![t].prev = kv[task[t].key]]
  /\ UNCHANGED <<storeVars, read, snapshot, restarts, history, compacted>>

NewKeyValueAhead(tk) ==
  [value |-> tk.value, create |-> tk.rev + 1, mod |-> tk.rev + 1, version |-> 1]

\* The KeyValue put builds from the one it read.
NewKeyValue(tk) ==
  [value |-> tk.value, mod |-> tk.rev,
   version |-> IF tk.prev = None THEN 1 ELSE tk.prev.version + 1,
   create |-> IF tk.prev = None \/ tk.prev.version = 0
              THEN tk.rev ELSE tk.prev.create]

PutKv(t) ==
  /\ task[t].pc = "put_kv"
  /\ kv' = [kv EXCEPT ![task[t].key] = NewKeyValue(task[t])]
  /\ task' = [task EXCEPT ![t].pc = "put_rev"]
  /\ UNCHANGED <<current_revision, compact_revision, key_index, kv_rev, read,
                 snapshot, restarts, history, compacted>>

PutRev(t) ==
  /\ task[t].pc = "put_rev"
  /\ kv_rev' = [kv_rev EXCEPT ![<<task[t].rev, task[t].key>>] = NewKeyValue(task[t])]
  /\ task' = [task EXCEPT ![t].pc = "put_index"]
  /\ UNCHANGED <<current_revision, compact_revision, key_index, kv, read,
                 snapshot, restarts, history, compacted>>

PutIndex(t) ==
  /\ task[t].pc = "put_index"
  /\ key_index' = [key_index EXCEPT ![task[t].key] = IndexPut(@, task[t].rev)]
  /\ task' = [task EXCEPT ![t] = Idle]
  /\ UNCHANGED <<current_revision, compact_revision, kv, kv_rev, read, snapshot,
                 restarts, history, compacted>>

-----------------------------------------------------------------------------
(***************************************************************************)
(* delete_range                                                            *)
(***************************************************************************)

DeleteAllocate(t, ks) ==
  /\ task[t].pc = "idle"
  /\ current_revision < MaxRevision
  /\ current_revision' = NextRevision
  /\ task' = [task EXCEPT ![t] =
       [Idle EXCEPT !.pc = "del_scan", !.keys = ks, !.rev = NextRevision]]
  /\ history' = [history EXCEPT ![NextRevision] =
       [kind |-> "delete", keys |-> ks, value |-> None]]
  /\ UNCHANGED <<compact_revision, key_index, kv, kv_rev, read, snapshot,
                 restarts, compacted>>

\* KeyIndex::range over ks at revision r: the keys found and their revisions.
IndexRange(ks, r) ==
  [k \in Key |-> IF k \in ks THEN RevisionAt(key_index[k], r) ELSE Gone]

\* The scan is at the revision that is current now, not at its own.
DeleteScan(t) ==
  LET found == IndexRange(task[t].keys, current_revision)
      scanned == {k \in Key : found[k] # Gone}
  IN /\ task[t].pc = "del_scan"
     /\ task' = [task EXCEPT ![t].keys = scanned,
                   ![t].pc = IF scanned = {} THEN "del_index" ELSE "del_read"]
     /\ UNCHANGED <<storeVars, read, snapshot, restarts, history, compacted>>

\* The loop that reads the keys: one the kv tree does not hold is left out.
DeleteRead(t, k) ==
  LET keys == IF kv[k] = None THEN task[t].keys \ {k} ELSE task[t].keys
      done == IF kv[k] = None THEN task[t].done ELSE task[t].done \cup {k}
  IN /\ task[t].pc = "del_read"
     /\ k \in task[t].keys \ task[t].done
     /\ task' = [task EXCEPT ![t].keys = keys,
                   ![t].done = IF done = keys THEN {} ELSE done,
                   ![t].pc = CASE keys = {} -> "del_index"
                               [] keys # {} /\ done = keys -> "del_kv"
                               [] OTHER -> "del_read"]
     /\ UNCHANGED <<storeVars, read, snapshot, restarts, history, compacted>>

\* The loop that deletes them: out of the kv tree, then a tombstone in kv_rev.
DeleteKv(t, k) ==
  /\ task[t].pc = "del_kv"
  /\ k \in task[t].keys \ task[t].done
  /\ kv' = [kv EXCEPT ![k] = None]
  /\ task' = [task EXCEPT ![t].pc = "del_rev", ![t].key = k]
  /\ UNCHANGED <<current_revision, compact_revision, key_index, kv_rev, read,
                 snapshot, restarts, history, compacted>>

DeleteRev(t) ==
  LET done == task[t].done \cup {task[t].key}
  IN /\ task[t].pc = "del_rev"
     /\ kv_rev' = [kv_rev EXCEPT ![<<task[t].rev, task[t].key>>] = Tombstone(task[t].rev)]
     /\ task' = [task EXCEPT ![t].done = done,
                   ![t].pc = IF done = task[t].keys THEN "del_index" ELSE "del_kv"]
     /\ UNCHANGED <<current_revision, compact_revision, key_index, kv, read,
                    snapshot, restarts, history, compacted>>

DeleteIndex(t) ==
  /\ task[t].pc = "del_index"
  /\ key_index' = [k \in Key |-> IF k \in task[t].keys
                                 THEN IndexTombstone(key_index[k], task[t].rev)
                                 ELSE key_index[k]]
  /\ task' = [task EXCEPT ![t] = Idle]
  /\ UNCHANGED <<current_revision, compact_revision, kv, kv_rev, read, snapshot,
                 restarts, history, compacted>>

-----------------------------------------------------------------------------
(***************************************************************************)
(* range (without limit and count_only)                                    *)
(***************************************************************************)

\* r = 0 asks for the current revision.
RangeStart(t, ks, r) ==
  /\ task[t].pc = "idle"
  /\ task' = [task EXCEPT ![t] =
       [Idle EXCEPT !.pc = "range_index", !.keys = ks,
                    !.rev = IF r = 0 THEN current_revision ELSE r,
                    !.latest = (r = 0 \/ r >= current_revision)]]
  /\ UNCHANGED <<storeVars, read, snapshot, restarts, history, compacted>>

RangeIndex(t) ==
  LET found == IndexRange(task[t].keys, task[t].rev)
  IN /\ task[t].pc = "range_index"
     /\ task' = [task EXCEPT ![t].pc = "range_read", ![t].found = found,
                             ![t].done = {k \in Key : found[k] = Gone}]
     /\ UNCHANGED <<storeVars, read, snapshot, restarts, history, compacted>>

ReadKeyFromKv(tk, k) == kv[k]

\* A latest read takes the kv tree and drops a key that has been written
\* since; a historical read takes the revision the index named.
ReadKey(tk, k) ==
  IF tk.latest
  THEN IF kv[k] # None /\ kv[k].create <= tk.rev /\ kv[k].mod <= tk.rev
       THEN kv[k] ELSE None
  ELSE kv_rev[<<tk.found[k], k>>]

RangeRead(t, k) ==
  /\ task[t].pc = "range_read"
  /\ k \in Key \ task[t].done
  /\ task' = [task EXCEPT ![t].kvs[k] = ReadKey(task[t], k), ![t].done = @ \cup {k}]
  /\ UNCHANGED <<storeVars, read, snapshot, restarts, history, compacted>>

RangeReply(t) ==
  /\ task[t].pc = "range_read"
  /\ task[t].done = Key
  /\ read' = [read EXCEPT ![t] =
       [rev |-> task[t].rev, keys |-> task[t].keys, kvs |-> task[t].kvs]]
  /\ task' = [task EXCEPT ![t] = Idle]
  /\ UNCHANGED <<storeVars, snapshot, restarts, history, compacted>>

-----------------------------------------------------------------------------
(***************************************************************************)
(* compact                                                                 *)
(***************************************************************************)

\* compact_revision takes the requested value, lower than before or not.
CompactStart(t, r) ==
  /\ WithCompaction
  /\ task[t].pc = "idle"
  /\ r <= current_revision
  /\ compact_revision' = r
  /\ task' = [task EXCEPT ![t] = [Idle EXCEPT !.pc = "compact_index", !.rev = r]]
  /\ UNCHANGED <<current_revision, key_index, kv, kv_rev, read, snapshot,
                 restarts, history, compacted>>

CompactIndex(t) ==
  /\ task[t].pc = "compact_index"
  /\ key_index' = [k \in Key |-> IndexCompact(key_index[k], task[t].rev)]
  /\ task' = [task EXCEPT ![t].pc = "compact_trees"]
  /\ UNCHANGED <<current_revision, compact_revision, kv, kv_rev, read, snapshot,
                 restarts, history, compacted>>

KeptFromAbove(r) == [rk \in Revision \X Key |-> IF rk[1] <= r THEN None ELSE kv_rev[rk]]

\* Backend::compact: one batch removes every kv_rev entry below the revision.
KeptFrom(r) == [rk \in Revision \X Key |-> IF rk[1] < r THEN None ELSE kv_rev[rk]]

CompactTrees(t) ==
  /\ task[t].pc = "compact_trees"
  /\ kv_rev' = KeptFrom(task[t].rev)
  /\ compacted' = IF task[t].rev > compacted THEN task[t].rev ELSE compacted
  /\ task' = [task EXCEPT ![t] = Idle]
  /\ UNCHANGED <<current_revision, compact_revision, key_index, kv, read,
                 snapshot, restarts, history>>

-----------------------------------------------------------------------------
(***************************************************************************)
(* What a history h of writes leaves in the trees of a store that performs *)
(* them one after the other.                                               *)
(***************************************************************************)
IsPut(h, r, k) == h[r].kind = "put" /\ k \in h[r].keys
IsDelete(h, r, k) == h[r].kind = "delete" /\ k \in h[r].keys

\* The puts of k at or before r that no later delete at or before r undoes.
LivePutsIn(h, k, r) == {q \in 1..r : IsPut(h, q, k) /\ \A d \in q..r : ~ IsDelete(h, d, k)}

Described(h, puts) ==
  IF puts = {} THEN None
  ELSE [value |-> h[Max(puts)].value, create |-> Min(puts),
        mod |-> Max(puts), version |-> Cardinality(puts)]

\* The KeyValue of k at revision r.
RefIn(h, k, r) == Described(h, LivePutsIn(h, k, r))

\* What revision r files under k in kv_rev.
FiledIn(h, k, r) ==
  IF IsPut(h, r, k) THEN RefIn(h, k, r)
  ELSE IF IsDelete(h, r, k) /\ RefIn(h, k, r - 1) # None THEN Tombstone(r) ELSE None

\* The snapshot of that store at revision c, compacted to revision p.
SnapshotOf(h, c, p) ==
  [current |-> c, compact |-> p, kv |-> [k \in Key |-> RefIn(h, k, c)],
   kv_rev |-> [rk \in Revision \X Key |->
                 IF rk[1] \in p..c THEN FiledIn(h, rk[2], rk[1]) ELSE None],
   writes |-> h]

-----------------------------------------------------------------------------
(***************************************************************************)
(* create_snapshot and restore_snapshot, the callbacks of the Raft node.   *)
(* A snapshot made here goes to other nodes; one installed comes from the  *)
(* leader.                                                                 *)
(***************************************************************************)

\* The counters are read first; then kv is copied, then kv_rev.
SnapshotStart(t) ==
  /\ WithSnapshots
  /\ task[t].pc = "idle"
  /\ task' = [task EXCEPT ![t] =
       [Idle EXCEPT !.pc = "snapshot_kv", !.rev = current_revision,
                    !.compact = compact_revision]]
  /\ UNCHANGED <<storeVars, read, snapshot, restarts, history, compacted>>

SnapshotKv(t) ==
  /\ task[t].pc = "snapshot_kv"
  /\ task' = [task EXCEPT ![t].pc = "snapshot_rev", ![t].kvs = kv]
  /\ UNCHANGED <<storeVars, read, snapshot, restarts, history, compacted>>

SnapshotDataSwapped(tk) ==
  [current |-> tk.compact, compact |-> tk.rev, kv |-> tk.kvs, kv_rev |-> kv_rev,
   writes |-> history]

SnapshotData(tk) ==
  [current |-> tk.rev, compact |-> tk.compact, kv |-> tk.kvs, kv_rev |-> kv_rev,
   writes |-> history]

SnapshotRev(t) ==
  /\ task[t].pc = "snapshot_rev"
  /\ snapshot' = SnapshotData(task[t])
  /\ task' = [task EXCEPT ![t] = Idle]
  /\ UNCHANGED <<storeVars, read, restarts, history, compacted>>

\* What clients may have asked of the store that a snapshot comes from.
ClientWrite ==
  {[kind |-> "put", keys |-> {k}, value |-> v] : k \in Key, v \in Value}
    \cup {[kind |-> "delete", keys |-> ks, value |-> None] : ks \in DeleteRange}

Histories(c) ==
  {[r \in Revision |-> IF r \in 2..c THEN f[r] ELSE NoWrite] : f \in [2..c -> ClientWrite]}

\* The snapshots a leader sends: made at any revision, older or newer than
\* this store's, after any writes, while no write was under way.
Received ==
  UNION {{SnapshotOf(h, c, p) : h \in Histories(c), p \in IF WithCompaction THEN 0..c ELSE {0}} :
           c \in 1..MaxRevision}

\* restore_snapshot: empty the trees, fill them, set the counters, and only
\* then rebuild the index.
RestoreClear(t, data) ==
  /\ WithSnapshots
  /\ task[t].pc = "idle"
  /\ kv' = NoKeyValues
  /\ kv_rev' = [rk \in Revision \X Key |-> None]
  /\ task' = [task EXCEPT ![t] = [Idle EXCEPT !.pc = "restore_trees", !.data = data]]
  /\ read' = [u \in Thread |-> None]
  /\ snapshot' = None
  /\ UNCHANGED <<current_revision, compact_revision, key_index, restarts, history, compacted>>

\* Backend::restore inserts the snapshot's entries into a tree.
Overlay(tree, data) == [x \in DOMAIN tree |-> IF data[x] # None THEN data[x] ELSE tree[x]]

RestoreTrees(t) ==
  /\ task[t].pc = "restore_trees"
  /\ kv' = Overlay(kv, task[t].data.kv)
  /\ kv_rev' = Overlay(kv_rev, task[t].data.kv_rev)
  /\ task' = [task EXCEPT ![t].pc = "restore_counters"]
  /\ UNCHANGED <<current_revision, compact_revision, key_index, read, snapshot,
                 restarts, history, compacted>>

RestoreCounters(t) ==
  /\ task[t].pc = "restore_counters"
  /\ current_revision' = task[t].data.current
  /\ compact_revision' = task[t].data.compact
  /\ history' = task[t].data.writes
  /\ compacted' = task[t].data.current
  /\ read' = [u \in Thread |-> None]
  /\ task' = [task EXCEPT ![t].pc = "restore_index"]
  /\ UNCHANGED <<key_index, kv, kv_rev, snapshot, restarts>>

\* rebuild_key_index: one revision per key of the kv tree.
IndexRebuilt == [k \in Key |-> IF kv[k] = None THEN <<>> ELSE IndexPut(<<>>, kv[k].mod)]

RestoreIndex(t) ==
  /\ task[t].pc = "restore_index"
  /\ key_index' = IndexRebuilt
  /\ task' = [task EXCEPT ![t] = Idle]
  /\ UNCHANGED <<current_revision, compact_revision, kv, kv_rev, read, snapshot,
                 restarts, history, compacted>>

-----------------------------------------------------------------------------
(***************************************************************************)
(* The process stops between any two steps and MvccStore::new runs on the  *)
(* trees it left: the counters and the index start over.                   *)
(***************************************************************************)
Restart ==
  /\ restarts < MaxRestarts
  /\ restarts' = restarts + 1
  /\ current_revision' = 1
  /\ compact_revision' = 0
  /\ key_index' = [k \in Key |-> <<>>]
  /\ task' = [t \in Thread |-> Idle]
  /\ read' = [t \in Thread |-> None]
  /\ UNCHANGED <<kv, kv_rev, snapshot, history, compacted>>

PutNext(t) ==
  \/ \E k \in Key, v \in Value : PutAllocate(t, k, v)
  \/ PutRead(t) \/ PutKv(t) \/ PutRev(t) \/ PutIndex(t)

DeleteNext(t) ==
  \/ \E ks \in DeleteRange : DeleteAllocate(t, ks)
  \/ DeleteScan(t)
  \/ \E k \in Key : DeleteRead(t, k) \/ DeleteKv(t, k)
  \/ DeleteRev(t) \/ DeleteIndex(t)

RangeNext(t) ==
  \/ \E ks \in ReadRange, r \in 0..current_revision : RangeStart(t, ks, r)
  \/ RangeIndex(t)
  \/ \E k \in Key : RangeRead(t, k)
  \/ RangeReply(t)

CompactNext(t) ==
  \/ \E r \in 1..MaxRevision : CompactStart(t, r)
  \/ CompactIndex(t) \/ CompactTrees(t)

SnapshotNext(t) ==
  \/ SnapshotStart(t) \/ SnapshotKv(t) \/ SnapshotRev(t)
  \/ \E data \in Received : RestoreClear(t, data)
  \/ RestoreTrees(t) \/ RestoreCounters(t) \/ RestoreIndex(t)

Next ==
  \/ \E t \in Thread :
       PutNext(t) \/ DeleteNext(t) \/ RangeNext(t) \/ CompactNext(t) \/ SnapshotNext(t)
  \/ Restart

Spec == Init /\ [][Next]_vars

-----------------------------------------------------------------------------
\* Every revision the index offers at or above the compaction point has its
\* KeyValue in kv_rev: put writes kv_rev before the index, so no interleaving
\* of writers, readers and compactions lets a historical read follow the index
\* to an entry that is not there.
IndexBacked ==
  \A k \in Key : \A g \in DOMAIN key_index[k] : \A p \in DOMAIN key_index[k][g].revs :
    LET r == key_index[k][g].revs[p]
    IN r # Gone /\ r >= compacted
         => kv_rev[<<r, k>>] # None /\ kv_rev[<<r, k>>].mod = r

\* Until the first restart, which sets current_revision back to 1, no step
\* overwrites one KeyValue of kv_rev with another: the revisions of concurrent
\* writers are distinct, so what a revision holds never changes until it is
\* compacted.
KvRevWriteOnce ==
  [][restarts' = 0 =>
       \A rk \in Revision \X Key :
         kv_rev[rk] # None => kv_rev'[rk] \in {kv_rev[rk], None}]_vars

\* Nothing stored is newer than current_revision.
RevisionsBehind ==
  /\ \A k \in Key : kv[k] # None => kv[k].mod <= current_revision
  /\ \A rk \in Revision \X Key : kv_rev[rk] # None => rk[1] <= current_revision

\* Until the first restart nothing stored is newer than current_revision,
\* whatever the interleaving of writers, readers and compactions: the next write
\* gets a revision above all those in the trees.  (While a leader's snapshot is
\* installed it is otherwise: the trees are filled before the counters are set.)
NoFutureRevision == restarts = 0 => RevisionsBehind

Quiescent == \A t \in Thread : task[t].pc = "idle"

\* When no operation is under way the index and the kv tree agree: a key is in
\* the tree exactly when the index finds it at the current revision, and then
\* at the revision the tree has it.  Otherwise range misses a key that is
\* there, or delete_range cannot delete it.
IndexMatchesKv ==
  Quiescent =>
    \A k \in Key :
      RevisionAt(key_index[k], current_revision) =
        IF kv[k] = None THEN Gone ELSE kv[k].mod
=============================================================================
