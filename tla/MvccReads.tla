----------------------------- MODULE MvccReads -----------------------------
(***************************************************************************)
(* What reads of the MVCC store should return: a reference computed from   *)
(* the writes alone, in revision order, without trees or index.            *)
(***************************************************************************)
EXTENDS MvccStore

LivePuts(k, r) == LivePutsIn(history, k, r)

\* The KeyValue of k at revision r.
ReferenceAt(k, r) == RefIn(history, k, r)

\* A range returns, for every key it asks for, exactly what the writes up to
\* its revision left there: value, create and mod revision and version, for
\* the current revision and for every earlier one back to the snapshot last
\* installed, across deletes and re-creations, and after a snapshot of the
\* leader, older or newer than the store, has replaced everything.
ReadsMatchHistory ==
  \A t \in Thread : read[t] # None /\ read[t].rev >= compacted =>
    \A k \in Key :
      read[t].kvs[k] = IF k \in read[t].keys THEN ReferenceAt(k, read[t].rev) ELSE None

\* A snapshot that create_snapshot made is one a follower can install: counters,
\* kv tree and kv_rev tree, copied one after the other, are together what the
\* writes up to its revision left, tombstones included, also where they came
\* with a snapshot installed before.
SnapshotsMatchHistory ==
  snapshot # None =>
    snapshot = SnapshotOf(snapshot.writes, snapshot.current, snapshot.compact)

\* When no operation is under way the KeyValue the kv tree has of a key is of
\* the key's last write, as put's comment on its kv write says.
LatestInKv ==
  Quiescent =>
    \A k \in Key : LET puts == LivePuts(k, current_revision)
                   IN kv[k] # None /\ puts # {} => kv[k].mod = Max(puts)

\* KeyIndex::get and range return the highest revision of the generation that
\* is not above the one asked for, as their comment says.
HighestRevisionFound ==
  \A k \in Key, r \in 0..current_revision :
    LET alive == AliveAt(key_index[k], r)
        held == UNION {{key_index[k][g].revs[p] : p \in HeldUpTo(key_index[k][g], r)} : g \in alive}
    IN held # {} => RevisionAt(key_index[k], r) = Max(held)
=============================================================================
