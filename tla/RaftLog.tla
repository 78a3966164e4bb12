------------------------------ MODULE RaftLog ------------------------------
(***************************************************************************)
(* The log of one node, src/src/raft/log.rs, as operators on a record.     *)
(*                                                                         *)
(* The fields of the record are those of the struct RaftLog.  `entries' is *)
(* the content of the "entry:<n>" keys of the sled tree: a function from   *)
(* every index the model allows to the entry stored there, or to NoEntry.  *)
(* An entry is its term and its payload; its index is its position and its *)
(* entry_type is left out, because no code of the log or of the node       *)
(* branches on it.  `data' is the cached snapshot, NoSnapshot when none.   *)
(*                                                                         *)
(* A run of entries that travels in a message or is handed to append is a  *)
(* function of the same shape (a "slice").                                 *)
(***************************************************************************)
EXTENDS Integers, FiniteSets

CONSTANTS
  Data,         \* payloads of proposals
  MaxLog,       \* bound: highest log index
  NoEntry,      \* an absent "entry:<n>" key
  NoSnapshot    \* snapshot_data = None

ASSUME MaxLogAssumption == MaxLog \in Nat

Index == 1..MaxLog

Entry == [term : Nat, data : Data]

Slice == [Index -> Entry \cup {NoEntry}]

EmptySlice == [n \in Index |-> NoEntry]

\* The indices a slice carries.
Carried(s) == {n \in Index : s[n] # NoEntry}

\* RaftLog::new on an empty tree.
EmptyLog ==
  [entries |-> EmptySlice, first |-> 1, last |-> 0, lastTerm |-> 0,
   snapIndex |-> 0, snapTerm |-> 0, data |-> NoSnapshot]

(***************************************************************************)
(* Reading.                                                                *)
(***************************************************************************)

\* get: entries below first_index are hidden, whether or not they are stored.
Get(log, n) ==
  IF n \in Index /\ n >= log.first THEN log.entries[n] ELSE NoEntry

\* get_range: [start, end) clipped to first_index..last_index; an index
\* that is not stored is skipped.
GetRange(log, start, end) ==
  [n \in Index |->
     IF n >= start /\ n < end /\ n <= log.last THEN Get(log, n) ELSE NoEntry]

\* term_at, with -1 for Ok(None).
NoTerm == -1

TermAt(log, n) ==
  IF n = 0 THEN 0
  ELSE IF n < log.first THEN log.snapTerm
  ELSE IF Get(log, n) = NoEntry THEN NoTerm
  ELSE Get(log, n).term

\* term_at(..).ok().flatten().unwrap_or(0)
TermOrZero(log, n) ==
  IF TermAt(log, n) = NoTerm THEN 0 ELSE TermAt(log, n)

HasEntry(log, n, term) == TermAt(log, n) = term

(***************************************************************************)
(* Writing.                                                                *)
(***************************************************************************)

\* append: stores every entry under its index, last_index and last_term come
\* from the last one; an empty slice changes nothing.
AppendSlice(log, s) ==
  IF Carried(s) = {} THEN log
  ELSE LET last == CHOOSE n \in Carried(s) : \A m \in Carried(s) : m <= n
       IN [log EXCEPT
             !.entries = [n \in Index |-> IF s[n] # NoEntry THEN s[n] ELSE @[n]],
             !.last = last,
             !.lastTerm = s[last].term]

\* truncate_after: last_term keeps its old value when the new last entry
\* cannot be read (index 0, or an index below first_index).
TruncateAfter(log, n) ==
  IF n >= log.last THEN log
  ELSE LET kept == [log EXCEPT
                      !.entries = [m \in Index |->
                                     IF m > n /\ m <= log.last THEN NoEntry ELSE @[m]],
                      !.last = n]
       IN IF Get(kept, n) = NoEntry THEN kept
          ELSE [kept EXCEPT !.lastTerm = Get(kept, n).term]

\* truncate_before.
TruncateBefore(log, n) ==
  IF n <= log.first THEN log
  ELSE [log EXCEPT
          !.entries = [m \in Index |->
                         IF m >= log.first /\ m < n THEN NoEntry ELSE @[m]],
          !.first = n]

\* save_snapshot_with_data: moves first_index itself and leaves last_index,
\* last_term and the stored entries alone.
SaveSnapshot(log, index, term, data) ==
  [log EXCEPT !.snapIndex = index, !.snapTerm = term, !.first = index + 1,
              !.data = data]

\* recover: what RaftLog::new reads back from the tree after a restart.
\* first_index and the snapshot data are not stored; last_term is taken from
\* the stored last entry and is 0 when there is none.
Recover(log) ==
  [log EXCEPT
     !.first = log.snapIndex + 1,
     !.lastTerm = IF log.last \in Index /\ log.entries[log.last] # NoEntry
                  THEN log.entries[log.last].term ELSE 0,
     !.data = NoSnapshot]
=============================================================================
