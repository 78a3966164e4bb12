------------------------------ MODULE KeyIndex ------------------------------
(***************************************************************************)
(* The history of one key in the in-memory key index,                      *)
(* src/src/storage/index.rs, as operators.                                 *)
(*                                                                         *)
(* An entry is the sequence of the key's generations, <<>> for a key that  *)
(* is not in the tree.  `revs' is a generation's list of revisions in the  *)
(* order they were pushed; a revision dropped by compaction is overwritten *)
(* with Gone rather than closing the gap, which no lookup can tell apart.  *)
(* Revisions are the main numbers: the sub number is always 0.             *)
(*                                                                         *)
(* IndexTombstoneDropped is a broken variant of the definition after it,   *)
(* which nothing uses.                                                     *)
(***************************************************************************)
EXTENDS Integers, Sequences

Gone == 0       \* a dropped revision; revision numbers start at 1
Alive == 0      \* deleted: None

Generation == [created : Nat, revs : Seq(Nat), deleted : Nat]

\* The positions of the revisions a generation still holds, up to r.
HeldUpTo(gen, r) == {p \in DOMAIN gen.revs : gen.revs[p] # Gone /\ gen.revs[p] <= r}

\* get_generation_at: the positions of the generations alive at revision r;
\* iter().find takes the first of them.
AliveAt(entry, r) ==
  {g \in DOMAIN entry : /\ entry[g].created <= r
                        /\ entry[g].deleted = Alive \/ entry[g].deleted > r}

\* rfind over the revisions of the generation alive at r: the last pushed one
\* that is not above r, or Gone.
RevisionAt(entry, r) ==
  IF AliveAt(entry, r) = {} THEN Gone
  ELSE LET g == CHOOSE g \in AliveAt(entry, r) : \A h \in AliveAt(entry, r) : g <= h
           held == HeldUpTo(entry[g], r)
       IN IF held = {} THEN Gone
          ELSE entry[g].revs[CHOOSE p \in held : \A q \in held : q <= p]

\* put: a new generation for a new or deleted key, else one more revision.
IndexPut(entry, r) ==
  IF entry = <<>> \/ entry[Len(entry)].deleted # Alive
  THEN Append(entry, [created |-> r, revs |-> <<r>>, deleted |-> Alive])
  ELSE [entry EXCEPT ![Len(entry)].revs = Append(@, r)]

IndexTombstoneDropped(entry, r) == entry

\* tombstone: ends the last generation if it is alive; a key that is not in
\* the tree gets a generation that is born dead.
IndexTombstone(entry, r) ==
  IF entry = <<>>
  THEN <<[created |-> r, revs |-> <<r>>, deleted |-> r]>>
  ELSE IF entry[Len(entry)].deleted = Alive
       THEN [entry EXCEPT ![Len(entry)].deleted = r]
       ELSE entry

\* compact: every revision below c is dropped, the last one of a live key
\* included; a live generation left empty is said to be created at c.
CompactGeneration(gen, c) ==
  LET revs == [p \in DOMAIN gen.revs |-> IF gen.revs[p] >= c THEN gen.revs[p] ELSE Gone]
  IN [gen EXCEPT
        !.revs = revs,
        !.created = IF gen.deleted = Alive /\ \A p \in DOMAIN revs : revs[p] = Gone
                    THEN c ELSE @]

IndexCompact(entry, c) == [g \in DOMAIN entry |-> CompactGeneration(entry[g], c)]
=============================================================================
