--------------------------- MODULE KeyIndexProof ---------------------------
(***************************************************************************)
(* Facts about the operators of the key index: what each lookup and each   *)
(* update returns, for every entry, revision and compaction point.         *)
(***************************************************************************)
EXTENDS KeyIndex, TLAPS, WellFoundedInduction

\* The revisions an entry lists, dropped ones (Gone) included.
Revisions(entry) ==
  {r \in Nat : \E g \in DOMAIN entry : \E p \in DOMAIN entry[g].revs : entry[g].revs[p] = r}

\* A nonempty set of positions has a first one: iter().find finds it.
LEMMA FirstExists ==
  ASSUME NEW S \in SUBSET Nat, S # {}
  PROVE  \E x \in S : \A y \in S : x <= y
  <1>1. \E x \in S : \A y \in S : ~ (<<y, x>> \in OpToRel(<, Nat))
    BY NatLessThanWellFounded, WFMin, Zenon
  <1>2. PICK x \in S : \A y \in S : ~ (<<y, x>> \in OpToRel(<, Nat))
    BY <1>1
  <1>3. ASSUME NEW y \in S PROVE x <= y
    <2>1. ~ (y < x)
      BY <1>2 DEF OpToRel
    <2> QED
      BY <2>1
  <1> QED
    BY <1>3

\* A nonempty set of positions of a list has a last one: rfind finds it.
LEMMA LastExists ==
  ASSUME NEW n \in Nat, NEW S \in SUBSET (1..n), S # {}
  PROVE  \E x \in S : \A y \in S : y <= x
  <1> DEFINE T == {n - p : p \in S}
  <1>1. T \in SUBSET Nat /\ T # {}
    <2>1. ASSUME NEW p \in S PROVE n - p \in Nat
      OBVIOUS
    <2> QED
      BY <2>1
  <1>2. PICK t \in T : \A u \in T : t <= u
    BY <1>1, FirstExists
  <1>3. PICK x \in S : t = n - x
    BY <1>2
  <1>4. \A y \in S : n - x <= n - y
    BY <1>2, <1>3
  <1> QED
    BY <1>4

\* The positions rfind considers are positions of the list of revisions.
LEMMA HeldPositions ==
  ASSUME NEW gen \in Generation, NEW r \in Nat
  PROVE  /\ Len(gen.revs) \in Nat
         /\ HeldUpTo(gen, r) \in SUBSET (1..Len(gen.revs))
         /\ \A p \in HeldUpTo(gen, r) :
              p \in DOMAIN gen.revs /\ gen.revs[p] \in Nat /\ gen.revs[p] <= r
  <1>1. gen.revs \in Seq(Nat)
    BY DEF Generation
  <1> QED
    BY <1>1 DEF HeldUpTo

\* KeyIndex::get and range return a revision the entry lists and that is not
\* above the one asked for, or nothing.
LEMMA RevisionAtListed ==
  ASSUME NEW entry \in Seq(Generation), NEW r \in Nat
  PROVE  \/ RevisionAt(entry, r) = Gone
         \/ RevisionAt(entry, r) \in Revisions(entry) /\ RevisionAt(entry, r) <= r
  <1> DEFINE alive == AliveAt(entry, r)
             g == CHOOSE x \in alive : \A h \in alive : x <= h
             held == HeldUpTo(entry[g], r)
             p == CHOOSE x \in held : \A q \in held : q <= x
  <1>0. RevisionAt(entry, r) =
          IF alive = {} THEN Gone ELSE IF held = {} THEN Gone ELSE entry[g].revs[p]
    BY DEF RevisionAt
  <1>1. CASE alive = {}
    BY <1>0, <1>1
  <1>2. CASE alive # {}
    <2>1. alive \in SUBSET Nat
      BY DEF AliveAt
    <2>2. g \in alive
      BY <1>2, <2>1, FirstExists
    <2>3. g \in DOMAIN entry /\ entry[g] \in Generation
      BY <2>2 DEF AliveAt
    <2>4. CASE held = {}
      BY <1>0, <1>2, <2>4
    <2>5. CASE held # {}
      <3>1. held \in SUBSET (1..Len(entry[g].revs)) /\ Len(entry[g].revs) \in Nat
        BY <2>3, HeldPositions
      <3>2. p \in held
        BY <3>1, <2>5, LastExists
      <3>3. /\ p \in DOMAIN entry[g].revs /\ entry[g].revs[p] <= r
            /\ entry[g].revs[p] \in Nat
        BY <3>2, <2>3, HeldPositions
      <3>4. RevisionAt(entry, r) = entry[g].revs[p]
        BY <1>0, <1>2, <2>5
      <3> QED
        BY <2>3, <3>3, <3>4 DEF Revisions
    <2> QED
      BY <2>4, <2>5
  <1> QED
    BY <1>1, <1>2

\* A lookup yields a number.
LEMMA RevisionAtType ==
  ASSUME NEW entry \in Seq(Generation), NEW r \in Nat
  PROVE  RevisionAt(entry, r) \in Nat
  BY RevisionAtListed DEF Revisions, Gone

\* put adds the revision it is given and no other.
LEMMA IndexPutAdds ==
  ASSUME NEW entry \in Seq(Generation), NEW r \in Nat
  PROVE  /\ IndexPut(entry, r) \in Seq(Generation)
         /\ Revisions(IndexPut(entry, r)) \subseteq Revisions(entry) \cup {r}
  <1> DEFINE n == Len(entry)
  <1>1. CASE entry = <<>> \/ entry[n].deleted # Alive
    <2> DEFINE gen == [created |-> r, revs |-> <<r>>, deleted |-> Alive]
    <2>1. gen \in Generation
      BY DEF Generation, Alive
    <2>2. IndexPut(entry, r) = Append(entry, gen)
      BY <1>1 DEF IndexPut
    <2>3. gen.revs = <<r>>
      OBVIOUS
    <2> HIDE DEF gen
    <2>4. Append(entry, gen) \in Seq(Generation)
      BY <2>1
    <2>5. ASSUME NEW g \in DOMAIN Append(entry, gen),
                 NEW p \in DOMAIN Append(entry, gen)[g].revs,
                 Append(entry, gen)[g].revs[p] # r
          PROVE  g \in DOMAIN entry /\ Append(entry, gen)[g] = entry[g]
      BY <2>1, <2>3, <2>5
    <2> QED
      BY <2>2, <2>4, <2>5 DEF Revisions
  <1>2. CASE ~ (entry = <<>> \/ entry[n].deleted # Alive)
    <2> DEFINE gen == [entry[n] EXCEPT !.revs = Append(@, r)]
    <2>1. n \in DOMAIN entry /\ entry[n] \in Generation
      BY <1>2
    <2>2. gen \in Generation /\ gen.revs = Append(entry[n].revs, r)
      <3> DEFINE appended == Append(entry[n].revs, r)
      <3>1. appended \in Seq(Nat)
        BY <2>1 DEF Generation
      <3>2. gen = [entry[n] EXCEPT !.revs = appended]
        OBVIOUS
      <3> HIDE DEF appended
      <3> QED
        BY <2>1, <3>1, <3>2 DEF Generation, appended
    <2>3. IndexPut(entry, r) = [entry EXCEPT ![n] = gen]
      BY <1>2 DEF IndexPut
    <2> HIDE DEF gen
    <2>4. [entry EXCEPT ![n] = gen] \in Seq(Generation)
      BY <2>1, <2>2
    <2>5. ASSUME NEW g \in DOMAIN entry, NEW p \in DOMAIN [entry EXCEPT ![n] = gen][g].revs,
                 [entry EXCEPT ![n] = gen][g].revs[p] # r
          PROVE  /\ p \in DOMAIN entry[g].revs
                 /\ [entry EXCEPT ![n] = gen][g].revs[p] = entry[g].revs[p]
      <3>1. CASE g = n
        <4>1. entry[n].revs \in Seq(Nat)
          BY <2>1 DEF Generation
        <4>2. [entry EXCEPT ![n] = gen][g].revs = Append(entry[n].revs, r)
          BY <3>1, <2>1, <2>2
        <4>3. \A q \in DOMAIN Append(entry[n].revs, r) : Append(entry[n].revs, r)[q] # r
                => q \in DOMAIN entry[n].revs /\ Append(entry[n].revs, r)[q] = entry[n].revs[q]
          BY <4>1
        <4> QED
          BY <3>1, <4>2, <4>3, <2>5
      <3>2. CASE g # n
        BY <3>2, <2>5
      <3> QED
        BY <3>1, <3>2
    <2>6. DOMAIN [entry EXCEPT ![n] = gen] = DOMAIN entry
      OBVIOUS
    <2> QED
      BY <2>3, <2>4, <2>5, <2>6 DEF Revisions
  <1> QED
    BY <1>1, <1>2

\* tombstone adds at most the revision it is given.
LEMMA IndexTombstoneAdds ==
  ASSUME NEW entry \in Seq(Generation), NEW r \in Nat
  PROVE  /\ IndexTombstone(entry, r) \in Seq(Generation)
         /\ Revisions(IndexTombstone(entry, r)) \subseteq Revisions(entry) \cup {r}
  <1> DEFINE n == Len(entry)
  <1>1. CASE entry = <<>>
    <2> DEFINE gen == [created |-> r, revs |-> <<r>>, deleted |-> r]
    <2>1. gen \in Generation /\ gen.revs = <<r>>
      BY DEF Generation
    <2>2. IndexTombstone(entry, r) = <<gen>>
      BY <1>1 DEF IndexTombstone
    <2> HIDE DEF gen
    <2> QED
      BY <2>1, <2>2 DEF Revisions
  <1>2. CASE entry # <<>> /\ entry[n].deleted = Alive
    <2> DEFINE gen == [entry[n] EXCEPT !.deleted = r]
    <2>1. n \in DOMAIN entry /\ entry[n] \in Generation
      BY <1>2
    <2>2. gen \in Generation /\ gen.revs = entry[n].revs
      BY <2>1 DEF Generation
    <2>3. IndexTombstone(entry, r) = [entry EXCEPT ![n] = gen]
      BY <1>2 DEF IndexTombstone
    <2> HIDE DEF gen
    <2>4. [entry EXCEPT ![n] = gen] \in Seq(Generation)
      BY <2>1, <2>2
    <2>5. \A g \in DOMAIN entry : [entry EXCEPT ![n] = gen][g].revs = entry[g].revs
      BY <2>2
    <2>6. DOMAIN [entry EXCEPT ![n] = gen] = DOMAIN entry
      OBVIOUS
    <2> QED
      BY <2>3, <2>4, <2>5, <2>6 DEF Revisions
  <1>3. CASE entry # <<>> /\ entry[n].deleted # Alive
    BY <1>3 DEF IndexTombstone
  <1> QED
    BY <1>1, <1>2, <1>3

\* compact adds nothing but Gone.
LEMMA IndexCompactAdds ==
  ASSUME NEW entry \in Seq(Generation), NEW c \in Nat
  PROVE  /\ IndexCompact(entry, c) \in Seq(Generation)
         /\ Revisions(IndexCompact(entry, c)) \subseteq Revisions(entry) \cup {Gone}
  <1>1. ASSUME NEW gen \in Generation
        PROVE  /\ CompactGeneration(gen, c) \in Generation
               /\ DOMAIN CompactGeneration(gen, c).revs = DOMAIN gen.revs
               /\ \A p \in DOMAIN gen.revs :
                    CompactGeneration(gen, c).revs[p] \in {gen.revs[p], Gone}
    <2> DEFINE revs == [p \in DOMAIN gen.revs |-> IF gen.revs[p] >= c THEN gen.revs[p] ELSE Gone]
               created == IF gen.deleted = Alive /\ \A p \in DOMAIN revs : revs[p] = Gone
                          THEN c ELSE gen.created
    <2>1. gen.revs \in Seq(Nat) /\ gen.created \in Nat /\ gen.deleted \in Nat
      BY DEF Generation
    <2>2. revs \in Seq(Nat)
      <3>1. Len(gen.revs) \in Nat /\ DOMAIN gen.revs = 1..Len(gen.revs)
        BY <2>1
      <3>2. \A p \in DOMAIN gen.revs : gen.revs[p] \in Nat
        BY <2>1
      <3>3. revs \in [1..Len(gen.revs) -> Nat]
        BY <3>1, <3>2 DEF Gone
      <3> HIDE DEF revs
      <3> QED
        BY <3>1, <3>3
    <2>3. created \in Nat
      BY <2>1
    <2>4. CompactGeneration(gen, c) = [gen EXCEPT !.revs = revs, !.created = created]
      BY DEF CompactGeneration
    <2>5. \A p \in DOMAIN gen.revs : revs[p] \in {gen.revs[p], Gone}
      OBVIOUS
    <2>6. DOMAIN revs = DOMAIN gen.revs
      OBVIOUS
    <2> HIDE DEF revs, created
    <2>7. /\ CompactGeneration(gen, c) \in Generation
          /\ CompactGeneration(gen, c).revs = revs
      BY <2>2, <2>3, <2>4 DEF Generation
    <2> QED
      BY <2>5, <2>6, <2>7
  <1>2. \A g \in DOMAIN entry : entry[g] \in Generation
    OBVIOUS
  <1>3. IndexCompact(entry, c) \in Seq(Generation)
    BY <1>1, <1>2 DEF IndexCompact
  <1>4. ASSUME NEW x \in Revisions(IndexCompact(entry, c)), x # Gone
        PROVE  x \in Revisions(entry)
    <2>1. PICK g \in DOMAIN entry :
            \E p \in DOMAIN CompactGeneration(entry[g], c).revs :
              CompactGeneration(entry[g], c).revs[p] = x
      BY DEF Revisions, IndexCompact
    <2>2. \E p \in DOMAIN entry[g].revs : entry[g].revs[p] = x
      BY <1>1, <1>2, <1>4, <2>1
    <2> QED
      BY <2>2 DEF Revisions
  <1> QED
    BY <1>3, <1>4
-----------------------------------------------------------------------------
(***************************************************************************)
(* What a lookup returns after an update, when updates come in revision    *)
(* order: nothing the entry holds is newer than n, and only its last       *)
(* generation may be alive.                                                *)
(***************************************************************************)
Bounded(entry, n) ==
  \A g \in DOMAIN entry :
    /\ entry[g].created <= n /\ entry[g].deleted <= n
    /\ g # Len(entry) => entry[g].deleted # Alive
    /\ \A p \in DOMAIN entry[g].revs : entry[g].revs[p] <= n

\* The numbers of a generation.
LEMMA GenerationType ==
  ASSUME NEW entry \in Seq(Generation), NEW g \in DOMAIN entry
  PROVE  /\ entry[g] \in Generation /\ g \in 1..Len(entry) /\ Len(entry) \in Nat
         /\ entry[g].created \in Nat /\ entry[g].deleted \in Nat
         /\ entry[g].revs \in Seq(Nat)
         /\ \A p \in DOMAIN entry[g].revs : entry[g].revs[p] \in Nat
  <1>1. entry[g] \in Generation /\ g \in 1..Len(entry) /\ Len(entry) \in Nat
    OBVIOUS
  <1>2. /\ entry[g].created \in Nat /\ entry[g].deleted \in Nat
        /\ entry[g].revs \in Seq(Nat)
    BY <1>1 DEF Generation
  <1> QED
    BY <1>1, <1>2

\* A lookup sees the generations alive at r and, in them, the revisions up to
\* r; entries that agree on these answer alike.
LEMMA LooksAlike ==
  ASSUME NEW e \in Seq(Generation), NEW f \in Seq(Generation),
         NEW q \in Nat, NEW r \in Nat,
         AliveAt(f, q) = AliveAt(e, r),
         \A g \in AliveAt(e, r) :
           /\ HeldUpTo(f[g], q) = HeldUpTo(e[g], r)
           /\ \A p \in HeldUpTo(e[g], r) : f[g].revs[p] = e[g].revs[p]
  PROVE  RevisionAt(f, q) = RevisionAt(e, r)
  <1> DEFINE alive == AliveAt(e, r)
             g == CHOOSE x \in alive : \A h \in alive : x <= h
             held == HeldUpTo(e[g], r)
             p == CHOOSE x \in held : \A y \in held : y <= x
             First(S) == CHOOSE x \in S : \A h \in S : x <= h
             Last(S) == CHOOSE x \in S : \A y \in S : y <= x
  <1>1. RevisionAt(e, r) =
          IF alive = {} THEN Gone ELSE IF held = {} THEN Gone ELSE e[g].revs[p]
    BY DEF RevisionAt
  <1>2. CASE alive = {}
    BY <1>2 DEF RevisionAt
  <1>3. CASE alive # {}
    <2>1. alive \in SUBSET Nat
      BY DEF AliveAt
    <2>2. g \in alive
      BY <1>3, <2>1, FirstExists
    <2>3. g \in DOMAIN e /\ e[g] \in Generation
      BY <2>2 DEF AliveAt
    <2>4. HeldUpTo(f[g], q) = held
      BY <2>2
    <2>5. RevisionAt(f, q) = IF held = {} THEN Gone ELSE f[g].revs[p]
      <3> DEFINE lives == AliveAt(f, q)
                 keeps == HeldUpTo(f[First(lives)], q)
      <3>1. RevisionAt(f, q) =
              IF lives = {} THEN Gone
              ELSE IF keeps = {} THEN Gone ELSE f[First(lives)].revs[Last(keeps)]
        BY DEF RevisionAt
      <3>2. g = First(alive) /\ p = Last(held)
        OBVIOUS
      <3> HIDE DEF First, Last, g, p, held, alive
      <3>3. lives = alive /\ First(lives) = g
        BY <3>2 DEF alive
      <3>4. keeps = held /\ Last(keeps) = p
        BY <2>4, <3>2, <3>3
      <3> QED
        BY <1>3, <3>1, <3>3, <3>4
    <2>6. CASE held = {}
      BY <1>1, <1>3, <2>5, <2>6
    <2>7. CASE held # {}
      <3>1. held \in SUBSET (1..Len(e[g].revs)) /\ Len(e[g].revs) \in Nat
        BY <2>3, HeldPositions
      <3>2. p \in held
        BY <3>1, <2>7, LastExists
      <3>3. f[g].revs[p] = e[g].revs[p]
        BY <2>2, <3>2
      <3> QED
        BY <1>1, <1>3, <2>5, <2>7, <3>3
    <2> QED
      BY <2>6, <2>7
  <1> QED
    BY <1>2, <1>3

\* One generation is alive, and p is the last of the positions it holds.
LEMMA LooksUpLast ==
  ASSUME NEW e \in Seq(Generation), NEW r \in Nat, NEW n \in DOMAIN e,
         AliveAt(e, r) = {n}, NEW p \in HeldUpTo(e[n], r),
         \A x \in HeldUpTo(e[n], r) : x <= p
  PROVE  RevisionAt(e, r) = e[n].revs[p]
  <1> DEFINE held == HeldUpTo(e[n], r)
  <1>0. n \in Nat /\ e[n] \in Generation
    BY GenerationType
  <1>1. (CHOOSE x \in {n} : \A h \in {n} : x <= h) = n
    BY <1>0
  <1>2. held \in SUBSET Nat
    BY <1>0, HeldPositions
  <1>3. (CHOOSE x \in held : \A y \in held : y <= x) = p
    <2>1. PICK x \in held : x = CHOOSE z \in held : \A y \in held : y <= z
      OBVIOUS
    <2>2. \A y \in held : y <= x
      BY <2>1
    <2>3. x <= p /\ p <= x /\ x \in Nat /\ p \in Nat
      BY <1>2, <2>2
    <2> QED
      BY <2>1, <2>3
  <1> QED
    BY <1>1, <1>3 DEF RevisionAt

\* After the last revision an entry holds, every lookup answers the same.
LEMMA LaterLookup ==
  ASSUME NEW e \in Seq(Generation), NEW n \in Nat, Bounded(e, n), NEW q \in Nat, n <= q
  PROVE  Bounded(e, q) /\ RevisionAt(e, q) = RevisionAt(e, n)
  <1>1. ASSUME NEW g \in DOMAIN e
        PROVE  /\ e[g].created \in Nat /\ e[g].deleted \in Nat
               /\ e[g].created <= n /\ e[g].deleted <= n
               /\ g # Len(e) => e[g].deleted # Alive
               /\ \A p \in DOMAIN e[g].revs : e[g].revs[p] \in Nat /\ e[g].revs[p] <= n
    BY GenerationType DEF Bounded
  <1>2. Bounded(e, q)
    BY <1>1 DEF Bounded
  <1>3. AliveAt(e, q) = AliveAt(e, n)
    BY <1>1 DEF AliveAt, Alive
  <1>4. ASSUME NEW g \in DOMAIN e PROVE HeldUpTo(e[g], q) = HeldUpTo(e[g], n)
    BY <1>1 DEF HeldUpTo
  <1>5. AliveAt(e, n) \subseteq DOMAIN e
    BY DEF AliveAt
  <1>6. RevisionAt(e, q) = RevisionAt(e, n)
    BY <1>3, <1>4, <1>5, LooksAlike
  <1> QED
    BY <1>2, <1>6

\* A revision pushed on a list.
LEMMA AppendFacts ==
  ASSUME NEW s \in Seq(Nat), NEW x \in Nat
  PROVE  /\ Len(s) \in Nat /\ DOMAIN s = 1..Len(s) /\ Append(s, x) \in Seq(Nat)
         /\ DOMAIN Append(s, x) = 1..(Len(s) + 1) /\ Append(s, x)[Len(s) + 1] = x
         /\ \A p \in DOMAIN s : Append(s, x)[p] = s[p]
  OBVIOUS

\* put at the next revision: lookups at or above it find it, the earlier ones
\* answer as before.
LEMMA PutLookup ==
  ASSUME NEW e \in Seq(Generation), NEW n \in Nat, Bounded(e, n)
  PROVE  /\ IndexPut(e, n + 1) \in Seq(Generation)
         /\ Bounded(IndexPut(e, n + 1), n + 1)
         /\ RevisionAt(IndexPut(e, n + 1), n + 1) = n + 1
         /\ \A q \in 0..n : RevisionAt(IndexPut(e, n + 1), q) = RevisionAt(e, q)
  <1> DEFINE r == n + 1
             f == IndexPut(e, r)
             m == Len(e)
  <1>0. m \in Nat /\ DOMAIN e = 1..m /\ r \in Nat /\ r # Gone /\ r > n
    BY DEF Gone
  <1>1. ASSUME NEW g \in DOMAIN e
        PROVE  /\ e[g].created \in Nat /\ e[g].deleted \in Nat
               /\ e[g].created <= n /\ e[g].deleted <= n
               /\ g # m => e[g].deleted # Alive
               /\ \A p \in DOMAIN e[g].revs : e[g].revs[p] \in Nat /\ e[g].revs[p] <= n
    BY GenerationType DEF Bounded
  <1>2. f \in Seq(Generation)
    BY <1>0, IndexPutAdds
  <1>3. CASE e = <<>> \/ e[m].deleted # Alive
    <2> DEFINE gen == [created |-> r, revs |-> <<r>>, deleted |-> Alive]
    <2>1. f = Append(e, gen)
      BY <1>3 DEF IndexPut
    <2>2. /\ gen.created = r /\ gen.deleted = Alive /\ gen.revs = <<r>>
          /\ gen \in Generation
      BY <1>0 DEF Generation, Alive
    <2> HIDE DEF gen, f
    <2>3. /\ DOMAIN f = 1..(m + 1) /\ Len(f) = m + 1 /\ f[m + 1] = gen
          /\ \A g \in DOMAIN e : f[g] = e[g]
      BY <1>0, <2>1, <2>2
    <2>4. ASSUME NEW g \in DOMAIN e PROVE e[g].deleted # Alive
      BY <1>0, <1>1, <1>3
    <2>5. DOMAIN <<r>> = {1} /\ <<r>>[1] = r
      BY <1>0
    <2>6. Bounded(f, r)
      <3>1. ASSUME NEW g \in DOMAIN f, g \in DOMAIN e
            PROVE  /\ f[g].created <= r /\ f[g].deleted <= r /\ f[g].deleted # Alive
                   /\ \A p \in DOMAIN f[g].revs : f[g].revs[p] <= r
        BY <1>0, <1>1, <2>3, <2>4, <3>1
      <3>2. /\ f[m + 1].created <= r /\ f[m + 1].deleted <= r
            /\ \A p \in DOMAIN f[m + 1].revs : f[m + 1].revs[p] <= r
        BY <1>0, <2>2, <2>3, <2>5 DEF Alive
      <3>3. \A g \in DOMAIN f : g \in DOMAIN e \/ g = m + 1
        BY <1>0, <2>3
      <3> QED
        BY <2>3, <3>1, <3>2, <3>3 DEF Bounded
    <2>7. RevisionAt(f, r) = r
      <3>1. AliveAt(f, r) = {m + 1}
        <4>1. ASSUME NEW g \in DOMAIN e PROVE g \notin AliveAt(f, r)
          BY <1>0, <1>1, <2>3, <2>4 DEF AliveAt
        <4>2. m + 1 \in AliveAt(f, r)
          BY <1>0, <2>2, <2>3 DEF AliveAt
        <4>3. \A g \in AliveAt(f, r) : g \in DOMAIN e \/ g = m + 1
          BY <1>0, <2>3 DEF AliveAt
        <4> QED
          BY <4>1, <4>2, <4>3
      <3>2. HeldUpTo(f[m + 1], r) = {1} /\ f[m + 1].revs[1] = r
        BY <1>0, <2>2, <2>3, <2>5 DEF HeldUpTo
      <3>3. m + 1 \in DOMAIN f
        BY <1>0, <2>3
      <3> QED
        BY <1>0, <1>2, <3>1, <3>2, <3>3, LooksUpLast
    <2>8. ASSUME NEW q \in 0..n PROVE RevisionAt(f, q) = RevisionAt(e, q)
      <3>1. AliveAt(f, q) = AliveAt(e, q)
        <4>1. m + 1 \notin AliveAt(f, q)
          BY <1>0, <2>2, <2>3 DEF AliveAt
        <4>2. \A g \in DOMAIN f : g \in DOMAIN e \/ g = m + 1
          BY <1>0, <2>3
        <4>3. \A g \in DOMAIN e : g \in AliveAt(f, q) <=> g \in AliveAt(e, q)
          BY <1>0, <2>3 DEF AliveAt
        <4>4. AliveAt(f, q) \subseteq DOMAIN f /\ AliveAt(e, q) \subseteq DOMAIN e
          BY DEF AliveAt
        <4> QED
          BY <4>1, <4>2, <4>3, <4>4
      <3>2. \A g \in AliveAt(e, q) : f[g] = e[g]
        BY <2>3 DEF AliveAt
      <3> QED
        BY <1>2, <3>1, <3>2, LooksAlike
    <2> QED
      BY <1>2, <2>6, <2>7, <2>8 DEF f
  <1>4. CASE ~ (e = <<>> \/ e[m].deleted # Alive)
    <2> DEFINE old == e[m].revs
               new == Append(old, r)
               gen == [e[m] EXCEPT !.revs = new]
    <2>1. m \in DOMAIN e /\ e[m] \in Generation /\ e[m].deleted = Alive
      BY <1>0, <1>4
    <2>2. f = [e EXCEPT ![m] = gen]
      BY <1>4 DEF IndexPut
    <2>3. old \in Seq(Nat)
      BY <2>1 DEF Generation
    <2>4. /\ Len(old) \in Nat /\ DOMAIN old = 1..Len(old) /\ new \in Seq(Nat)
          /\ DOMAIN new = 1..(Len(old) + 1) /\ new[Len(old) + 1] = r
          /\ \A p \in DOMAIN old : new[p] = old[p]
      BY <1>0, <2>3, AppendFacts
    <2> HIDE DEF new
    <2>5. gen.revs = new /\ gen.created = e[m].created /\ gen.deleted = Alive
      BY <2>1 DEF Generation
    <2> HIDE DEF gen, f
    <2>6. /\ DOMAIN f = DOMAIN e /\ Len(f) = m /\ f[m] = gen
          /\ \A g \in DOMAIN e : g # m => f[g] = e[g]
      <3>1. /\ DOMAIN f = DOMAIN e /\ f[m] = gen
            /\ \A g \in DOMAIN e : g # m => f[g] = e[g]
        BY <2>1, <2>2
      <3>2. Len(f) = m
        BY <1>0, <1>2, <3>1
      <3> QED
        BY <3>1, <3>2
    <2> HIDE DEF m
    <2>7. \A p \in DOMAIN new : p \in DOMAIN old \/ p = Len(old) + 1
      BY <2>4
    <2>8. \A p \in DOMAIN old : old[p] \in Nat /\ old[p] <= n
      BY <1>1, <2>1
    <2> HIDE DEF old
    <2>9. Bounded(f, r)
      <3>1. ASSUME NEW g \in DOMAIN e, g # m
            PROVE  /\ f[g].created <= r /\ f[g].deleted <= r /\ f[g].deleted # Alive
                   /\ \A p \in DOMAIN f[g].revs : f[g].revs[p] <= r
        BY <1>0, <1>1, <2>6, <3>1
      <3>2. f[m].created <= r /\ f[m].deleted <= r
        BY <1>0, <1>1, <2>1, <2>5, <2>6 DEF Alive
      <3>3. \A p \in DOMAIN f[m].revs : f[m].revs[p] <= r
        <4>1. f[m].revs = new
          BY <2>5, <2>6
        <4>2. \A p \in DOMAIN old : new[p] <= r
          BY <1>0, <2>4, <2>8
        <4>3. new[Len(old) + 1] <= r
          BY <1>0, <2>4
        <4> QED
          BY <2>7, <4>1, <4>2, <4>3
      <3> QED
        BY <2>6, <3>1, <3>2, <3>3 DEF Bounded
    <2>10. ASSUME NEW q \in Nat PROVE AliveAt(f, q) = AliveAt(e, q)
      BY <2>1, <2>5, <2>6 DEF AliveAt
    <2>11. RevisionAt(f, r) = r
      <3>1. AliveAt(f, r) = {m}
        <4>1. AliveAt(e, r) = {m}
          BY <1>0, <1>1, <2>1 DEF AliveAt
        <4> QED
          BY <1>0, <2>10, <4>1
      <3>2. /\ Len(old) + 1 \in HeldUpTo(f[m], r)
            /\ \A x \in HeldUpTo(f[m], r) : x <= Len(old) + 1
        BY <1>0, <2>4, <2>5, <2>6 DEF HeldUpTo
      <3>3. f[m].revs[Len(old) + 1] = r
        BY <2>4, <2>5, <2>6
      <3> QED
        BY <1>0, <1>2, <2>1, <2>6, <3>1, <3>2, <3>3, LooksUpLast
    <2>12. ASSUME NEW q \in 0..n PROVE RevisionAt(f, q) = RevisionAt(e, q)
      <3>1. ASSUME NEW g \in DOMAIN e
            PROVE  /\ HeldUpTo(f[g], q) = HeldUpTo(e[g], q)
                   /\ \A p \in HeldUpTo(e[g], q) : f[g].revs[p] = e[g].revs[p]
        <4>1. CASE g # m
          BY <2>6, <4>1
        <4>2. CASE g = m
          <5>1. f[g].revs = new /\ e[g].revs = old
            BY <2>5, <2>6, <4>2 DEF old
          <5>2. \A p \in DOMAIN new : new[p] <= q => p \in DOMAIN old
            BY <1>0, <2>4, <2>7
          <5>3. HeldUpTo(f[g], q) = HeldUpTo(e[g], q)
            BY <2>4, <5>1, <5>2 DEF HeldUpTo
          <5> QED
            BY <2>4, <5>1, <5>3 DEF HeldUpTo
        <4> QED
          BY <4>1, <4>2
      <3>2. AliveAt(e, q) \subseteq DOMAIN e /\ q \in Nat
        BY <1>0 DEF AliveAt
      <3> QED
        BY <1>2, <2>10, <3>1, <3>2, LooksAlike
    <2> QED
      BY <1>2, <2>9, <2>11, <2>12 DEF f
  <1> QED
    BY <1>3, <1>4

\* tombstone at the next revision: lookups at or above it find nothing, the
\* earlier ones answer as before.
LEMMA TombstoneLookup ==
  ASSUME NEW e \in Seq(Generation), NEW n \in Nat, Bounded(e, n)
  PROVE  /\ IndexTombstone(e, n + 1) \in Seq(Generation)
         /\ Bounded(IndexTombstone(e, n + 1), n + 1)
         /\ RevisionAt(IndexTombstone(e, n + 1), n + 1) = Gone
         /\ \A q \in 0..n : RevisionAt(IndexTombstone(e, n + 1), q) = RevisionAt(e, q)
  <1> DEFINE r == n + 1
             f == IndexTombstone(e, r)
             m == Len(e)
  <1>0. m \in Nat /\ DOMAIN e = 1..m /\ r \in Nat /\ r # Alive /\ r > n
    BY DEF Alive
  <1>1. ASSUME NEW g \in DOMAIN e
        PROVE  /\ e[g].created \in Nat /\ e[g].deleted \in Nat
               /\ e[g].created <= n /\ e[g].deleted <= n
               /\ g # m => e[g].deleted # Alive
               /\ \A p \in DOMAIN e[g].revs : e[g].revs[p] \in Nat /\ e[g].revs[p] <= n
    BY GenerationType DEF Bounded
  <1>2. f \in Seq(Generation)
    BY <1>0, IndexTombstoneAdds
  <1>3. CASE e = <<>>
    <2> DEFINE gen == [created |-> r, revs |-> <<r>>, deleted |-> r]
    <2>1. f = <<gen>>
      BY <1>3 DEF IndexTombstone
    <2>2. gen.created = r /\ gen.deleted = r /\ gen.revs = <<r>>
      OBVIOUS
    <2> HIDE DEF gen, f
    <2>3. DOMAIN f = {1} /\ Len(f) = 1 /\ f[1] = gen
      BY <2>1
    <2>4. DOMAIN <<r>> = {1} /\ <<r>>[1] = r
      BY <1>0
    <2>5. Bounded(f, r)
      BY <1>0, <2>2, <2>3, <2>4 DEF Bounded
    <2>6. ASSUME NEW q \in Nat PROVE RevisionAt(f, q) = Gone
      <3>1. AliveAt(f, q) = {}
        BY <1>0, <2>2, <2>3 DEF AliveAt
      <3> QED
        BY <3>1 DEF RevisionAt
    <2>7. ASSUME NEW q \in Nat PROVE RevisionAt(e, q) = Gone
      <3>1. AliveAt(e, q) = {}
        BY <1>3 DEF AliveAt
      <3> QED
        BY <3>1 DEF RevisionAt
    <2> QED
      BY <1>0, <1>2, <2>5, <2>6, <2>7 DEF f
  <1>4. CASE e # <<>> /\ e[m].deleted = Alive
    <2> DEFINE gen == [e[m] EXCEPT !.deleted = r]
    <2>1. m \in DOMAIN e /\ e[m] \in Generation
      BY <1>0, <1>4
    <2>2. f = [e EXCEPT ![m] = gen]
      BY <1>4 DEF IndexTombstone
    <2>3. gen.revs = e[m].revs /\ gen.created = e[m].created /\ gen.deleted = r
      BY <2>1 DEF Generation
    <2> HIDE DEF gen, f
    <2>4. /\ DOMAIN f = DOMAIN e /\ Len(f) = m /\ f[m] = gen
          /\ \A g \in DOMAIN e : g # m => f[g] = e[g]
      BY <2>1, <2>2
    <2> HIDE DEF m
    <2>5. ASSUME NEW g \in DOMAIN e
          PROVE  /\ f[g].created = e[g].created /\ f[g].revs = e[g].revs
                 /\ f[g].deleted = IF g = m THEN r ELSE e[g].deleted
      BY <2>3, <2>4
    <2>6. Bounded(f, r)
      BY <1>0, <1>1, <2>4, <2>5 DEF Bounded
    <2>7. RevisionAt(f, r) = Gone
      <3>1. AliveAt(f, r) = {}
        BY <1>0, <1>1, <2>4, <2>5 DEF AliveAt
      <3> QED
        BY <3>1 DEF RevisionAt
    <2>8. ASSUME NEW q \in 0..n PROVE RevisionAt(f, q) = RevisionAt(e, q)
      <3>1. AliveAt(f, q) = AliveAt(e, q)
        BY <1>0, <1>4, <2>4, <2>5 DEF AliveAt, m
      <3>2. ASSUME NEW g \in DOMAIN e PROVE HeldUpTo(f[g], q) = HeldUpTo(e[g], q)
        BY <2>5 DEF HeldUpTo
      <3>3. AliveAt(e, q) \subseteq DOMAIN e /\ q \in Nat
        BY <1>0 DEF AliveAt
      <3>4. ASSUME NEW g \in AliveAt(e, q)
            PROVE  /\ HeldUpTo(f[g], q) = HeldUpTo(e[g], q)
                   /\ \A p \in HeldUpTo(e[g], q) : f[g].revs[p] = e[g].revs[p]
        <4>1. g \in DOMAIN e
          BY <3>3
        <4> QED
          BY <2>5, <3>2, <4>1
      <3>5. q \in Nat
        BY <3>3
      <3> QED
        BY <1>2, <3>1, <3>4, <3>5, LooksAlike
    <2> QED
      BY <1>2, <2>6, <2>7, <2>8 DEF f
  <1>5. CASE e # <<>> /\ e[m].deleted # Alive
    <2>1. f = e
      BY <1>5 DEF IndexTombstone
    <2>2. AliveAt(e, r) = {}
      BY <1>0, <1>1, <1>5 DEF AliveAt
    <2>3. Bounded(e, r)
      BY <1>0, LaterLookup
    <2>4. RevisionAt(e, r) = Gone
      BY <2>2 DEF RevisionAt
    <2> HIDE DEF f
    <2> QED
      BY <1>2, <2>1, <2>3, <2>4 DEF f
  <1> QED
    BY <1>3, <1>4, <1>5
=============================================================================
