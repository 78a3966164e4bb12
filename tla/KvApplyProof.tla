---------------------------- MODULE KvApplyProof ----------------------------
(***************************************************************************)
(* Proofs about the way of a write to the stores of a cluster, for any     *)
(* number of nodes, clients, keys, elections, restarts and abandoned       *)
(* requests: the types, that followers perform the log in step, and, for   *)
(* one reign of one leader, that the cluster is a replicated store.        *)
(***************************************************************************)
EXTENDS KvApply, FiniteSetTheorems, SequenceTheorems, TLAPS

KvRecord == [val : Text, lease : Nat, mod : Nat, create : Nat, version : Nat]

StoreType ==
  [rev : Nat \ {0}, kv : [StoreKey -> KvRecord \cup {None}],
   indexed : SUBSET StoreKey, rooted : BOOLEAN]

Op == [type : {"put", "delete"}, by : Client, key : Key, val : Text, lease : Nat]

TxnOp == [type : {"put", "delete", "range"}, key : Key, val : Text, lease : Nat]

WritePc == {"propose", "append", "check", "register", "wait", "write"}
TxnPc == {"success", "failure"}

TaskType ==
  [pc : {"idle"} \cup WritePc \cup TxnPc, node : Node \cup {Nobody},
   op : Op \cup Txn \cup {None}, at : 0..MaxLog, ops : Seq(TxnOp)]

\* A proposal whose key a follower's store can hold.
EntryType == {e \in Entry : e.data # <<>> /\ <<e.data[1]>> \in StoreKey}

\* A write of a key to a value, or a deletion of any keys.
WriteType == {w \in WriteRecord : w.val # None => w.keys # {}}

ExecutedType == [at : 0..MaxLog, write : WriteRecord]

-----------------------------------------------------------------------------
(* Text and stores *)

\* Reading bytes as UTF-8 keeps the number of parts and changes the binary ones.
LEMMA LossyType ==
  ASSUME NEW s \in Text
  PROVE  /\ Lossy(s) \in Text /\ Len(Lossy(s)) = Len(s)
         /\ \A i \in 1..Len(s) : Lossy(s)[i] = IF s[i] \in Binary THEN Mangled ELSE s[i]
  <1>1. DOMAIN s = 1..Len(s) /\ Len(s) \in Nat
    BY DEF Text
  <1>2. \A i \in 1..Len(s) : Lossy(s)[i] \in Nat
    BY <1>1 DEF Lossy, Mangled, Text
  <1>3. Lossy(s) \in [1..Len(s) -> Nat]
    BY <1>1, <1>2 DEF Lossy
  <1>4. Lossy(s) \in Text /\ Len(Lossy(s)) = Len(s)
    BY <1>1, <1>3 DEF Text
  <1> QED
    BY <1>1, <1>4 DEF Lossy

\* A text that follows another does not change how it begins.
LEMMA ConcatFirst ==
  ASSUME NEW a \in Text, NEW b \in Text, a # <<>>
  PROVE  /\ a \o b \in Text /\ Len(a \o b) = Len(a) + Len(b)
         /\ Len(a) >= 1 /\ Len(a \o b) >= 1 /\ (a \o b)[1] = a[1]
  <1>1. Len(a) \in Nat \ {0} /\ Len(b) \in Nat
    BY EmptySeq DEF Text
  <1>2. a \o b \in Text /\ Len(a \o b) = Len(a) + Len(b)
    BY DEF Text
  <1>3. (a \o b)[1] = a[1]
    BY <1>1, ConcatProperties DEF Text
  <1> QED
    BY <1>1, <1>2, <1>3

\* What is proposed is an entry, and its key is one a store can hold.
LEMMA EncodeType ==
  ASSUME NEW op \in Op
  PROVE  Encode(op) \in EntryType
  <1> DEFINE d == op.key \o op.val
  <1>1. op.key \in Text /\ op.val \in Text /\ op.key # <<>> /\ op.key \in Key
    BY TextAssumption DEF Op, Text
  <1>2. d \in Text /\ Len(op.key) >= 1 /\ Len(d) >= 1 /\ d[1] = op.key[1]
    BY <1>1, ConcatFirst
  <1> HIDE DEF d
  <1>3. Lossy(d) \in Text /\ Len(Lossy(d)) >= 1 /\ Lossy(d)[1] = Lossy(op.key)[1]
    BY <1>1, <1>2, LossyType DEF Text
  <1>4. <<Lossy(d)[1]>> \in StoreKey
    BY <1>1, <1>3 DEF StoreKey
  <1>5. Lossy(d) # <<>>
    BY <1>3 DEF Text
  <1>6. Encode(op) = [type |-> op.type, data |-> Lossy(d), by |-> op.by]
    BY DEF Encode, d
  <1>7. op.type \in {"put", "delete"} /\ op.by \in Client
    BY DEF Op
  <1> QED
    BY <1>3, <1>4, <1>5, <1>6, <1>7 DEF EntryType, Entry

\* A range names keys that a store can hold.
LEMMA LiteralKeysType ==
  ASSUME NEW start \in StoreKey, NEW end
  PROVE  LiteralKeys(start, end) \subseteq StoreKey
  BY DEF LiteralKeys

\* What a follower reads in an entry is a write.
LEMMA DecodeType ==
  ASSUME NEW e \in EntryType
  PROVE  Decode(e) \in WriteType
  <1>1. e.data \in Text /\ e.data # <<>> /\ <<e.data[1]>> \in StoreKey
    BY DEF EntryType, Entry
  <1>2. Tail(e.data) \in Text
    BY <1>1 DEF Text
  <1>3. CASE e.type = "put"
    <2>1. Decode(e) = [keys |-> {<<e.data[1]>>}, val |-> Tail(e.data), lease |-> 0]
      BY <1>3 DEF Decode
    <2> QED
      BY <1>1, <1>2, <2>1 DEF WriteType, WriteRecord
  <1>4. CASE e.type # "put"
    <2>1. Decode(e) = [keys |-> LiteralKeys(<<e.data[1]>>, Tail(e.data)), val |-> None, lease |-> 0]
      BY <1>4 DEF Decode
    <2> QED
      BY <1>1, <2>1, LiteralKeysType DEF WriteType, WriteRecord
  <1> QED
    BY <1>3, <1>4

\* So is what a handler tells its own store.
LEMMA RequestedType ==
  ASSUME NEW op \in Op
  PROVE  Requested(op) \in WriteType
  <1>1. op.key \in StoreKey /\ op.val \in Text /\ op.lease \in Nat
    BY DEF Op, StoreKey
  <1>2. CASE op.type = "put"
    BY <1>1, <1>2 DEF Requested, WriteType, WriteRecord
  <1>3. CASE op.type # "put"
    <2>1. RequestedKeys(op.key, op.val) \subseteq StoreKey
      BY <1>1, LiteralKeysType DEF RequestedKeys
    <2> QED
      BY <1>3, <2>1 DEF Requested, WriteType, WriteRecord
  <1> QED
    BY <1>2, <1>3

\* A store takes one revision for every write and stays a store.
LEMMA PerformType ==
  ASSUME NEW s \in StoreType, NEW w \in WriteType
  PROVE  Perform(s, w) \in StoreType /\ Perform(s, w).rev = s.rev + 1
  <1>1. CASE w.val = None
    <2> DEFINE found == {k \in w.keys \cap s.indexed : s.kv[k] # None}
    <2>1. [k \in StoreKey |-> IF k \in found THEN None ELSE s.kv[k]]
            \in [StoreKey -> KvRecord \cup {None}]
      BY DEF StoreType
    <2>2. s.indexed \ found \in SUBSET StoreKey /\ s.rev + 1 \in Nat \ {0}
      BY DEF StoreType
    <2>3. Perform(s, w) =
            [s EXCEPT !.rev = s.rev + 1, !.indexed = s.indexed \ found,
                      !.kv = [k \in StoreKey |-> IF k \in found THEN None ELSE s.kv[k]]]
      BY <1>1 DEF Perform, StoreDelete
    <2> HIDE DEF found
    <2> QED
      BY <2>1, <2>2, <2>3 DEF StoreType
  <1>2. CASE w.val # None
    <2> DEFINE key == CHOOSE k \in w.keys : TRUE
               old == s.kv[key]
               kv == [val |-> w.val, lease |-> w.lease, mod |-> s.rev + 1,
                      create |-> IF old = None THEN s.rev + 1 ELSE old.create,
                      version |-> IF old = None THEN 1 ELSE old.version + 1]
    <2>1. w.keys # {} /\ w.keys \subseteq StoreKey /\ w.val \in Text /\ w.lease \in Nat
      BY <1>2 DEF WriteType, WriteRecord
    <2>2. key \in StoreKey
      BY <2>1
    <2>3. Perform(s, w) = [rev |-> s.rev + 1, kv |-> [s.kv EXCEPT ![key] = kv],
                           indexed |-> s.indexed \cup {key}, rooted |-> TRUE]
      BY <1>2 DEF Perform, StorePut
    <2> HIDE DEF key
    <2>4. s.rev \in Nat /\ s.kv \in [StoreKey -> KvRecord \cup {None}]
          /\ s.indexed \subseteq StoreKey
      BY DEF StoreType
    <2>5. old = None \/ old \in KvRecord
      BY <2>2, <2>4
    <2>6. kv \in KvRecord
      BY <2>1, <2>4, <2>5 DEF KvRecord
    <2> HIDE DEF kv
    <2>7. [s.kv EXCEPT ![key] = kv] \in [StoreKey -> KvRecord \cup {None}]
      BY <2>2, <2>4, <2>6
    <2> QED
      BY <2>2, <2>3, <2>4, <2>7 DEF StoreType
  <1> QED
    BY <1>1, <1>2

-----------------------------------------------------------------------------
(***************************************************************************)
(* The inductive invariant, in parts that few actions touch together.      *)
(***************************************************************************)

\* Every proposal on its way still finds room in the log.
LogInv ==
  /\ log \in Seq(EntryType)
  /\ Len(log) + Cardinality(Proposing) <= MaxLog
  /\ committed \in 0..Len(log) /\ last \in 0..Len(log)

\* The entries that have left the channel of node n.
Taken(n) == applied[n] - Len(channel[n])

\* The indices of a node follow each other, and its channel holds exactly the
\* entries between the ones it performed and last_applied.
Orderly(n) ==
  /\ applied[n] <= commit[n] /\ Len(channel[n]) <= applied[n]
  /\ \A i \in 1..Len(channel[n]) : channel[n][i] = Taken(n) + i

\* Nothing a node sends to its channel is uncommitted.  A node that leads a
\* cluster of one may see its commit index go back: overlapping proposals.
Bounded(n) ==
  /\ applied[n] <= committed /\ commit[n] <= committed
  /\ \A i \in 1..Len(channel[n]) : channel[n][i] \in 1..committed
  /\ ~ applier[n] => channel[n] = <<>>

NodeInv ==
  /\ commit \in [Node -> Nat] /\ applied \in [Node -> Nat]
  /\ channel \in [Node -> Seq(Nat)] /\ applier \in [Node -> BOOLEAN]
  /\ \A n \in Node : Bounded(n)
  /\ \A n \in Node \ led : Orderly(n)

StoreInv ==
  /\ store \in [Node -> StoreType] /\ executed \in [Node -> Seq(ExecutedType)]
  /\ since \in [Node -> Nat] /\ \A n \in Node : since[n] <= Len(executed[n])

\* What a store was told of the log is committed.
ExecutedInv ==
  \A n \in Node : \A p \in DOMAIN executed[n] : executed[n][p].at <= committed

\* Who leads, and who serves a request, has led since it started.
LeadInv == led \subseteq Node /\ leader \in led \cup {Nobody}

\* A handler that writes has its index committed.
Handled(tk) ==
  /\ tk.pc # "idle" => tk.node \in led
  /\ tk.pc \in WritePc => tk.op \in Op
  /\ tk.pc = "write" => tk.at <= committed

TaskInv == task \in [Client -> TaskType] /\ \A c \in Client : Handled(task[c])

\* FollowersInStep, entry by entry.
InStep(n) ==
  /\ Len(executed[n]) = since[n] + Taken(n)
  /\ \A i \in 1..Taken(n) : executed[n][since[n] + i] = [at |-> i, write |-> Decode(log[i])]
  /\ store[n].rev = Taken(n) + 1

StepInv == \A n \in Node \ led : applier[n] => InStep(n)

KvInv ==
  LogInv /\ NodeInv /\ StoreInv /\ LeadInv /\ TaskInv /\ ExecutedInv /\ StepInv

-----------------------------------------------------------------------------
\* The bounds, one by one.
LEMMA BoundsNat ==
  /\ MaxLog \in Nat /\ MaxElections \in Nat /\ MaxRestarts \in Nat
  /\ MaxAbandons \in Nat /\ MaxProposing \in Nat
  BY BoundAssumption

\* The requests under way can be counted.
LEMMA ProposingFinite == IsFiniteSet(Proposing) /\ Cardinality(Proposing) \in Nat
  <1>1. IsFiniteSet(Proposing)
    BY NameAssumption, FS_Subset DEF Proposing
  <1> QED
    BY <1>1, FS_CardinalityType

\* Fewer handlers that have yet to propose take less room.
LEMMA ProposingFewer ==
  ASSUME Proposing' \subseteq Proposing
  PROVE  Cardinality(Proposing') \in Nat /\ Cardinality(Proposing') <= Cardinality(Proposing)
  BY ProposingFinite, FS_Subset, FS_CardinalityType

\* A client that asks for nothing has a task.
LEMMA IdleType == Idle \in TaskType /\ Idle.pc = "idle"
  <1>1. 0 \in 0..MaxLog /\ <<>> \in Seq(TxnOp)
    BY BoundsNat
  <1> QED
    BY <1>1 DEF Idle, TaskType

\* A store begins empty, at revision 1.
LEMMA EmptyStoreType == EmptyStore \in StoreType /\ EmptyStore.rev = 1
  <1>1. [k \in StoreKey |-> None] \in [StoreKey -> KvRecord \cup {None}]
    OBVIOUS
  <1> QED
    BY <1>1 DEF EmptyStore, StoreType

\* A store that is opened again is a store.
LEMMA ReopenedType ==
  ASSUME NEW s \in StoreType PROVE Reopened(s) \in StoreType /\ Reopened(s).rev = 1
  BY DEF Reopened, StoreType

\* The invariant holds at the start.
LEMMA InitInv == Init => KvInv
  <1> SUFFICES ASSUME Init PROVE KvInv
    OBVIOUS
  <1>1. LogInv
    <2>1. Proposing = {}
      BY IdleType DEF Init, Proposing
    <2> QED
      BY <2>1, FS_EmptySet, BoundsNat DEF Init, LogInv
  <1>2. NodeInv
    BY DEF Init, NodeInv, Bounded, Orderly, Taken
  <1>3. StoreInv
    BY EmptyStoreType DEF Init, StoreInv
  <1>4. LeadInv
    BY DEF Init, LeadInv
  <1>5. TaskInv
    BY IdleType DEF Init, TaskInv, Handled, WritePc
  <1>6. ExecutedInv
    BY DEF Init, ExecutedInv
  <1>7. StepInv
    BY EmptyStoreType DEF Init, StepInv, InStep, Taken
  <1> QED
    BY <1>1, <1>2, <1>3, <1>4, <1>5, <1>6, <1>7 DEF KvInv

\* The invariant implies the properties that the runs check.
LEMMA InvGivesType == KvInv => TypeOK
  <1> SUFFICES ASSUME KvInv PROVE TypeOK
    OBVIOUS
  <1>1. log \in Seq(Entry) /\ Len(log) <= MaxLog /\ committed \in 0..Len(log)
        /\ last \in 0..Len(log)
    <2>1. EntryType \subseteq Entry
      BY DEF EntryType
    <2> QED
      BY <2>1, ProposingFinite, BoundsNat DEF KvInv, LogInv
  <1>2. leader \in Node \cup {Nobody}
    BY DEF KvInv, LeadInv
  <1>3. ASSUME NEW n \in Node
        PROVE  /\ applied[n] \in 0..committed /\ commit[n] \in 0..committed
               /\ channel[n] \in Seq(1..committed)
               /\ applier[n] \in BOOLEAN
    <2>1. commit[n] \in Nat /\ applied[n] \in Nat /\ channel[n] \in Seq(Nat)
          /\ committed \in Nat /\ applier[n] \in BOOLEAN
      BY <1>1 DEF KvInv, NodeInv
    <2>2. Bounded(n)
      BY DEF KvInv, NodeInv
    <2>3. channel[n] \in Seq(1..committed)
      BY <2>1, <2>2 DEF Bounded
    <2> QED
      BY <2>1, <2>2, <2>3 DEF Bounded
  <1>4. ASSUME NEW n \in Node
        PROVE  /\ store[n].rev \in Nat \ {0} /\ store[n].indexed \subseteq StoreKey
               /\ executed[n] \in Seq([at : 0..MaxLog, write : WriteRecord])
               /\ since[n] \in 0..Len(executed[n])
    <2>1. store[n] \in StoreType /\ executed[n] \in Seq(ExecutedType)
          /\ since[n] \in Nat /\ since[n] <= Len(executed[n])
      BY DEF KvInv, StoreInv
    <2> QED
      BY <2>1 DEF StoreType, ExecutedType
  <1>5. ASSUME NEW c \in Client
        PROVE  /\ task[c].pc \in {"idle", "propose", "append", "check", "register", "wait",
                                  "write", "success", "failure"}
               /\ task[c].at \in 0..MaxLog
    BY DEF KvInv, TaskInv, TaskType, WritePc, TxnPc
  <1> QED
    BY <1>1, <1>2, <1>3, <1>4, <1>5 DEF TypeOK

-----------------------------------------------------------------------------
(* What several actions have in common *)

\* The indexes of the log, in the order in which they follow each other.
LEMMA IndexTypes ==
  ASSUME KvInv
  PROVE  /\ Len(log) \in Nat /\ committed \in Nat /\ committed <= Len(log)
         /\ last \in Nat /\ last <= Len(log)
         /\ \A n \in Node : /\ commit[n] \in Nat /\ applied[n] \in Nat
                            /\ channel[n] \in Seq(Nat) /\ Len(channel[n]) \in Nat
                            /\ applied[n] <= committed /\ commit[n] <= committed
  <1>1. Len(log) \in Nat /\ committed \in Nat /\ committed <= Len(log)
        /\ last \in Nat /\ last <= Len(log)
    BY DEF KvInv, LogInv
  <1>2. ASSUME NEW n \in Node
        PROVE  /\ commit[n] \in Nat /\ applied[n] \in Nat
               /\ channel[n] \in Seq(Nat) /\ Len(channel[n]) \in Nat
               /\ applied[n] <= committed /\ commit[n] <= committed
    BY DEF KvInv, NodeInv, Bounded
  <1> QED
    BY <1>1, <1>2

\* What a follower took is a number of committed entries.
LEMMA TakenType ==
  ASSUME KvInv, NEW n \in Node \ led
  PROVE  Taken(n) \in Nat /\ Taken(n) <= applied[n] /\ \A i \in 1..Taken(n) : i \in 1..committed
  <1>1. Len(channel[n]) <= applied[n]
    BY DEF KvInv, NodeInv, Orderly
  <1> QED
    BY <1>1, IndexTypes DEF Taken

\* The invariant puts a follower's store in step with what it took.
LEMMA InvGivesInStep == KvInv => FollowersInStep
  <1> SUFFICES ASSUME KvInv, NEW n \in Node \ led, applier[n]
               PROVE  /\ SubSeq(executed[n], since[n] + 1, Len(executed[n]))
                           = [i \in 1..Taken(n) |-> [at |-> i, write |-> Decode(log[i])]]
                      /\ store[n].rev = Taken(n) + 1
    BY DEF FollowersInStep, Taken
  <1>1. InStep(n)
    BY DEF KvInv, StepInv
  <1>2. /\ executed[n] \in Seq(ExecutedType) /\ Len(executed[n]) \in Nat
        /\ since[n] \in Nat /\ since[n] <= Len(executed[n])
    BY DEF KvInv, StoreInv
  <1>3. PICK q : q = SubSeq(executed[n], since[n] + 1, Len(executed[n]))
    OBVIOUS
  <1>4. /\ q \in Seq(ExecutedType) /\ Len(q) = Taken(n) /\ Taken(n) \in Nat
        /\ \A i \in 1..Taken(n) : q[i] = executed[n][since[n] + i]
    <2>1. since[n] + 1 \in 1..(Len(executed[n]) + 1)
          /\ Len(executed[n]) \in since[n]..Len(executed[n])
      BY <1>2
    <2>2. /\ q \in Seq(ExecutedType)
          /\ Len(q) = IF since[n] + 1 <= Len(executed[n])
                        THEN Len(executed[n]) - (since[n] + 1) + 1 ELSE 0
          /\ \A i \in 1..(Len(executed[n]) - (since[n] + 1) + 1) :
               q[i] = executed[n][since[n] + 1 + i - 1]
      BY <1>2, <1>3, <2>1, SubSeqProperties
    <2>3. Taken(n) = Len(executed[n]) - since[n] /\ Taken(n) \in Nat
      BY <1>1, <1>2, TakenType DEF InStep
    <2>4. Len(q) = Taken(n)
      BY <1>2, <2>2, <2>3
    <2>5. ASSUME NEW i \in 1..Taken(n) PROVE q[i] = executed[n][since[n] + i]
      <3>1. since[n] + 1 + i - 1 = since[n] + i
            /\ i \in 1..(Len(executed[n]) - (since[n] + 1) + 1)
        BY <1>2, <2>3
      <3> QED
        BY <2>2, <3>1
    <2> QED
      BY <2>2, <2>3, <2>4, <2>5
  <1>5. DOMAIN q = 1..Taken(n)
    BY <1>4
  <1>6. q = [i \in DOMAIN q |-> q[i]]
    BY <1>4, SeqDef
  <1>7. q = [i \in 1..Taken(n) |-> executed[n][since[n] + i]]
    BY <1>4, <1>5, <1>6
  <1>8. q = [i \in 1..Taken(n) |-> [at |-> i, write |-> Decode(log[i])]]
    BY <1>1, <1>7 DEF InStep
  <1> QED
    BY <1>1, <1>3, <1>8 DEF InStep

\* The log changes only beyond what is committed: nobody is out of step.
LEMMA StepKept ==
  ASSUME KvInv, \A i \in 1..committed : log'[i] = log[i], led \subseteq led',
         UNCHANGED <<applied, channel, applier, store, executed, since>>
  PROVE  StepInv'
  <1> SUFFICES ASSUME NEW n \in Node, n \notin led', applier'[n] PROVE InStep(n)'
    BY DEF StepInv
  <1>1. InStep(n)
    BY DEF KvInv, StepInv
  <1>2. Taken(n)' = Taken(n) /\ \A i \in 1..Taken(n) : i \in 1..committed
    BY TakenType DEF Taken
  <1>3. \A i \in 1..Taken(n) : Decode(log[i])' = Decode(log[i])
    BY <1>2 DEF Decode
  <1> QED
    BY <1>1, <1>2, <1>3 DEF InStep

\* A handler goes from one step to another.
LEMMA TaskSet ==
  ASSUME KvInv, NEW c \in Client, NEW k \in TaskType, Handled(k)',
         task' = [task EXCEPT ![c] = k],
         committed' \in Nat, committed <= committed', led \subseteq led'
  PROVE  /\ TaskInv'
         /\ k.pc \notin {"propose", "append"} => Proposing' \subseteq Proposing
  <1>1. task \in [Client -> TaskType] /\ \A d \in Client : Handled(task[d])
    BY DEF KvInv, TaskInv
  <1>2. task' \in [Client -> TaskType]
    BY <1>1
  <1>3. ASSUME NEW d \in Client PROVE Handled(task[d])'
    <2>1. CASE d = c
      BY <1>1, <2>1 DEF Handled
    <2>2. CASE d # c
      <3>1. task'[d] = task[d] /\ task[d].at \in Int /\ Handled(task[d])
        BY <1>1, <2>2 DEF TaskType
      <3> QED
        BY <3>1, IndexTypes DEF Handled
    <2> QED
      BY <2>1, <2>2
  <1>4. k.pc \notin {"propose", "append"} => Proposing' \subseteq Proposing
    BY <1>1 DEF Proposing
  <1> QED
    BY <1>2, <1>3, <1>4 DEF TaskInv

\* Waking handlers whose index is committed.
LEMMA WokenInv ==
  ASSUME KvInv, NEW n, NEW index \in Nat, task' = Woken(n, index),
         committed' \in Nat, committed <= committed', index <= committed', led \subseteq led'
  PROVE  TaskInv' /\ Proposing' = Proposing
  <1>1. task \in [Client -> TaskType] /\ \A d \in Client : Handled(task[d])
    BY DEF KvInv, TaskInv
  <1>2. ASSUME NEW d \in Client
        PROVE  /\ task'[d] \in TaskType /\ Handled(task[d])'
               /\ task'[d].pc \in {"propose", "append"} <=> task[d].pc \in {"propose", "append"}
    <2>1. task[d] \in TaskType /\ task[d].at \in Int /\ Handled(task[d])
      BY <1>1 DEF TaskType
    <2>2. CASE task[d].pc = "wait" /\ task[d].node = n /\ task[d].at <= index
      <3> DEFINE k == [task[d] EXCEPT !.pc = "write"]
      <3>1. k \in TaskType /\ k.pc = "write" /\ k.node = task[d].node
            /\ k.op = task[d].op /\ k.at = task[d].at
        BY <2>1 DEF TaskType, WritePc
      <3>2. task'[d] = k
        BY <2>2 DEF Woken
      <3> HIDE DEF k
      <3>3. task[d].node \in led' /\ task[d].op \in Op /\ task[d].at <= committed'
        BY <2>1, <2>2 DEF Handled, WritePc
      <3> QED
        BY <2>2, <3>1, <3>2, <3>3 DEF Handled
    <2>3. CASE ~ (task[d].pc = "wait" /\ task[d].node = n /\ task[d].at <= index)
      <3>1. task'[d] = task[d]
        BY <2>3 DEF Woken
      <3> QED
        BY <2>1, <3>1, IndexTypes DEF Handled
    <2> QED
      BY <2>2, <2>3
  <1>3. task' \in [Client -> TaskType]
    <2>1. DOMAIN task' = Client /\ task' = [d \in Client |-> task'[d]]
      BY DEF Woken
    <2> QED
      BY <1>2, <2>1
  <1>4. Proposing' = Proposing
    BY <1>2 DEF Proposing
  <1> QED
    BY <1>2, <1>3, <1>4 DEF TaskInv

\* A store performs a write whose index is committed.
LEMMA ExecuteInv ==
  ASSUME KvInv, NEW n \in Node, NEW w \in WriteType, NEW at \in 0..MaxLog,
         Execute(n, w, at), at <= committed, UNCHANGED <<committed, since>>
  PROVE  StoreInv' /\ ExecutedInv'
  <1> DEFINE e == [at |-> at, write |-> w]
  <1>1. e \in ExecutedType /\ e.at = at
    BY DEF ExecutedType, WriteType
  <1>2. store' = [store EXCEPT ![n] = Perform(store[n], w)]
        /\ executed' = [executed EXCEPT ![n] = Append(executed[n], e)]
    BY DEF Execute
  <1> HIDE DEF e
  <1>3. store \in [Node -> StoreType] /\ executed \in [Node -> Seq(ExecutedType)]
    BY DEF KvInv, StoreInv
  <1>4. Perform(store[n], w) \in StoreType
    BY <1>3, PerformType
  <1>5. Append(executed[n], e) \in Seq(ExecutedType)
    BY <1>1, <1>3
  <1>6. StoreInv'
    <2>1. store' \in [Node -> StoreType] /\ executed' \in [Node -> Seq(ExecutedType)]
      BY <1>2, <1>3, <1>4, <1>5
    <2>2. ASSUME NEW m \in Node PROVE since[m] <= Len(executed'[m])
      <3>1. since[m] \in Nat /\ since[m] <= Len(executed[m]) /\ Len(executed[m]) \in Nat
        BY <1>3 DEF KvInv, StoreInv
      <3>2. CASE m = n
        <4>1. executed'[m] = Append(executed[m], e) /\ executed[m] \in Seq(ExecutedType)
          BY <1>2, <1>3, <3>2
        <4>2. Len(executed'[m]) = Len(executed[m]) + 1
          BY <1>1, <4>1
        <4> QED
          BY <3>1, <4>2
      <3>3. CASE m # n
        BY <1>2, <1>3, <3>1, <3>3
      <3> QED
        BY <3>2, <3>3
    <2> QED
      BY <2>1, <2>2 DEF KvInv, StoreInv
  <1>7. ASSUME NEW m \in Node, NEW p \in DOMAIN executed'[m]
        PROVE  executed'[m][p].at <= committed
    <2>1. \A q \in DOMAIN executed[m] : executed[m][q].at <= committed
      BY DEF KvInv, ExecutedInv
    <2>2. executed[m] \in Seq(ExecutedType)
      BY <1>3
    <2>3. CASE m = n
      <3>1. executed'[m] = Append(executed[m], e)
        BY <1>2, <1>3, <2>3
      <3>2. \/ p \in DOMAIN executed[m] /\ executed'[m][p] = executed[m][p]
            \/ executed'[m][p] = e
        BY <2>2, <1>1, <1>7, <3>1
      <3> QED
        BY <1>1, <2>1, <3>2
    <2>4. CASE m # n
      BY <1>2, <1>3, <1>7, <2>1, <2>4
    <2> QED
      BY <2>3, <2>4
  <1>8. ExecutedInv'
    BY <1>7 DEF ExecutedInv
  <1> QED
    BY <1>6, <1>8

\* A write by a node that led, or no write at all, leaves the others in step.
LEMMA StepOthers ==
  ASSUME KvInv, NEW n \in led, UNCHANGED <<log, led, applied, channel, applier, since>>,
         \A m \in Node \ {n} : store'[m] = store[m] /\ executed'[m] = executed[m]
  PROVE  StepInv'
  <1> SUFFICES ASSUME NEW m \in Node \ led, applier[m] PROVE InStep(m)'
    BY DEF StepInv
  <1>1. InStep(m) /\ m # n
    BY DEF KvInv, StepInv
  <1>2. Taken(m)' = Taken(m)
    BY DEF Taken
  <1>3. \A i \in 1..Taken(m) : Decode(log[i])' = Decode(log[i])
    BY DEF Decode
  <1> QED
    BY <1>1, <1>2, <1>3 DEF InStep

-----------------------------------------------------------------------------
(* What Raft does *)

\* A new leader lacks nothing that is committed.
LEMMA ElectInv == ASSUME KvInv, NEW n \in Node, Elect(n) PROVE KvInv'
  <1> PICK len \in committed..Len(log) : log' = SubSeq(log, 1, len) /\ last' = len
    BY DEF Elect
  <1>1. log \in Seq(EntryType) /\ len \in Nat /\ len <= Len(log) /\ committed <= len
    BY IndexTypes DEF KvInv, LogInv
  <1>2. /\ log' \in Seq(EntryType) /\ Len(log') = len
        /\ \A i \in 1..len : log'[i] = log[i]
    BY <1>1
  <1>3. Proposing' = Proposing
    BY DEF Elect, Proposing
  <1>4. LogInv'
    BY <1>1, <1>2, <1>3, IndexTypes, ProposingFinite, BoundsNat DEF KvInv, LogInv, Elect
  <1>5. NodeInv' /\ StoreInv' /\ LeadInv' /\ ExecutedInv'
    <2>1. NodeInv'
      BY DEF Elect, nodeVars, KvInv, NodeInv, Bounded, Orderly, Taken
    <2> QED
      BY <2>1 DEF Elect, KvInv, StoreInv, LeadInv, ExecutedInv
  <1>6. TaskInv'
    BY DEF Elect, KvInv, TaskInv, Handled
  <1>7. StepInv'
    BY <1>1, <1>2, IndexTypes, StepKept DEF Elect, nodeVars
  <1> QED
    BY <1>4, <1>5, <1>6, <1>7 DEF KvInv

\* A leader steps down.
LEMMA StepDownInv == ASSUME KvInv, StepDown PROVE KvInv'
  <1>1. UNCHANGED <<log, last, committed, commit, applied, channel, applier, store, task,
                    executed, since, led>> /\ leader' = Nobody
    BY DEF StepDown, nodeVars
  <1>2. LogInv'
    BY <1>1 DEF KvInv, LogInv, Proposing
  <1>3. NodeInv' /\ StoreInv' /\ LeadInv' /\ ExecutedInv'
    BY <1>1 DEF KvInv, NodeInv, Bounded, Orderly, StoreInv, LeadInv, ExecutedInv, Taken
  <1>4. TaskInv'
    BY <1>1 DEF KvInv, TaskInv, Handled
  <1>5. StepInv'
    BY <1>1, StepKept
  <1> QED
    BY <1>2, <1>3, <1>4, <1>5 DEF KvInv

\* The commit index of a node moves up, within what is committed.
LEMMA CommitMoves ==
  ASSUME KvInv, NEW n \in Node, NEW i \in Nat, commit[n] <= i, i <= committed',
         committed' \in committed..Len(log), commit' = [commit EXCEPT ![n] = i],
         Proposing' = Proposing,
         UNCHANGED <<log, last, leader, applied, channel, applier, store, executed, since, led>>
  PROVE  LogInv' /\ NodeInv' /\ StoreInv' /\ LeadInv' /\ ExecutedInv' /\ StepInv'
  <1>1. committed' \in Nat /\ committed <= committed' /\ committed' <= Len(log)
    BY IndexTypes
  <1>2. LogInv'
    BY <1>1 DEF KvInv, LogInv
  <1>3. NodeInv'
    <2>1. commit' \in [Node -> Nat]
      BY DEF KvInv, NodeInv
    <2>2. ASSUME NEW m \in Node
          PROVE  commit[m] <= commit'[m] /\ commit'[m] <= committed' /\ commit'[m] \in Nat
      <3>1. CASE m = n
        BY <1>1, <3>1, IndexTypes DEF KvInv, NodeInv
      <3>2. CASE m # n
        BY <1>1, <3>2, IndexTypes DEF KvInv, NodeInv
      <3> QED
        BY <3>1, <3>2
    <2>3. ASSUME NEW m \in Node PROVE Bounded(m)'
      <3>1. Bounded(m)
        BY DEF KvInv, NodeInv
      <3>2. \A j \in 1..committed : j \in 1..committed'
        BY <1>1, IndexTypes
      <3> QED
        BY <1>1, <2>2, <3>1, <3>2, IndexTypes DEF Bounded
    <2>4. ASSUME NEW m \in Node, m \notin led PROVE Orderly(m)'
      <3>1. Orderly(m) /\ Taken(m)' = Taken(m)
        BY <2>4 DEF KvInv, NodeInv, Taken
      <3> QED
        BY <2>2, <3>1, IndexTypes DEF Orderly
    <2> QED
      BY <2>1, <2>3, <2>4 DEF KvInv, NodeInv
  <1>4. StoreInv' /\ LeadInv'
    BY DEF KvInv, StoreInv, LeadInv
  <1>5. ExecutedInv'
    <2> SUFFICES ASSUME NEW m \in Node, NEW p \in DOMAIN executed[m]
                 PROVE  executed[m][p].at <= committed'
      BY DEF ExecutedInv
    <2>1. executed[m][p] \in ExecutedType
      BY DEF KvInv, StoreInv
    <2>2. executed[m][p].at \in Int
      BY <2>1 DEF ExecutedType
    <2>3. executed[m][p].at <= committed
      BY DEF KvInv, ExecutedInv
    <2> QED
      BY <1>1, <2>2, <2>3, IndexTypes
  <1>6. StepInv'
    BY StepKept
  <1> QED
    BY <1>2, <1>3, <1>4, <1>5, <1>6

\* The cluster commits one more entry.
LEMMA CommitInv == ASSUME KvInv, Commit PROVE KvInv'
  <1> PICK i \in (committed + 1)..last :
         /\ committed' = i /\ commit' = [commit EXCEPT ![leader] = i]
         /\ task' = Woken(leader, i)
    BY DEF Commit
  <1>1. leader \in Node
    BY DEF Commit, KvInv, LeadInv
  <1>2. i \in Nat /\ committed <= i /\ i <= Len(log) /\ commit[leader] <= i
    BY <1>1, IndexTypes
  <1>3. UNCHANGED <<log, last, leader, applied, channel, applier, store, executed, since, led>>
    BY DEF Commit
  <1>4. TaskInv' /\ Proposing' = Proposing
    BY <1>2, <1>3, WokenInv
  <1>5. committed' \in committed..Len(log)
    BY <1>2, IndexTypes
  <1>6. LogInv' /\ NodeInv' /\ StoreInv' /\ LeadInv' /\ ExecutedInv' /\ StepInv'
    <2>1. PICK m \in Node : m = leader
      BY <1>1
    <2>2. commit[m] <= i /\ i <= committed' /\ commit' = [commit EXCEPT ![m] = i]
      BY <1>2, <2>1
    <2> QED
      BY <1>2, <1>3, <1>4, <1>5, <2>2, CommitMoves
  <1> QED
    BY <1>4, <1>6 DEF KvInv

\* A node learns what is committed.
LEMMA LearnCommitInv == ASSUME KvInv, NEW n \in Node, LearnCommit(n) PROVE KvInv'
  <1> PICK i \in (commit[n] + 1)..committed :
         /\ commit' = [commit EXCEPT ![n] = i]
         /\ task' = IF leader = n THEN Woken(n, i) ELSE task
    BY DEF LearnCommit
  <1>1. i \in Nat /\ i <= committed /\ commit[n] <= i
    BY IndexTypes
  <1>2. UNCHANGED <<log, last, committed, leader, applied, channel, applier, store, executed, since, led>>
    BY DEF LearnCommit, raftVars
  <1>3. TaskInv' /\ Proposing' = Proposing
    <2>1. CASE leader = n
      BY <1>1, <1>2, <2>1, WokenInv, IndexTypes
    <2>2. CASE leader # n
      BY <1>2, <2>2 DEF KvInv, TaskInv, Handled, Proposing
    <2> QED
      BY <2>1, <2>2
  <1>4. committed' \in committed..Len(log)
    BY <1>2, IndexTypes
  <1>5. LogInv' /\ NodeInv' /\ StoreInv' /\ LeadInv' /\ ExecutedInv' /\ StepInv'
    BY <1>1, <1>2, <1>3, <1>4, CommitMoves
  <1> QED
    BY <1>3, <1>5 DEF KvInv

-----------------------------------------------------------------------------
(* The apply loop and the channel *)

\* The parts that only read what an action leaves alone.
LEMMA Untouched ==
  ASSUME KvInv, UNCHANGED <<log, last, committed, leader, led>>
  PROVE  /\ Proposing' \subseteq Proposing => LogInv'
         /\ LeadInv'
         /\ UNCHANGED <<commit, applied, channel, applier>> => NodeInv'
         /\ UNCHANGED <<store, executed, since>> => StoreInv' /\ ExecutedInv'
         /\ UNCHANGED task => TaskInv' /\ Proposing' = Proposing
         /\ UNCHANGED <<applied, channel, applier, store, executed, since>> => StepInv'
  <1>1. ASSUME Proposing' \subseteq Proposing PROVE LogInv'
    BY <1>1, ProposingFewer, ProposingFinite, IndexTypes, BoundsNat DEF KvInv, LogInv
  <1>2. LeadInv'
    BY DEF KvInv, LeadInv
  <1>3. ASSUME UNCHANGED <<commit, applied, channel, applier>> PROVE NodeInv'
    BY <1>3 DEF KvInv, NodeInv, Bounded, Orderly, Taken
  <1>4. ASSUME UNCHANGED <<store, executed, since>> PROVE StoreInv' /\ ExecutedInv'
    BY <1>4 DEF KvInv, StoreInv, ExecutedInv
  <1>5. ASSUME UNCHANGED task PROVE TaskInv' /\ Proposing' = Proposing
    BY <1>5 DEF KvInv, TaskInv, Handled, Proposing
  <1>6. ASSUME UNCHANGED <<applied, channel, applier, store, executed, since>> PROVE StepInv'
    BY <1>6, StepKept
  <1> QED
    BY <1>1, <1>2, <1>3, <1>4, <1>5, <1>6

\* Consecutive numbers up to a, followed by those from a + 1 to k.
LEMMA Continued ==
  ASSUME NEW a \in Nat, NEW k \in Nat, a <= k, NEW ch \in Seq(Nat), NEW new \in Seq(Nat),
         Len(ch) <= a, \A i \in 1..Len(ch) : ch[i] = a - Len(ch) + i,
         Len(new) = k - a, \A i \in 1..(k - a) : new[i] = a + i
  PROVE  /\ ch \o new \in Seq(Nat) /\ Len(ch \o new) = Len(ch) + (k - a)
         /\ \A i \in 1..(Len(ch) + (k - a)) : (ch \o new)[i] = a - Len(ch) + i
  <1>1. Len(ch) \in Nat /\ k - a \in Nat
    BY LenProperties
  <1>2. ch \o new \in Seq(Nat) /\ Len(ch \o new) = Len(ch) + Len(new)
    BY ConcatProperties
  <1>3. ASSUME NEW i \in 1..(Len(ch) + (k - a)) PROVE (ch \o new)[i] = a - Len(ch) + i
    <2>1. (ch \o new)[i] = IF i <= Len(ch) THEN ch[i] ELSE new[i - Len(ch)]
      BY ConcatProperties
    <2>2. CASE i <= Len(ch)
      BY <1>1, <2>1, <2>2
    <2>3. CASE ~ (i <= Len(ch))
      <3>1. i - Len(ch) \in 1..(k - a)
        BY <1>1, <2>3
      <3>2. new[i - Len(ch)] = a + (i - Len(ch))
        BY <3>1
      <3> QED
        BY <1>1, <2>1, <2>3, <3>2
    <2> QED
      BY <2>2, <2>3
  <1> QED
    BY <1>2, <1>3

\* A sequence of indices is a sequence of numbers.
LEMMA IndexSeq ==
  ASSUME NEW k \in Nat, NEW q \in Seq(1..k)
  PROVE  q \in Seq(Nat) /\ \A i \in 1..Len(q) : q[i] \in 1..k
  <1>1. Len(q) \in Nat /\ q \in [1..Len(q) -> 1..k]
    OBVIOUS
  <1>2. q \in [1..Len(q) -> Nat]
    BY <1>1
  <1> QED
    BY <1>1, <1>2

\* What a node does not touch stays bounded and in order.
LEMMA NodeKept ==
  ASSUME KvInv, NEW m \in Node,
         applied'[m] = applied[m], commit'[m] = commit[m], channel'[m] = channel[m],
         applier'[m] = applier[m], UNCHANGED committed
  PROVE  /\ Taken(m)' = Taken(m) /\ Bounded(m)' /\ (m \notin led => Orderly(m)')
  <1>1. Taken(m)' = Taken(m)
    BY DEF Taken
  <1>2. Bounded(m)'
    BY DEF KvInv, NodeInv, Bounded
  <1>3. ASSUME m \notin led PROVE Orderly(m)'
    BY <1>1, <1>3 DEF KvInv, NodeInv, Orderly
  <1> QED
    BY <1>1, <1>2, <1>3

\* The tick puts the entries after last_applied behind those in the channel.
LEMMA ApplyTickInv == ASSUME KvInv, NEW n \in Node, ApplyTick(n) PROVE KvInv'
  <1> DEFINE a == applied[n]
             k == commit[n]
             ch == channel[n]
             new == [i \in 1..(k - a) |-> a + i]
  <1>1. /\ a \in Nat /\ k \in Nat /\ ch \in Seq(Nat) /\ Len(ch) \in Nat
        /\ k <= committed /\ a <= committed /\ committed \in Nat
        /\ committed <= Len(log) /\ Len(log) \in Nat
    BY IndexTypes
  <1>2. UNCHANGED <<log, last, committed, leader, commit, applier, store, executed, since, led>>
        /\ task' = Woken(n, k) /\ applied' = [applied EXCEPT ![n] = k]
    BY DEF ApplyTick, raftVars, TickNotifies
  <1>3. channel' = [channel EXCEPT ![n] = IF applier[n] THEN ch \o new ELSE <<>>]
    <2>1. \A i \in 1..(k - a) : a + 1 + i - 1 = a + i
      BY <1>1
    <2>2. k - (a + 1) + 1 = k - a /\ ApplyLast(n) = k
      BY <1>1 DEF ApplyLast
    <2>3. new = [i \in 1..(ApplyLast(n) - ApplyFirst(n) + 1) |-> ApplyFirst(n) + i - 1]
      BY <2>1, <2>2 DEF ApplyFirst
    <2> QED
      BY <2>3 DEF ApplyTick
  <1>4. /\ new \in Seq(1..committed)
        /\ a <= k => /\ Len(new) = k - a /\ \A i \in 1..(k - a) : new[i] = a + i
    <2>1. CASE a <= k
      BY <1>1, <2>1
    <2>2. CASE ~ (a <= k)
      <3>1. 1..(k - a) = {}
        BY <1>1, <2>2
      <3>2. new = <<>>
        BY <3>1
      <3> HIDE DEF new
      <3> QED
        BY <2>2, <3>2
    <2> QED
      BY <2>1, <2>2
  <1> HIDE DEF new
  <1>5. ch \o new \in Seq(1..committed) /\ ch \o new \in Seq(Nat)
    <2>1. \A i \in 1..Len(ch) : ch[i] \in 1..committed
      BY DEF KvInv, NodeInv, Bounded
    <2> HIDE DEF ch
    <2>2. ch \in Seq(1..committed)
      BY <1>1, <2>1
    <2>3. ch \o new \in Seq(1..committed)
      BY <1>4, <2>2
    <2> QED
      BY <1>1, <2>3, IndexSeq
  <1>6. /\ applied'[n] = k /\ applied' \in [Node -> Nat]
        /\ applier[n] => channel'[n] = ch \o new
        /\ ~ applier[n] => channel'[n] = <<>>
        /\ channel' \in [Node -> Seq(Nat)]
        /\ \A m \in Node \ {n} : applied'[m] = applied[m] /\ channel'[m] = channel[m]
    BY <1>1, <1>2, <1>3, <1>5 DEF KvInv, NodeInv
  <1>7. ASSUME NEW m \in Node, m # n
        PROVE  /\ Taken(m)' = Taken(m) /\ Bounded(m)' /\ (m \notin led => Orderly(m)')
    BY <1>2, <1>6, <1>7, NodeKept
  <1>8. Bounded(n)'
    <2>1. \A i \in 1..Len(channel'[n]) : channel'[n][i] \in 1..committed
      <3>1. CASE applier[n]
        <4>1. PICK q : q = channel'[n]
          OBVIOUS
        <4>2. q \in Seq(1..committed)
          BY <1>5, <1>6, <3>1, <4>1
        <4> QED
          BY <1>1, <4>1, <4>2, IndexSeq
      <3>2. CASE ~ applier[n]
        BY <1>6, <3>2
      <3> QED
        BY <3>1, <3>2
    <2> QED
      BY <1>1, <1>2, <1>6, <2>1 DEF Bounded
  <1>9. ASSUME n \notin led
        PROVE  Orderly(n)' /\ (applier[n] => Taken(n)' = Taken(n))
    <2>1. /\ a <= k /\ Len(ch) <= a
          /\ \A i \in 1..Len(ch) : ch[i] = a - Len(ch) + i
      BY <1>9 DEF KvInv, NodeInv, Orderly, Taken
    <2>2. CASE applier[n]
      <3> DEFINE both == ch \o new
      <3>1. /\ both \in Seq(Nat) /\ Len(both) = Len(ch) + (k - a)
            /\ \A i \in 1..(Len(ch) + (k - a)) : both[i] = a - Len(ch) + i
        <4>1. new \in Seq(Nat)
          BY <1>1, <1>4, IndexSeq
        <4>2. Len(new) = k - a /\ \A i \in 1..(k - a) : new[i] = a + i
          BY <1>4, <2>1
        <4> HIDE DEF a, k, ch
        <4>3. /\ ch \o new \in Seq(Nat) /\ Len(ch \o new) = Len(ch) + (k - a)
              /\ \A i \in 1..(Len(ch) + (k - a)) : (ch \o new)[i] = a - Len(ch) + i
          <5>1. a \in Nat /\ k \in Nat /\ ch \in Seq(Nat)
            BY <1>1
          <5> QED
            BY <2>1, <4>1, <4>2, <5>1, Continued, Zenon
        <4> QED
          BY <4>3
      <3>2. channel'[n] = both
        BY <1>6, <2>2
      <3> HIDE DEF both
      <3>3. Len(channel'[n]) = Len(ch) + (k - a) /\ Taken(n)' = a - Len(ch)
        BY <1>1, <1>6, <3>1, <3>2 DEF Taken
      <3>4. Taken(n)' = Taken(n)
        BY <3>3 DEF Taken
      <3>5. Len(channel'[n]) <= applied'[n]
        BY <1>1, <1>6, <2>1, <3>3
      <3>6. \A i \in 1..Len(channel'[n]) : channel'[n][i] = Taken(n)' + i
        <4> HIDE DEF a, k, ch
        <4> QED
          BY <3>1, <3>2, <3>3
      <3> QED
        BY <1>1, <1>2, <1>6, <3>4, <3>5, <3>6 DEF Orderly
    <2>3. CASE ~ applier[n]
      <3>1. Len(channel'[n]) = 0
        BY <1>6, <2>3
      <3> QED
        BY <1>1, <1>2, <1>6, <2>3, <3>1 DEF Orderly
    <2> QED
      BY <2>2, <2>3
  <1>10. NodeInv'
    BY <1>2, <1>6, <1>7, <1>8, <1>9 DEF KvInv, NodeInv
  <1>11. StepInv'
    <2> SUFFICES ASSUME NEW m \in Node \ led, applier[m] PROVE InStep(m)'
      BY <1>2 DEF StepInv
    <2>1. Taken(m)' = Taken(m) /\ InStep(m)
      BY <1>7, <1>9 DEF KvInv, StepInv
    <2>2. \A i \in 1..Taken(m) : Decode(log[i])' = Decode(log[i])
      BY <1>2 DEF Decode
    <2> QED
      BY <1>2, <2>1, <2>2 DEF InStep
  <1>12. TaskInv' /\ Proposing' = Proposing
    BY <1>1, <1>2, WokenInv, IndexTypes
  <1>13. LogInv' /\ StoreInv' /\ LeadInv' /\ ExecutedInv'
    BY <1>2, <1>12, Untouched
  <1> QED
    BY <1>10, <1>11, <1>12, <1>13 DEF KvInv

\* The first entry of a channel is committed; a follower's is the one after
\* the last one taken.
LEMMA HeadOfChannel ==
  ASSUME KvInv, NEW n \in Node, channel[n] # <<>>
  PROVE  /\ Head(channel[n]) \in 1..committed /\ Head(channel[n]) \in 1..Len(log)
         /\ n \notin led => Head(channel[n]) = Taken(n) + 1
  <1>1. channel[n] \in Seq(Nat) /\ Len(channel[n]) \in Nat \ {0}
    BY IndexTypes, EmptySeq
  <1>2. Head(channel[n]) = channel[n][1] /\ 1 \in 1..Len(channel[n])
    BY <1>1
  <1>3. channel[n][1] \in 1..committed
    BY <1>2 DEF KvInv, NodeInv, Bounded
  <1>4. n \notin led => channel[n][1] = Taken(n) + 1
    BY <1>2 DEF KvInv, NodeInv, Orderly
  <1> QED
    BY <1>2, <1>3, <1>4, IndexTypes

\* Taking an entry out of a channel leaves the rest in order.
LEMMA TailNode ==
  ASSUME KvInv, NEW n \in Node, channel[n] # <<>>,
         channel' = [channel EXCEPT ![n] = Tail(channel[n])],
         UNCHANGED <<committed, commit, applied, applier, led>>
  PROVE  NodeInv'
  <1> DEFINE t == Tail(channel[n])
  <1>1. channel \in [Node -> Seq(Nat)] /\ Len(channel[n]) \in Nat
    BY DEF KvInv, NodeInv
  <1>2. t \in Seq(Nat) /\ Len(t) = Len(channel[n]) - 1 /\ Len(t) \in Nat
        /\ \A i \in 1..Len(t) : t[i] = channel[n][i + 1] /\ i + 1 \in 1..Len(channel[n])
    <2>1. channel[n] \in Seq(Nat) /\ t = Tail(channel[n])
      BY <1>1
    <2> HIDE DEF t
    <2>2. t \in Seq(Nat) /\ Len(t) = Len(channel[n]) - 1
          /\ \A i \in 1..Len(t) : t[i] = channel[n][i + 1]
      BY <2>1, HeadTailProperties
    <2> QED
      BY <1>1, <2>2, LenProperties
  <1> HIDE DEF t
  <1>3. /\ channel' = [channel EXCEPT ![n] = t] /\ channel' \in [Node -> Seq(Nat)]
        /\ channel'[n] = t /\ \A m \in Node \ {n} : channel'[m] = channel[m]
    BY <1>1, <1>2 DEF t
  <1>4. Bounded(n)'
    <2>1. applier[n]
      BY DEF KvInv, NodeInv, Bounded
    <2>2. \A i \in 1..Len(t) : t[i] \in 1..committed
      BY <1>2 DEF KvInv, NodeInv, Bounded
    <2> QED
      BY <1>3, <2>1, <2>2 DEF KvInv, NodeInv, Bounded
  <1>5. ASSUME n \notin led PROVE Orderly(n)'
    <2>1. /\ applied[n] \in Nat /\ commit[n] \in Nat
          /\ applied[n] <= commit[n] /\ Len(channel[n]) <= applied[n]
          /\ \A i \in 1..Len(channel[n]) : channel[n][i] = Taken(n) + i
      BY <1>5 DEF KvInv, NodeInv, Orderly
    <2>2. Taken(n) \in Nat /\ Taken(n)' = Taken(n) + 1
      BY <1>1, <1>2, <1>3, <2>1 DEF Taken
    <2>3. ASSUME NEW i \in 1..Len(t) PROVE t[i] = Taken(n) + 1 + i
      <3>1. channel[n][i + 1] = Taken(n) + (i + 1) /\ t[i] = channel[n][i + 1]
        BY <1>2, <2>1
      <3> QED
        BY <1>2, <2>2, <3>1
    <2>4. applied[n]' <= commit[n]' /\ Len(channel[n])' <= applied[n]'
      BY <1>1, <1>2, <1>3, <2>1
    <2>5. \A i \in 1..Len(channel[n])' : channel[n][i]' = Taken(n)' + i
      BY <1>3, <2>2, <2>3
    <2> QED
      BY <2>4, <2>5 DEF Orderly
  <1>6. ASSUME NEW m \in Node, m # n PROVE Bounded(m)' /\ (m \notin led => Orderly(m)')
    BY <1>3, <1>6, NodeKept
  <1> QED
    BY <1>3, <1>4, <1>5, <1>6 DEF KvInv, NodeInv

\* A leader lets the entry go.
LEMMA TakeAsLeaderInv == ASSUME KvInv, NEW n \in Node, TakeAsLeader(n) PROVE KvInv'
  <1>1. n \in led
    BY NameAssumption DEF TakeAsLeader, Skips, KvInv, LeadInv
  <1>2. UNCHANGED <<log, last, committed, leader, commit, applied, applier, store, task,
                    executed, since, led>>
        /\ channel' = [channel EXCEPT ![n] = Tail(channel[n])] /\ channel[n] # <<>>
    BY DEF TakeAsLeader, raftVars
  <1>3. NodeInv'
    BY <1>2, TailNode
  <1>4. StepInv'
    <2> SUFFICES ASSUME NEW m \in Node \ led, applier[m] PROVE InStep(m)'
      BY <1>2 DEF StepInv
    <2>1. Taken(m)' = Taken(m) /\ InStep(m)
      BY <1>1, <1>2 DEF Taken, KvInv, StepInv, NodeInv
    <2>2. \A i \in 1..Taken(m) : Decode(log[i])' = Decode(log[i])
      BY <1>2 DEF Decode
    <2> QED
      BY <1>2, <2>1, <2>2 DEF InStep
  <1> QED
    BY <1>2, <1>3, <1>4, Untouched DEF KvInv

\* A follower performs it: the entry after the last one it performed.
LEMMA TakeAsFollowerInv == ASSUME KvInv, NEW n \in Node, TakeAsFollower(n) PROVE KvInv'
  <1> DEFINE at == Head(channel[n])
             w == Decode(log[at])
  <1>1. UNCHANGED <<log, last, committed, leader, commit, applied, applier, task, since, led>>
        /\ channel' = [channel EXCEPT ![n] = Tail(channel[n])] /\ channel[n] # <<>>
        /\ Execute(n, w, at)
    BY DEF TakeAsFollower, raftVars
  <1>2. /\ at \in Nat /\ at <= committed /\ at \in 1..committed /\ at \in 1..Len(log)
        /\ n \notin led => at = Taken(n) + 1
    BY <1>1, HeadOfChannel, IndexTypes
  <1>3. log \in Seq(EntryType) /\ at \in 0..MaxLog
    BY <1>2, IndexTypes, ProposingFinite, BoundsNat DEF KvInv, LogInv
  <1>4. w \in WriteType
    BY <1>2, <1>3, DecodeType
  <1> HIDE DEF at, w
  <1>5. StoreInv' /\ ExecutedInv'
    BY <1>1, <1>2, <1>3, <1>4, ExecuteInv
  <1>6. NodeInv'
    BY <1>1, TailNode
  <1>7. StepInv'
    <2> SUFFICES ASSUME NEW m \in Node \ led, applier[m] PROVE InStep(m)'
      BY <1>1 DEF StepInv
    <2>1. InStep(m)
      BY DEF KvInv, StepInv
    <2>2. \A i \in 1..committed : Decode(log[i])' = Decode(log[i])
      BY <1>1 DEF Decode
    <2>3. store \in [Node -> StoreType] /\ executed \in [Node -> Seq(ExecutedType)]
          /\ channel \in [Node -> Seq(Nat)]
      BY DEF KvInv, StoreInv, NodeInv
    <2>4. CASE m # n
      <3>1. Taken(m)' = Taken(m)
        BY <1>1, <2>3, <2>4 DEF Taken
      <3>2. store'[m] = store[m] /\ executed'[m] = executed[m]
        BY <1>1, <2>3, <2>4 DEF Execute
      <3>3. \A i \in 1..Taken(m) : i \in 1..committed
        BY TakenType
      <3> QED
        BY <1>1, <2>1, <2>2, <3>1, <3>2, <3>3 DEF InStep
    <2>5. CASE m = n
      <3>1. Len(channel'[n]) = Len(channel[n]) - 1 /\ Len(channel[n]) \in Nat
        BY <1>1, <2>3
      <3>2. /\ Taken(n) \in Nat /\ Taken(n)' = Taken(n) + 1
            /\ \A i \in 1..Taken(n) : i \in 1..committed
        BY <1>1, <2>5, <3>1, IndexTypes, TakenType DEF Taken
      <3>3. executed'[n] = Append(executed[n], [at |-> at, write |-> w])
        BY <1>1, <2>3 DEF Execute
      <3>4. /\ executed[n] \in Seq(ExecutedType) /\ Len(executed[n]) = since[n] + Taken(n)
            /\ since[n] \in Nat
        BY <2>1, <2>3, <2>5 DEF InStep, KvInv, StoreInv
      <3>5. /\ Len(executed'[n]) = since[n] + (Taken(n) + 1)
            /\ \A i \in 1..Taken(n) : executed'[n][since[n] + i] = executed[n][since[n] + i]
            /\ executed'[n][since[n] + (Taken(n) + 1)] = [at |-> at, write |-> w]
        <4> DEFINE e == [at |-> at, write |-> w]
        <4>1. executed'[n] = Append(executed[n], e)
          BY <3>3
        <4> HIDE DEF e
        <4>2. /\ Len(executed'[n]) = Len(executed[n]) + 1
              /\ \A j \in 1..Len(executed[n]) : executed'[n][j] = executed[n][j]
              /\ executed'[n][Len(executed[n]) + 1] = e
          BY <3>4, <4>1
        <4>3. Len(executed[n]) + 1 = since[n] + (Taken(n) + 1)
          <5>1. /\ Taken(n) \in Nat /\ since[n] \in Nat
                /\ Len(executed[n]) = since[n] + Taken(n)
            BY <3>2, <3>4, Zenon
          <5> QED
            BY <5>1
        <4>4. \A i \in 1..Taken(n) : since[n] + i \in 1..Len(executed[n])
          BY <3>2, <3>4
        <4>5. executed'[n][since[n] + (Taken(n) + 1)] = e
          BY <4>2, <4>3
        <4>6. Len(executed'[n]) = since[n] + (Taken(n) + 1)
          BY <4>2, <4>3
        <4>7. \A i \in 1..Taken(n) : executed'[n][since[n] + i] = executed[n][since[n] + i]
          BY <4>2, <4>4
        <4> QED
          BY <4>5, <4>6, <4>7 DEF e
      <3>6. ASSUME NEW i \in 1..(Taken(n) + 1)
            PROVE  executed'[n][since[n] + i] = [at |-> i, write |-> Decode(log[i])']
        <4>1. CASE i = Taken(n) + 1
          <5>1. i = at /\ i \in 1..committed
            BY <1>2, <2>5, <4>1
          <5> QED
            BY <2>2, <3>5, <4>1, <5>1 DEF w
        <4>2. CASE i # Taken(n) + 1
          <5>1. i \in 1..Taken(n) /\ i \in 1..committed
            BY <3>2, <4>2
          <5> QED
            BY <2>1, <2>2, <2>5, <3>5, <5>1 DEF InStep
        <4> QED
          BY <4>1, <4>2
      <3>7. store'[n].rev = Taken(n) + 1 + 1
        <4>1. store'[n] = Perform(store[n], w)
          BY <1>1, <2>3 DEF Execute
        <4> QED
          BY <1>4, <2>1, <2>3, <2>5, <4>1, PerformType DEF InStep
      <3> QED
        BY <1>1, <2>5, <3>2, <3>5, <3>6, <3>7 DEF InStep
    <2> QED
      BY <2>4, <2>5
  <1> QED
    BY <1>1, <1>5, <1>6, <1>7, Untouched DEF KvInv

\* A revision that is taken and not used leaves a store a store.
LEMMA RevTaken ==
  ASSUME KvInv, NEW n \in Node,
         store' = [store EXCEPT ![n] = [store[n] EXCEPT !.rev = store[n].rev + 1]],
         UNCHANGED <<executed, since, committed>>
  PROVE  /\ StoreInv' /\ ExecutedInv'
         /\ \A m \in Node : store'[m].kv = store[m].kv
         /\ \A m \in Node \ {n} : store'[m] = store[m]
  <1>1. store \in [Node -> StoreType]
    BY DEF KvInv, StoreInv
  <1>2. PICK x \in StoreType : x = store[n]
    BY <1>1
  <1>3. [x EXCEPT !.rev = x.rev + 1] \in StoreType /\ [x EXCEPT !.rev = x.rev + 1].kv = x.kv
    <2>1. x.rev + 1 \in Nat \ {0}
      BY DEF StoreType
    <2> QED
      BY <2>1 DEF StoreType
  <1>4. PICK y \in StoreType : y = [store[n] EXCEPT !.rev = store[n].rev + 1] /\ y.kv = store[n].kv
    BY <1>2, <1>3
  <1>5. store' = [store EXCEPT ![n] = y]
    BY <1>4
  <1>6. store' \in [Node -> StoreType]
        /\ \A m \in Node : store'[m] = IF m = n THEN y ELSE store[m]
    BY <1>1, <1>5
  <1>7. StoreInv'
    BY <1>6 DEF KvInv, StoreInv
  <1>8. ExecutedInv'
    BY DEF KvInv, ExecutedInv
  <1> QED
    BY <1>4, <1>6, <1>7, <1>8

\* The panic ends the task; nothing is promised of the node until it restarts.
LEMMA TakePanicsInv == ASSUME KvInv, NEW n \in Node, TakePanics(n) PROVE KvInv'
  <1>1. UNCHANGED <<log, last, committed, leader, commit, applied, task, executed, since, led>>
        /\ store' = [store EXCEPT ![n] = [store[n] EXCEPT !.rev = store[n].rev + 1]]
        /\ applier' = [applier EXCEPT ![n] = FALSE]
        /\ channel' = [channel EXCEPT ![n] = <<>>]
    BY DEF TakePanics, raftVars
  <1>2. applier \in [Node -> BOOLEAN] /\ channel \in [Node -> Seq(Nat)]
    BY DEF KvInv, NodeInv
  <1>3. StoreInv' /\ ExecutedInv' /\ \A m \in Node \ {n} : store'[m] = store[m]
    BY <1>1, RevTaken
  <1>4. channel'[n] = <<>> /\ Len(channel'[n]) = 0 /\ ~ applier'[n]
        /\ \A m \in Node \ {n} : channel'[m] = channel[m] /\ applier'[m] = applier[m]
    BY <1>1, <1>2
  <1>5. ASSUME NEW m \in Node, m # n
        PROVE  /\ Taken(m)' = Taken(m) /\ Bounded(m)' /\ (m \notin led => Orderly(m)')
    BY <1>1, <1>4, <1>5, NodeKept
  <1>6. NodeInv'
    <2>1. applier' \in [Node -> BOOLEAN] /\ channel' \in [Node -> Seq(Nat)]
      BY <1>1, <1>2
    <2>2. Bounded(n)'
      BY <1>1, <1>4, IndexTypes DEF Bounded
    <2>3. n \notin led => Orderly(n)'
      BY <1>1, <1>4, IndexTypes DEF KvInv, NodeInv, Orderly
    <2> QED
      BY <1>1, <1>5, <2>1, <2>2, <2>3 DEF KvInv, NodeInv
  <1>7. StepInv'
    <2> SUFFICES ASSUME NEW m \in Node \ led, applier'[m] PROVE InStep(m)'
      BY <1>1 DEF StepInv
    <2>1. m # n
      BY <1>4
    <2>2. applier[m] /\ store'[m] = store[m] /\ Taken(m)' = Taken(m)
      BY <1>3, <1>4, <1>5, <2>1
    <2>3. InStep(m)
      BY <2>2 DEF KvInv, StepInv
    <2>4. \A i \in 1..Taken(m) : Decode(log[i])' = Decode(log[i])
      BY <1>1 DEF Decode
    <2> QED
      BY <1>1, <2>2, <2>3, <2>4 DEF InStep
  <1> QED
    BY <1>1, <1>3, <1>6, <1>7, Untouched DEF KvInv

\* A restarted node begins again: nothing taken, and its trees as they were.
LEMMA RestartInv == ASSUME KvInv, NEW n \in Node, Restart(n) PROVE KvInv'
  <1>1. /\ UNCHANGED <<log, last, committed>>
        /\ leader' = (IF leader = n THEN Nobody ELSE leader) /\ led' = led \ {n}
        /\ commit' = [commit EXCEPT ![n] = 0] /\ applied' = [applied EXCEPT ![n] = 0]
        /\ channel' = [channel EXCEPT ![n] = <<>>] /\ applier' = [applier EXCEPT ![n] = TRUE]
        /\ store' = [store EXCEPT ![n] = Reopened(store[n])]
        /\ UNCHANGED executed /\ since' = [since EXCEPT ![n] = Len(executed[n])]
        /\ task' = [c \in Client |-> IF task[c].node = n THEN Idle ELSE task[c]]
    BY DEF Restart, RestartedApplied
  <1>2. /\ store \in [Node -> StoreType] /\ executed \in [Node -> Seq(ExecutedType)]
        /\ commit \in [Node -> Nat] /\ applied \in [Node -> Nat]
        /\ channel \in [Node -> Seq(Nat)] /\ applier \in [Node -> BOOLEAN]
        /\ task \in [Client -> TaskType] /\ since \in [Node -> Nat]
        /\ Len(executed[n]) \in Nat
    BY DEF KvInv, StoreInv, NodeInv, TaskInv
  <1>3. /\ commit'[n] = 0 /\ applied'[n] = 0 /\ channel'[n] = <<>> /\ applier'[n]
        /\ since'[n] = Len(executed[n]) /\ store'[n] = Reopened(store[n])
        /\ \A m \in Node \ {n} :
             /\ commit'[m] = commit[m] /\ applied'[m] = applied[m]
             /\ channel'[m] = channel[m] /\ applier'[m] = applier[m]
             /\ since'[m] = since[m] /\ store'[m] = store[m]
    BY <1>1, <1>2
  <1>4. TaskInv' /\ Proposing' \subseteq Proposing
    <2>1. ASSUME NEW c \in Client
          PROVE  /\ task'[c] \in TaskType /\ Handled(task[c])'
                 /\ task'[c].pc \in {"propose", "append"} => task[c].pc \in {"propose", "append"}
      <3>1. CASE task[c].node = n
        <4>1. task'[c] = Idle
          BY <1>1, <3>1
        <4> QED
          BY <4>1, IdleType DEF Handled, WritePc
      <3>2. CASE task[c].node # n
        <4>1. task'[c] = task[c]
          BY <1>1, <3>2
        <4> QED
          BY <1>1, <1>2, <3>2, <4>1 DEF KvInv, TaskInv, Handled
      <3> QED
        BY <3>1, <3>2
    <2>2. task' \in [Client -> TaskType]
      BY <1>1, <2>1
    <2> QED
      BY <2>1, <2>2 DEF TaskInv, Proposing
  <1>5. LogInv'
    BY <1>1, <1>4, ProposingFewer, ProposingFinite, IndexTypes, BoundsNat DEF KvInv, LogInv
  <1>6. NodeInv'
    <2>1. commit' \in [Node -> Nat] /\ applied' \in [Node -> Nat]
          /\ channel' \in [Node -> Seq(Nat)] /\ applier' \in [Node -> BOOLEAN]
      BY <1>1, <1>2
    <2>2. Bounded(n)' /\ Orderly(n)'
      <3>1. Len(channel'[n]) = 0
        BY <1>3
      <3> QED
        BY <1>1, <1>3, <3>1, IndexTypes DEF Bounded, Orderly
    <2>3. ASSUME NEW m \in Node, m # n PROVE Bounded(m)' /\ (m \notin led => Orderly(m)')
      BY <1>1, <1>3, <2>3, NodeKept
    <2> QED
      BY <1>1, <2>1, <2>2, <2>3 DEF NodeInv
  <1>7. StoreInv'
    <2>1. store' \in [Node -> StoreType] /\ since' \in [Node -> Nat]
      BY <1>1, <1>2, ReopenedType
    <2>2. ASSUME NEW m \in Node PROVE since'[m] <= Len(executed[m])
      <3>1. CASE m = n
        BY <1>2, <1>3, <3>1
      <3>2. CASE m # n
        BY <1>3, <3>2 DEF KvInv, StoreInv
      <3> QED
        BY <3>1, <3>2
    <2> QED
      BY <1>1, <1>2, <2>1, <2>2 DEF StoreInv
  <1>8. LeadInv'
    BY <1>1 DEF KvInv, LeadInv
  <1>9. ExecutedInv'
    BY <1>1 DEF KvInv, ExecutedInv
  <1>10. StepInv'
    <2> SUFFICES ASSUME NEW m \in Node, m \notin led', applier'[m] PROVE InStep(m)'
      BY DEF StepInv
    <2>1. CASE m = n
      <3>1. Taken(m)' = 0 /\ Len(executed'[m]) = since'[m] + 0
        BY <1>1, <1>2, <1>3, <2>1 DEF Taken
      <3>2. store'[m].rev = 1
        BY <1>2, <1>3, <2>1, ReopenedType
      <3> QED
        BY <3>1, <3>2 DEF InStep
    <2>2. CASE m # n
      <3>1. Taken(m)' = Taken(m) /\ InStep(m)
        BY <1>1, <1>3, <2>2 DEF Taken, KvInv, StepInv
      <3>2. \A i \in 1..Taken(m) : Decode(log[i])' = Decode(log[i])
        BY <1>1 DEF Decode
      <3> QED
        BY <1>1, <1>3, <2>2, <3>1, <3>2 DEF InStep
    <2> QED
      BY <2>1, <2>2
  <1> QED
    BY <1>4, <1>5, <1>6, <1>7, <1>8, <1>9, <1>10 DEF KvInv

-----------------------------------------------------------------------------
(* The handlers *)

\* A handler step that touches no node and no store, and proposes nothing.
LEMMA HandlerStep ==
  ASSUME KvInv, NEW c \in Client, NEW k \in TaskType, Handled(k),
         task' = [task EXCEPT ![c] = k], k.pc \notin {"propose", "append"},
         UNCHANGED <<raftVars, nodeVars, store, executed, since, led>>
  PROVE  KvInv'
  <1>1. UNCHANGED <<log, last, committed, leader, commit, applied, channel, applier, store,
                    executed, since, led>>
    BY DEF raftVars, nodeVars
  <1>2. Handled(k)'
    BY <1>1 DEF Handled
  <1>3. TaskInv' /\ Proposing' \subseteq Proposing
    <2>1. committed' \in Nat /\ committed <= committed' /\ led \subseteq led'
      BY <1>1, IndexTypes
    <2> QED
      BY <1>2, <2>1, TaskSet
  <1> QED
    BY <1>1, <1>3, Untouched DEF KvInv

\* What is found under a key is what was put there.
LEMMA BeginInv ==
  ASSUME KvInv, NEW c \in Client, NEW n \in Node, NEW op \in Op,
         Serves(c, n), Begin(c, n, op)
  PROVE  KvInv'
  <1> DEFINE k == [Idle EXCEPT !.pc = "propose", !.node = n, !.op = op]
  <1>1. n \in led /\ task[c].pc = "idle"
    BY IdleType, NameAssumption DEF Serves, KvInv, LeadInv
  <1>3. task' = [task EXCEPT ![c] = k]
    BY DEF Begin
  <1>4. k \in TaskType /\ k.pc = "propose" /\ k.node = n /\ k.op = op
    BY IdleType DEF TaskType, WritePc
  <1>5. UNCHANGED <<log, last, committed, leader, commit, applied, channel, applier, store,
                    executed, since, led>>
    BY DEF Begin, raftVars, nodeVars
  <1>6. Handled(k)'
    BY <1>1, <1>4, <1>5 DEF Handled
  <1> HIDE DEF k
  <1>7. committed' \in Nat /\ committed <= committed' /\ led \subseteq led'
    BY <1>5, IndexTypes
  <1>8. TaskInv'
    BY <1>3, <1>4, <1>6, <1>7, TaskSet
  <1>9. LogInv'
    <2>1. Proposing' = Proposing \cup {c} /\ c \notin Proposing
      BY <1>1, <1>3, <1>4 DEF Proposing, KvInv, TaskInv
    <2>2. Cardinality(Proposing') = Cardinality(Proposing) + 1
      BY <2>1, ProposingFinite, FS_AddElement
    <2>3. Len(log) + Cardinality(Proposing) < MaxLog
      BY DEF Begin
    <2> QED
      BY <1>5, <2>2, <2>3, ProposingFinite, IndexTypes, BoundsNat DEF KvInv, LogInv
  <1> QED
    BY <1>5, <1>8, <1>9, Untouched DEF KvInv

\* A put is checked against the store, and its proposal begins.
LEMMA PutRequestInv ==
  ASSUME KvInv, NEW c \in Client, NEW n \in Node, NEW key \in Key, NEW val \in Value,
         NEW lease \in Lease, NEW flags, PutRequest(c, n, key, val, lease, flags)
  PROVE  KvInv'
  <1> DEFINE old == store[n].kv[key]
             found == Found(store[n], key)
             v == IF "ignore_value" \in flags
                    THEN IF found THEN old["val"] ELSE <<EmptyPart>> ELSE val
             l == IF "ignore_lease" \in flags
                    THEN IF found THEN old["lease"] ELSE 0 ELSE lease
             op == [type |-> "put", by |-> c, key |-> key, val |-> v, lease |-> l]
  <1>1. Serves(c, n) /\ Begin(c, n, op)
    BY DEF PutRequest
  <1>2. found => old \in KvRecord
    <2>1. store[n] \in StoreType /\ key \in StoreKey
      BY DEF KvInv, StoreInv, StoreKey
    <2> QED
      BY <2>1 DEF Found, StoreType
  <1>3. val \in Text /\ lease \in Nat /\ <<EmptyPart>> \in Text
    BY TextAssumption DEF Text, EmptyPart
  <1>4. ASSUME found PROVE old["val"] \in Text /\ old["lease"] \in Nat
    BY <1>2, <1>4 DEF KvRecord
  <1> HIDE DEF old, found
  <1>5. v \in Text /\ l \in Nat
    BY <1>3, <1>4
  <1> HIDE DEF v, l
  <1>6. op \in Op
    BY <1>5 DEF Op
  <1> QED
    BY <1>1, <1>6, BeginInv

\* A delete's proposal begins.
LEMMA DeleteRequestInv ==
  ASSUME KvInv, NEW c \in Client, NEW n \in Node, NEW key \in Key, NEW end \in RangeEnd,
         DeleteRequest(c, n, key, end)
  PROVE  KvInv'
  <1> DEFINE op == [type |-> "delete", by |-> c, key |-> key, val |-> end, lease |-> 0]
  <1>1. op \in Op
    BY TextAssumption DEF Op, Text
  <1> QED
    BY <1>1, BeginInv DEF DeleteRequest

\* A handler that proposes takes an index, for which there is room.
LEMMA ProposeReadInv == ASSUME KvInv, NEW c \in Client, ProposeRead(c) PROVE KvInv'
  <1>1. /\ task[c] \in TaskType /\ task[c].node \in led /\ task[c].op \in Op
        /\ task[c].pc = "propose" /\ task \in [Client -> TaskType]
    BY DEF ProposeRead, KvInv, TaskInv, LeadInv, Handled, WritePc
  <1>2. last + 1 \in 0..MaxLog
    <2>1. c \in Proposing
      BY <1>1 DEF Proposing
    <2>2. Cardinality(Proposing) # 0
      BY <2>1, ProposingFinite, FS_EmptySet
    <2> QED
      BY <2>2, ProposingFinite, IndexTypes, BoundsNat DEF KvInv, LogInv
  <1>3. PICK x \in TaskType : x = task[c]
    BY <1>1
  <1>4. PICK i \in 0..MaxLog : i = last + 1
    BY <1>2
  <1> DEFINE k == [x EXCEPT !.pc = "append", !.at = i]
  <1>5. k \in TaskType /\ k.pc = "append" /\ k.node = x.node /\ k.op = x.op
    BY DEF TaskType, WritePc
  <1>6. task' = [task EXCEPT ![c] = k]
    BY <1>3, <1>4 DEF ProposeRead
  <1> HIDE DEF k
  <1>7. UNCHANGED <<log, last, committed, leader, commit, applied, channel, applier, store,
                    executed, since, led>>
    BY DEF ProposeRead, raftVars, nodeVars
  <1>8. Handled(k)'
    BY <1>1, <1>3, <1>5, <1>7 DEF Handled
  <1>9. committed' \in Nat /\ committed <= committed' /\ led \subseteq led'
    BY <1>7, IndexTypes
  <1>10. TaskInv'
    BY <1>5, <1>6, <1>8, <1>9, TaskSet
  <1>11. Proposing' = Proposing
    <2>1. task'[c] = k /\ \A d \in Client \ {c} : task'[d] = task[d]
      BY <1>1, <1>6
    <2> QED
      BY <1>1, <1>5, <2>1 DEF Proposing
  <1> QED
    BY <1>7, <1>10, <1>11, Untouched DEF KvInv

\* Whatever its log becomes, an append does not shorten it, makes it longer by
\* one at most, and in a cluster of several leaves what is committed alone.
LEMMA AppendedLog ==
  ASSUME KvInv, NEW n, NEW at \in Nat, NEW e \in EntryType, NEW new \in Appended(n, at, e)
  PROVE  /\ new \in Seq(EntryType) /\ Len(new) \in Nat
         /\ Len(log) <= Len(new) /\ Len(new) <= Len(log) + 1
         /\ leader = n /\ at <= Len(log) + 1 => at <= Len(new)
         /\ Node # {n} => \A i \in 1..committed : new[i] = log[i]
  <1>1. log \in Seq(EntryType) /\ Len(log) \in Nat /\ committed \in Nat /\ committed <= Len(log)
    BY IndexTypes DEF KvInv, LogInv
  <1>2. CASE new = log
    <2>1. at # Len(log) + 1 \/ leader # n \/ new = Append(log, e)
      BY DEF Appended
    <2>2. new # Append(log, e)
      <3>1. Len(Append(log, e)) = Len(log) + 1
        BY <1>1
      <3> QED
        BY <1>1, <1>2, <3>1
    <2> QED
      BY <1>1, <1>2, <2>1, <2>2
  <1>3. CASE new = Append(log, e) /\ at = Len(log) + 1
    <2>1. new \in Seq(EntryType) /\ Len(new) = Len(log) + 1
          /\ \A i \in 1..Len(log) : new[i] = log[i]
      BY <1>1, <1>3
    <2> QED
      BY <1>1, <1>3, <2>1
  <1>4. CASE new = [log EXCEPT ![at] = e] /\ at <= Len(log) /\ (Node = {n} \/ at > committed)
    <2>1. new \in Seq(EntryType) /\ Len(new) = Len(log)
          /\ \A i \in 1..Len(log) : i # at => new[i] = log[i]
      <3>1. log \in [1..Len(log) -> EntryType]
        BY <1>1
      <3>2. /\ new \in [1..Len(log) -> EntryType]
            /\ \A i \in 1..Len(log) : i # at => new[i] = log[i]
        BY <1>4, <3>1
      <3>3. new \in Seq(EntryType)
        BY <1>1, <3>2
      <3> QED
        BY <1>1, <3>2, <3>3
    <2> QED
      BY <1>1, <1>4, <2>1
  <1> QED
    BY <1>1, <1>2, <1>3, <1>4 DEF Appended

\* The rest of a proposal.  A cluster of one commits it at once; in any other
\* cluster no committed entry changes.
LEMMA ProposeAppendInv == ASSUME KvInv, NEW c \in Client, ProposeAppend(c) PROVE KvInv'
  <1> DEFINE n == task[c].node
             at == task[c].at
             e == Encode(task[c].op)
             k == [task[c] EXCEPT !.pc = "check"]
  <1>1. /\ task[c] \in TaskType /\ n \in Node /\ n \in led /\ task[c].op \in Op
        /\ task[c].pc = "append" /\ at \in Nat /\ task \in [Client -> TaskType]
    BY BoundsNat DEF ProposeAppend, KvInv, TaskInv, TaskType, LeadInv, Handled, WritePc
  <1>2. e \in EntryType
    BY <1>1, EncodeType
  <1>3. /\ Len(log) \in Nat /\ committed \in Nat /\ committed <= Len(log)
        /\ last \in Nat /\ last <= Len(log)
    BY IndexTypes
  <1>4. /\ log' \in Seq(EntryType) /\ Len(log') \in Nat
        /\ Len(log) <= Len(log') /\ Len(log') <= Len(log) + 1
        /\ leader = n /\ at <= Len(log) + 1 => at <= Len(log')
        /\ Node # {n} => \A i \in 1..committed : log'[i] = log[i]
    <2>1. log' \in Appended(n, at, e)
      BY DEF ProposeAppend
    <2> HIDE DEF e, n, at
    <2> QED
      BY <1>1, <1>2, <2>1, AppendedLog
  <1>5. task' = [task EXCEPT ![c] = k]
    BY DEF ProposeAppend
  <1>6. k \in TaskType /\ k.pc = "check" /\ k.node = n /\ k.op = task[c].op
    BY <1>1 DEF TaskType, WritePc
  <1> HIDE DEF k, e
  <1>7. UNCHANGED <<leader, applied, channel, applier, store, executed, since, led>>
    BY DEF ProposeAppend
  <1>8. last' \in 0..Len(log')
    BY <1>1, <1>3, <1>4 DEF ProposeAppend
  <1>9. committed' \in Nat /\ committed <= committed' /\ committed' <= Len(log')
    BY <1>1, <1>3, <1>4 DEF ProposeAppend
  <1>10. \/ commit' = commit
         \/ Node = {n} /\ commit' = [commit EXCEPT ![n] = at] /\ at <= committed'
    BY <1>1, <1>3, <1>4 DEF ProposeAppend
  <1>11. TaskInv'
    <2>1. PICK j \in TaskType : j = k
      BY <1>6
    <2>2. Handled(j)'
      BY <1>1, <1>6, <1>7, <2>1 DEF Handled
    <2>3. task' = [task EXCEPT ![c] = j] /\ led \subseteq led'
      BY <1>5, <1>7, <2>1
    <2> QED
      BY <1>9, <2>2, <2>3, TaskSet
  <1>12. LogInv'
    <2>1. task'[c] = k /\ \A d \in Client \ {c} : task'[d] = task[d]
      BY <1>1, <1>5
    <2>2. Proposing' = Proposing \ {c} /\ c \in Proposing
      BY <1>1, <1>6, <2>1 DEF Proposing
    <2>3. Cardinality(Proposing') = Cardinality(Proposing) - 1
      BY <2>2, ProposingFinite, FS_RemoveElement
    <2> QED
      BY <1>3, <1>4, <1>8, <1>9, <2>3, ProposingFinite, BoundsNat DEF KvInv, LogInv
  <1>13. NodeInv'
    <2>1. commit' \in [Node -> Nat]
      <3>1. commit \in [Node -> Nat]
        BY DEF KvInv, NodeInv
      <3>2. [commit EXCEPT ![n] = at] \in [Node -> Nat]
        BY <1>1, <3>1
      <3> QED
        BY <1>10, <3>1, <3>2
    <2>2. ASSUME NEW o \in Node PROVE Bounded(o)'
      <3>1. Bounded(o) /\ commit \in [Node -> Nat]
        BY DEF KvInv, NodeInv
      <3>2. commit'[o] = commit[o] \/ (commit'[o] = at /\ at <= committed')
        BY <1>1, <1>10, <3>1
      <3>3. \A j \in 1..committed : j \in 1..committed'
        BY <1>3, <1>9
      <3>4. applied[o] <= committed' /\ commit'[o] <= committed'
        BY <1>1, <1>3, <1>9, <3>1, <3>2, IndexTypes DEF Bounded
      <3> QED
        BY <1>7, <3>1, <3>3, <3>4 DEF Bounded
    <2>3. ASSUME NEW o \in Node, o \notin led PROVE Orderly(o)'
      <3>1. Node # {n}
        BY <1>1, <2>3
      <3>2. commit' = commit /\ Taken(o)' = Taken(o)
        BY <1>7, <1>10, <3>1 DEF Taken
      <3> QED
        BY <1>7, <2>3, <3>2 DEF KvInv, NodeInv, Orderly
    <2> QED
      BY <1>7, <2>1, <2>2, <2>3 DEF KvInv, NodeInv
  <1>14. StoreInv' /\ LeadInv'
    BY <1>7 DEF KvInv, StoreInv, LeadInv
  <1>15. ExecutedInv'
    <2> SUFFICES ASSUME NEW m \in Node, NEW p \in DOMAIN executed[m]
                 PROVE  executed[m][p].at <= committed'
      BY <1>7 DEF ExecutedInv
    <2>1. executed[m][p] \in ExecutedType
      BY DEF KvInv, StoreInv
    <2>2. executed[m][p].at \in Int
      BY <2>1, BoundsNat DEF ExecutedType
    <2>3. executed[m][p].at <= committed
      BY DEF KvInv, ExecutedInv
    <2> QED
      BY <1>3, <1>9, <2>2, <2>3
  <1>16. StepInv'
    <2>1. CASE Node = {n}
      BY <1>1, <1>7, <2>1 DEF StepInv
    <2>2. CASE Node # {n}
      BY <1>4, <1>7, <2>2, StepKept
    <2> QED
      BY <2>1, <2>2
  <1> QED
    BY <1>11, <1>12, <1>13, <1>14, <1>15, <1>16 DEF KvInv

\* A handler that goes back to idle.
LEMMA ReturnInv ==
  ASSUME KvInv, NEW c \in Client, task' = [task EXCEPT ![c] = Idle],
         UNCHANGED <<raftVars, nodeVars, store, executed, since, led>>
  PROVE  KvInv'
  <1>1. Handled(Idle)
    BY IdleType DEF Handled, WritePc
  <1> QED
    BY <1>1, IdleType, HandlerStep

\* A handler that only moves on.
LEMMA MoveOn ==
  ASSUME KvInv, NEW c \in Client, NEW pc \in {"register", "wait", "write"},
         task[c].pc \in WritePc, task' = [task EXCEPT ![c] = [task[c] EXCEPT !.pc = pc]],
         pc = "write" => task[c].at <= committed,
         UNCHANGED <<raftVars, nodeVars, store, executed, since, led>>
  PROVE  KvInv'
  <1>1. task[c] \in TaskType /\ Handled(task[c])
    BY DEF KvInv, TaskInv
  <1>2. PICK x \in TaskType : x = task[c]
    BY <1>1
  <1> DEFINE k == [x EXCEPT !.pc = pc]
  <1>3. k \in TaskType /\ k.pc = pc /\ k.node = x.node /\ k.op = x.op /\ k.at = x.at
    BY DEF TaskType, WritePc
  <1>4. task' = [task EXCEPT ![c] = k]
    BY <1>2
  <1> HIDE DEF k
  <1>5. Handled(k)
    BY <1>1, <1>2, <1>3 DEF Handled, WritePc
  <1> QED
    BY <1>3, <1>4, <1>5, HandlerStep

\* A handler looks whether its entry is committed before it waits.
LEMMA CheckInv == ASSUME KvInv, NEW c \in Client, Check(c) PROVE KvInv'
  <1> DEFINE pc == IF MustWait(c) THEN "register" ELSE "write"
  <1>1. task' = [task EXCEPT ![c] = [task[c] EXCEPT !.pc = pc]] /\ task[c].pc = "check"
        /\ UNCHANGED <<raftVars, nodeVars, store, executed, since, led>>
    BY DEF Check
  <1>2. task[c].node \in Node /\ task[c].at \in Int
    BY <1>1 DEF KvInv, TaskInv, TaskType, Handled, LeadInv
  <1>3. pc = "write" => task[c].at <= committed
    <2>1. ASSUME ~ MustWait(c) PROVE task[c].at <= committed
      BY <1>2, <2>1, IndexTypes DEF MustWait
    <2> QED
      BY <2>1
  <1>4. pc \in {"register", "wait", "write"}
    OBVIOUS
  <1> HIDE DEF pc
  <1> QED
    BY <1>1, <1>3, <1>4, MoveOn DEF WritePc

\* A handler registers for the notification.
LEMMA RegisterInv == ASSUME KvInv, NEW c \in Client, Register(c) PROVE KvInv'
  BY MoveOn DEF Register, WritePc

\* A node that leads no longer refuses the proposal.
LEMMA ProposeRefusedInv == ASSUME KvInv, NEW c \in Client, ProposeRefused(c) PROVE KvInv'
  BY ReturnInv DEF ProposeRefused

\* A client gives up.
LEMMA AbandonInv == ASSUME KvInv, NEW c \in Client, Abandon(c) PROVE KvInv'
  BY ReturnInv DEF Abandon

\* A handler tells its node's store what it was asked for.
LEMMA StoreStep ==
  ASSUME KvInv, NEW c \in Client, NEW k \in TaskType, Handled(k), k.pc \notin {"propose", "append"},
         NEW n \in led, NEW w \in WriteType, NEW at \in 0..MaxLog, at <= committed,
         Execute(n, w, at), task' = [task EXCEPT ![c] = k],
         UNCHANGED <<raftVars, nodeVars, since, led>>
  PROVE  KvInv'
  <1>1. UNCHANGED <<log, last, committed, leader, commit, applied, channel, applier, since, led>>
    BY DEF raftVars, nodeVars
  <1>2. n \in Node
    BY DEF KvInv, LeadInv
  <1>3. StoreInv' /\ ExecutedInv'
    BY <1>1, <1>2, ExecuteInv
  <1>4. \A m \in Node \ {n} : store'[m] = store[m] /\ executed'[m] = executed[m]
    BY <1>2 DEF Execute, KvInv, StoreInv
  <1>5. StepInv'
    BY <1>1, <1>4, StepOthers
  <1>6. Handled(k)'
    BY <1>1 DEF Handled
  <1>7. committed' \in Nat /\ committed <= committed' /\ led \subseteq led'
    BY <1>1, IndexTypes
  <1>8. TaskInv' /\ Proposing' \subseteq Proposing
    BY <1>6, <1>7, TaskSet
  <1> QED
    BY <1>1, <1>3, <1>5, <1>8, Untouched DEF KvInv

\* A handler writes what was committed.
LEMMA WriteInv == ASSUME KvInv, NEW c \in Client, Write(c) PROVE KvInv'
  <1>1. task[c] \in TaskType /\ Handled(task[c]) /\ task[c].pc = "write"
    BY DEF Write, KvInv, TaskInv
  <1>2. task[c].node \in led /\ task[c].op \in Op /\ task[c].at \in 0..MaxLog
        /\ task[c].at <= committed
    BY <1>1 DEF Handled, WritePc, TaskType
  <1>3. Requested(task[c].op) \in WriteType
    BY <1>2, RequestedType
  <1>4. Execute(task[c].node, Requested(task[c].op), task[c].at)
        /\ task' = [task EXCEPT ![c] = Idle] /\ UNCHANGED <<raftVars, nodeVars, since, led>>
    BY DEF Write
  <1>5. Handled(Idle)
    BY IdleType DEF Handled, WritePc
  <1> QED
    BY <1>2, <1>3, <1>4, <1>5, IdleType, StoreStep

\* A handler whose range panics ends, and has taken a revision.
LEMMA WritePanicsInv == ASSUME KvInv, NEW c \in Client, WritePanics(c) PROVE KvInv'
  <1> DEFINE n == task[c].node
  <1>1. n \in led /\ n \in Node /\ task[c].pc = "write"
    BY DEF WritePanics, KvInv, TaskInv, Handled, LeadInv
  <1>2. /\ store' = [store EXCEPT ![n] = [store[n] EXCEPT !.rev = store[n].rev + 1]]
        /\ task' = [task EXCEPT ![c] = Idle]
        /\ UNCHANGED <<log, last, committed, leader, commit, applied, channel, applier,
                       executed, since, led>>
    BY DEF WritePanics, raftVars, nodeVars
  <1> HIDE DEF n
  <1>3. StoreInv' /\ ExecutedInv' /\ \A m \in Node \ {n} : store'[m] = store[m]
    BY <1>1, <1>2, RevTaken
  <1>4. StepInv'
    BY <1>1, <1>2, <1>3, StepOthers
  <1>5. Handled(Idle)'
    BY IdleType DEF Handled, WritePc
  <1>6. committed' \in Nat /\ committed <= committed' /\ led \subseteq led'
    BY <1>2, IndexTypes
  <1>7. TaskInv' /\ Proposing' \subseteq Proposing
    BY <1>2, <1>5, <1>6, IdleType, TaskSet
  <1> QED
    BY <1>2, <1>3, <1>4, <1>7, Untouched DEF KvInv

\* The branches of a transaction are operations.
LEMMA TxnType ==
  ASSUME NEW t \in Txn PROVE t.success \in Seq(TxnOp) /\ t.failure \in Seq(TxnOp)
  BY TxnAssumption DEF TxnOp, Text

\* A transaction compares and chooses its branch.
LEMMA TxnRequestInv ==
  ASSUME KvInv, NEW c \in Client, NEW n \in Node, NEW txn \in Txn, TxnRequest(c, n, txn)
  PROVE  KvInv'
  <1> DEFINE all == \A cmp \in txn.compare : EvaluateCompare(store[n], cmp)
             pc == IF all THEN "success" ELSE "failure"
             ops == IF all THEN txn.success ELSE txn.failure
             k == [Idle EXCEPT !.pc = pc, !.node = n, !.op = txn, !.ops = ops]
  <1>1. task' = [task EXCEPT ![c] = k]
        /\ UNCHANGED <<raftVars, nodeVars, store, executed, since, led>>
    BY DEF TxnRequest
  <1>2. n \in led
    BY NameAssumption DEF TxnRequest, Serves, KvInv, LeadInv
  <1> HIDE DEF all
  <1>3. pc \in TxnPc /\ ops \in Seq(TxnOp)
    BY TxnType DEF TxnPc
  <1> HIDE DEF pc, ops
  <1>4. k \in TaskType /\ k.pc = pc /\ k.node = n
    BY <1>3, IdleType DEF TaskType
  <1> HIDE DEF k
  <1>5. Handled(k) /\ k.pc \notin {"propose", "append"}
    BY <1>2, <1>3, <1>4 DEF Handled, TxnPc, WritePc
  <1> QED
    BY <1>1, <1>4, <1>5, HandlerStep

\* A transaction does its next operation.
LEMMA TxnOperationInv == ASSUME KvInv, NEW c \in Client, TxnOperation(c) PROVE KvInv'
  <1> DEFINE op == Head(task[c].ops)
             k == [task[c] EXCEPT !.ops = Tail(task[c].ops)]
             w == IF op.type = "put"
                    THEN [keys |-> {op.key}, val |-> op.val, lease |-> op.lease]
                    ELSE [keys |-> LiteralKeys(op.key, op.val), val |-> None, lease |-> 0]
  <1>1. /\ task[c] \in TaskType /\ Handled(task[c]) /\ task[c].pc \in TxnPc
        /\ task[c].ops # <<>> /\ task' = [task EXCEPT ![c] = k]
        /\ UNCHANGED <<raftVars, nodeVars, since, led>>
    BY DEF TxnOperation, KvInv, TaskInv, TxnPc
  <1>2. task[c].node \in led
    BY <1>1 DEF Handled, TxnPc
  <1>3. task[c].ops \in Seq(TxnOp)
    BY <1>1 DEF TaskType
  <1>4. op \in TxnOp /\ Tail(task[c].ops) \in Seq(TxnOp)
    BY <1>1, <1>3
  <1>5. k \in TaskType /\ k.pc \in TxnPc /\ k.node = task[c].node
    <2>1. PICK x \in TaskType : x = task[c]
      BY <1>1
    <2>2. PICK y \in Seq(TxnOp) : y = Tail(task[c].ops)
      BY <1>4
    <2>3. [x EXCEPT !.ops = y] \in TaskType
      BY DEF TaskType
    <2> QED
      BY <1>1, <2>1, <2>2, <2>3 DEF TaskType
  <1>6. w \in WriteType
    <2>1. op.key \in StoreKey /\ op.val \in Text /\ op.lease \in Nat
      BY <1>4 DEF TxnOp, StoreKey
    <2> HIDE DEF op
    <2>2. CASE op.type = "put"
      BY <2>1, <2>2 DEF WriteType, WriteRecord
    <2>3. CASE op.type # "put"
      BY <2>1, <2>3, LiteralKeysType DEF WriteType, WriteRecord
    <2> QED
      BY <2>2, <2>3
  <1>7. (op.type = "range" /\ UNCHANGED <<store, executed, since>>) \/ Execute(task[c].node, w, 0)
    BY DEF TxnOperation
  <1> HIDE DEF k, w, op
  <1>8. Handled(k) /\ k.pc \notin {"propose", "append"}
    BY <1>2, <1>5 DEF Handled, TxnPc, WritePc
  <1>9. CASE UNCHANGED <<store, executed, since>>
    BY <1>1, <1>5, <1>8, <1>9, HandlerStep
  <1>10. CASE Execute(task[c].node, w, 0)
    <2>1. 0 \in 0..MaxLog /\ 0 <= committed
      BY BoundsNat, IndexTypes
    <2> QED
      BY <1>1, <1>2, <1>5, <1>6, <1>8, <1>10, <2>1, StoreStep
  <1> QED
    BY <1>7, <1>9, <1>10

\* A transaction answers.
LEMMA TxnAnswerInv == ASSUME KvInv, NEW c \in Client, TxnAnswer(c) PROVE KvInv'
  BY ReturnInv DEF TxnAnswer

\* compact changes the leader's index, and no revision.
LEMMA CompactInv ==
  ASSUME KvInv, NEW c \in Client, NEW n \in Node, NEW r, Compact(c, n, r)
  PROVE  KvInv'
  <1>1. n \in led /\ store' = [store EXCEPT ![n] = StoreCompact(store[n], r)]
    BY NameAssumption DEF Compact, Serves, KvInv, LeadInv
  <1>2. UNCHANGED <<log, last, committed, leader, commit, applied, channel, applier, task,
                    executed, since, led>>
    BY DEF Compact, raftVars, nodeVars
  <1>3. store \in [Node -> StoreType]
    BY DEF KvInv, StoreInv
  <1>4. StoreCompact(store[n], r) \in StoreType
    <2>1. PICK x \in StoreType : x = store[n]
      BY <1>3
    <2> DEFINE live == {k \in x.indexed : x.kv[k] # None /\ x.kv[k].mod >= r}
    <2>2. live \in SUBSET StoreKey
      BY DEF StoreType
    <2>3. StoreCompact(x, r) = [x EXCEPT !.indexed = live]
      BY DEF StoreCompact
    <2> HIDE DEF live
    <2> QED
      BY <2>1, <2>2, <2>3 DEF StoreType
  <1>5. StoreInv' /\ ExecutedInv'
    BY <1>1, <1>2, <1>3, <1>4 DEF KvInv, StoreInv, ExecutedInv
  <1>6. StepInv'
    BY <1>1, <1>2, <1>3, StepOthers
  <1> QED
    BY <1>2, <1>5, <1>6, Untouched DEF KvInv

-----------------------------------------------------------------------------
\* Every step keeps the invariant.
LEMMA NextInv == KvInv /\ [Next]_vars => KvInv'
  <1> SUFFICES ASSUME KvInv, [Next]_vars PROVE KvInv'
    OBVIOUS
  <1>1. ASSUME NEW n \in Node,
               Elect(n) \/ LearnCommit(n) \/ ApplyTick(n) \/ TakeNext(n) \/ Restart(n)
        PROVE  KvInv'
    BY <1>1, ElectInv, LearnCommitInv, ApplyTickInv, TakeAsLeaderInv, TakeAsFollowerInv,
       TakePanicsInv, RestartInv DEF TakeNext
  <1>2. ASSUME NEW c \in Client, RequestNext(c) PROVE KvInv'
    BY <1>2, PutRequestInv, DeleteRequestInv, TxnRequestInv, CompactInv DEF RequestNext
  <1>3. ASSUME NEW c \in Client, HandlerNext(c) PROVE KvInv'
    BY <1>3, ProposeReadInv, ProposeAppendInv, ProposeRefusedInv, CheckInv, RegisterInv,
       WriteInv, WritePanicsInv, TxnOperationInv, TxnAnswerInv DEF HandlerNext
  <1>4. CASE UNCHANGED vars
    BY <1>4, Untouched DEF vars, raftVars, nodeVars, KvInv
  <1> QED
    BY <1>1, <1>2, <1>3, <1>4, StepDownInv, CommitInv, AbandonInv DEF Next

\* The indices of every node, its channel, its store and the handlers have the
\* types the code declares, and a proposal has room in the log.
THEOREM TypeCorrect == Spec => []TypeOK
  BY InitInv, NextInv, InvGivesType, PTL DEF Spec

\* A node that has not led since it started has performed since then the
\* committed entries in the order of the log, each once, and its revision counts
\* them, with any number of elections, restarts and overlapping proposals.
THEOREM FollowersStayInStep == Spec => []FollowersInStep
  BY InitInv, NextInv, InvGivesInStep, PTL DEF Spec

-----------------------------------------------------------------------------
(***************************************************************************)
(* The cluster implements ReplicatedStore while one leader reigns and      *)
(* requests say what a proposal can carry: keys without a colon, text that *)
(* is UTF-8, no leases, no range from a key on or that ends before it, no  *)
(* transactions; and while no two handlers are between last_index() and    *)
(* append().  Each of these is needed: KvDiverges.cfg lists a              *)
(* counterexample without it.                                              *)
(***************************************************************************)
OneReign == MaxElections <= 1

Plain ==
  /\ Binary = {} /\ Lease = {0} /\ Txn = {} /\ FromKey \notin RangeEnd
  /\ \A k \in Key : \E x \in Nat : k = <<x>>
  /\ \A end \in RangeEnd, k \in Key : end = One \/ ~ Before(end, k)

\* The leader's handlers propose one after the other.
NoOverlap == MaxProposing <= 1

\* A client that is alone gives no request up.
Patient == Cardinality(Client) = 1 => MaxAbandons = 0

\* What a proposal can carry.
PlainOp(op) ==
  /\ op.lease = 0
  /\ op.type = "delete" => op.val # FromKey /\ (op.val = One \/ ~ Before(op.val, op.key))

\* A key of one part, and what follows it in a proposal.
LEMMA SplitOnce ==
  ASSUME NEW x \in Nat, NEW v \in Text
  PROVE  /\ <<x>> \o v \in Text /\ (<<x>> \o v)[1] = x
         /\ Tail(<<x>> \o v) = v
  <1> DEFINE d == <<x>> \o v
  <1>1. <<x>> \in Seq(Nat) /\ v \in Seq(Nat) /\ Len(v) \in Nat
    BY DEF Text
  <1>2. d \in Seq(Nat) /\ Len(d) = 1 + Len(v)
        /\ d[1] = x /\ \A i \in 1..Len(v) : d[i + 1] = v[i]
    BY <1>1
  <1> HIDE DEF d
  <1>3. d # <<>>
    BY <1>1, <1>2, EmptySeq
  <1>4. Tail(d) \in Seq(Nat) /\ Len(Tail(d)) = Len(v)
        /\ \A i \in 1..Len(v) : Tail(d)[i] = v[i]
    <2>1. d \in Seq(Nat) /\ d # <<>>
      BY <1>2, <1>3
    <2>2. PICK q : q = Tail(d)
      OBVIOUS
    <2>3. q \in Seq(Nat) /\ Len(q) = Len(d) - 1 /\ \A i \in 1..Len(q) : q[i] = d[i + 1]
      BY <2>1, <2>2, HeadTailProperties
    <2>4. Len(q) = Len(v)
      BY <1>1, <1>2, <2>3
    <2> QED
      BY <1>2, <2>2, <2>3, <2>4
  <1>5. Tail(d) = v
    BY <1>1, <1>4, SeqEqual
  <1> QED
    BY <1>2, <1>5 DEF d, Text

\* A follower reads in the proposal what the leader's handler does.
LEMMA ReadsAsWritten ==
  ASSUME Plain, NEW op \in Op, PlainOp(op)
  PROVE  Decode(Encode(op)) = Requested(op)
  <1> DEFINE d == op.key \o op.val
  <1>1. PICK x \in Nat : op.key = <<x>>
    BY DEF Op, Plain
  <1>2. op.val \in Text /\ op.type \in {"put", "delete"} /\ d \in Text
    BY <1>1, SplitOnce DEF Op
  <1>3. Lossy(d) = d
    <2> HIDE DEF d
    <2>1. \A i \in 1..Len(d) : Lossy(d)[i] = d[i]
      BY <1>2, LossyType DEF Plain
    <2> QED
      BY <1>2, <2>1, LossyType, SeqEqual DEF Text
  <1>4. <<d[1]>> = op.key /\ Tail(d) = op.val
    BY <1>1, <1>2, SplitOnce
  <1>5. Encode(op).type = op.type /\ Encode(op).data = d
    BY <1>3 DEF Encode
  <1> HIDE DEF d
  <1>6. CASE op.type = "put"
    BY <1>4, <1>5, <1>6 DEF Decode, Requested, PlainOp
  <1>7. CASE op.type = "delete"
    <2>1. RequestedKeys(op.key, op.val) = LiteralKeys(op.key, op.val)
      BY <1>7 DEF RequestedKeys, PlainOp
    <2> QED
      BY <1>4, <1>5, <1>7, <2>1 DEF Decode, Requested
  <1> QED
    BY <1>2, <1>6, <1>7

-----------------------------------------------------------------------------
(* The invariant of one reign *)

PlacedPc == {"check", "register", "wait", "write"}

\* There is one leader, or none has been elected and nothing was proposed.
Reign ==
  /\ last = Len(log)
  /\ \/ leader \in Node /\ elections = 1 /\ led = {leader} /\ since[leader] = 0
     \/ /\ leader = Nobody /\ elections = 0 /\ led = {} /\ log = <<>>
        /\ \A n \in Node : executed[n] = <<>> /\ since[n] = 0

NoLeases ==
  \A n \in Node : \A k \in StoreKey : store[n].kv[k] # None => store[n].kv[k].lease = 0

\* Whether node n has told its store the entry at index i since it started.
Has(n, i) == \E p \in (since[n] + 1)..Len(executed[n]) : executed[n][p].at = i

\* One handler at a time is about to append, where the log ends.
OneAppends ==
  \A c \in Client : task[c].pc = "append" =>
    task[c].at = Len(log) + 1 /\ \A d \in Client \ {c} : task[d].pc # "append"

\* A handler's entry is at its index, and the leader's store does not have it.
Placed ==
  \A c \in Client :
    /\ task[c].pc \notin TxnPc
    /\ task[c].pc \in WritePc => task[c].node = leader /\ PlainOp(task[c].op)
    /\ task[c].pc \in PlacedPc =>
         /\ task[c].at \in 1..Len(log) /\ log[task[c].at] = Encode(task[c].op)
         /\ ~ Has(leader, task[c].at)
         /\ \A d \in Client \ {c} : task[d].pc \in PlacedPc => task[d].at # task[c].at

\* One client alone: the leader's store is level with the log, or its one
\* handler has the last entry in hand.
Alone ==
  \A c \in Client : Client = {c} /\ leader \in Node =>
    /\ task[c].pc \in PlacedPc =>
         task[c].at = Len(log) /\ Len(executed[leader]) + 1 = Len(log)
    /\ task[c].pc \notin PlacedPc => Len(executed[leader]) = Len(log)

ReignInv ==
  KvInv /\ abandons \in Nat /\ Reign /\ NoLeases /\ OneAppends /\ Placed /\ Alone

\* Before the one reign nothing is led, logged or done.
LEMMA ReignInit == Init => ReignInv
  <1> SUFFICES ASSUME Init PROVE ReignInv
    OBVIOUS
  <1>1. Reign /\ abandons \in Nat
    BY DEF Init, Reign
  <1>2. NoLeases
    BY DEF Init, NoLeases, EmptyStore
  <1>3. Placed
    BY IdleType DEF Init, Placed, TxnPc, WritePc, PlacedPc
  <1>4. Alone
    BY NameAssumption DEF Init, Alone
  <1>5. OneAppends
    BY IdleType DEF Init, OneAppends
  <1> QED
    BY <1>1, <1>2, <1>3, <1>4, <1>5, InitInv DEF ReignInv

\* The steps a reign consists of: what they do to its invariant.  First, the
\* steps that move no handler and perform nothing.
LEMMA ReignQuiet ==
  ASSUME ReignInv, KvInv',
         UNCHANGED <<log, last, leader, elections, abandons, led, executed, since, task>>,
         NoLeases'
  PROVE  ReignInv'
  <1>1. Reign'
    BY DEF ReignInv, Reign
  <1>2. Placed'
    BY DEF ReignInv, Placed, Has
  <1>3. Alone' /\ OneAppends'
    BY DEF ReignInv, Alone, OneAppends
  <1> QED
    BY <1>1, <1>2, <1>3 DEF ReignInv

\* Waking a handler changes nothing of it but where it is.
LEMMA ReignWoken ==
  ASSUME ReignInv, KvInv', NEW n, NEW index, task' = Woken(n, index),
         UNCHANGED <<log, last, leader, elections, abandons, led, executed, since, store>>
  PROVE  ReignInv'
  <1>1. Reign' /\ NoLeases' /\ abandons' \in Nat
    BY DEF ReignInv, Reign, NoLeases
  <1>2. ASSUME NEW c \in Client
        PROVE  /\ task'[c].node = task[c].node /\ task'[c].op = task[c].op
               /\ task'[c].at = task[c].at
               /\ task'[c].pc \in PlacedPc <=> task[c].pc \in PlacedPc
               /\ task'[c].pc \in WritePc <=> task[c].pc \in WritePc
               /\ task'[c].pc \in TxnPc <=> task[c].pc \in TxnPc
               /\ task'[c].pc = "append" <=> task[c].pc = "append"
    <2>1. task[c] \in TaskType
      BY DEF ReignInv, KvInv, TaskInv
    <2>2. CASE task[c].pc = "wait" /\ task[c].node = n /\ task[c].at <= index
      <3>1. task'[c] = [task[c] EXCEPT !.pc = "write"]
        BY <2>2 DEF Woken
      <3> QED
        BY <2>1, <2>2, <3>1 DEF TaskType, PlacedPc, WritePc, TxnPc
    <2>3. CASE ~ (task[c].pc = "wait" /\ task[c].node = n /\ task[c].at <= index)
      <3>1. task'[c] = task[c]
        BY <2>3 DEF Woken
      <3> QED
        BY <3>1
    <2> QED
      BY <2>2, <2>3
  <1>3. Placed'
    BY <1>2 DEF ReignInv, Placed, Has
  <1>4. Alone' /\ OneAppends'
    BY <1>2 DEF ReignInv, Alone, OneAppends
  <1> QED
    BY <1>1, <1>3, <1>4 DEF ReignInv

\* A handler moves on, with its proposal and its index.
LEMMA ReignMove ==
  ASSUME ReignInv, KvInv', NEW c \in Client,
         NEW k \in TaskType, task' = [task EXCEPT ![c] = k],
         k.pc \notin TxnPc, k.pc # "append", k.pc \in WritePc => k.node = leader /\ PlainOp(k.op),
         k.pc \in PlacedPc <=> task[c].pc \in PlacedPc,
         k.pc \in PlacedPc => k.at = task[c].at /\ k.op = task[c].op,
         UNCHANGED <<log, last, leader, elections, led, executed, since, store>>, abandons' \in Nat
  PROVE  ReignInv'
  <1>1. Reign' /\ NoLeases'
    BY DEF ReignInv, Reign, NoLeases
  <1>2. task \in [Client -> TaskType]
    BY DEF ReignInv, KvInv, TaskInv
  <1>3. task'[c] = k /\ \A d \in Client \ {c} : task'[d] = task[d]
    BY <1>2
  <1>4. Placed'
    BY <1>3 DEF ReignInv, Placed, Has
  <1>5. Alone' /\ OneAppends'
    BY <1>3 DEF ReignInv, Alone, OneAppends
  <1> QED
    BY <1>1, <1>4, <1>5 DEF ReignInv

\* Idle handlers only, when nobody leads.
LEMMA LeaderlessIdle ==
  ASSUME ReignInv, leader = Nobody, NEW c \in Client
  PROVE  task[c].pc = "idle"
  BY NameAssumption DEF ReignInv, Reign, KvInv, TaskInv, Handled

\* The one election.
LEMMA ReignElect ==
  ASSUME OneReign, ReignInv, KvInv', NEW n \in Node, Elect(n)
  PROVE  ReignInv' /\ leader = Nobody
  <1>1. leader = Nobody /\ elections = 0 /\ led = {} /\ log = <<>>
        /\ \A m \in Node : executed[m] = <<>> /\ since[m] = 0
    BY BoundsNat DEF OneReign, ReignInv, Reign, Elect
  <1>2. leader' = n /\ led' = {n} /\ elections' = 1
        /\ UNCHANGED <<committed, store, task, abandons, executed, since>>
    BY <1>1 DEF Elect
  <1>3. log' = <<>> /\ last' = Len(log')
    <2>1. PICK len \in committed..Len(log) : log' = SubSeq(log, 1, len) /\ last' = len
      BY DEF Elect
    <2>2. len = 0
      BY <1>1, <2>1, IndexTypes DEF ReignInv
    <2> QED
      BY <1>1, <2>1, <2>2
  <1>4. Reign'
    BY <1>1, <1>2, <1>3 DEF Reign
  <1>5. NoLeases' /\ abandons' \in Nat
    BY <1>2 DEF ReignInv, NoLeases
  <1>6. Placed'
    BY <1>1, <1>2, LeaderlessIdle DEF Placed, TxnPc, WritePc, PlacedPc
  <1>7. Alone' /\ OneAppends'
    BY <1>1, <1>2, <1>3, LeaderlessIdle DEF Alone, OneAppends, PlacedPc
  <1> QED
    BY <1>1, <1>4, <1>5, <1>6, <1>7 DEF ReignInv

\* Writes without a lease leave no lease behind.
LEMMA PerformNoLeases ==
  ASSUME NEW s \in StoreType, NEW w \in WriteType, w.lease = 0,
         \A k \in StoreKey : s.kv[k] # None => s.kv[k].lease = 0,
         NEW j \in StoreKey, Perform(s, w).kv[j] # None
  PROVE  Perform(s, w).kv[j].lease = 0
  <1>1. CASE w.val = None
    <2> DEFINE found == {k \in w.keys \cap s.indexed : s.kv[k] # None}
    <2>1. Perform(s, w) =
            [s EXCEPT !.rev = s.rev + 1, !.indexed = s.indexed \ found,
                      !.kv = [k \in StoreKey |-> IF k \in found THEN None ELSE s.kv[k]]]
      BY <1>1 DEF Perform, StoreDelete
    <2> HIDE DEF found
    <2>2. Perform(s, w).kv = [k \in StoreKey |-> IF k \in found THEN None ELSE s.kv[k]]
      BY <2>1 DEF StoreType
    <2> QED
      BY <2>2
  <1>2. CASE w.val # None
    <2> DEFINE key == CHOOSE k \in w.keys : TRUE
               old == s.kv[key]
               kv == [val |-> w.val, lease |-> w.lease, mod |-> s.rev + 1,
                      create |-> IF old = None THEN s.rev + 1 ELSE old.create,
                      version |-> IF old = None THEN 1 ELSE old.version + 1]
    <2>1. Perform(s, w).kv = [s.kv EXCEPT ![key] = kv]
      BY <1>2 DEF Perform, StorePut
    <2>2. kv.lease = 0
      OBVIOUS
    <2>3. s.kv \in [StoreKey -> KvRecord \cup {None}]
      BY DEF StoreType
    <2> HIDE DEF key, kv
    <2>4. Perform(s, w).kv[j] = kv \/ Perform(s, w).kv[j] = s.kv[j]
      BY <2>1, <2>3
    <2> QED
      BY <2>2, <2>4
  <1> QED
    BY <1>1, <1>2

\* A write without a lease attaches none.
LEMMA ExecuteNoLeases ==
  ASSUME ReignInv, NEW n \in Node, NEW w \in WriteType, w.lease = 0, NEW at, Execute(n, w, at)
  PROVE  NoLeases'
  <1> SUFFICES ASSUME NEW m \in Node, NEW j \in StoreKey, store'[m].kv[j] # None
               PROVE  store'[m].kv[j].lease = 0
    BY DEF NoLeases
  <1>1. store \in [Node -> StoreType]
    BY DEF ReignInv, KvInv, StoreInv
  <1>2. CASE m = n
    <2>1. store'[m] = Perform(store[n], w) /\ store[n] \in StoreType
      BY <1>1, <1>2 DEF Execute
    <2>2. \A k \in StoreKey : store[n].kv[k] # None => store[n].kv[k].lease = 0
      BY DEF ReignInv, NoLeases
    <2> QED
      BY <2>1, <2>2, PerformNoLeases
  <1>3. CASE m # n
    BY <1>1, <1>3 DEF Execute, ReignInv, NoLeases
  <1> QED
    BY <1>2, <1>3

\* A follower's step does not touch the leader.
LEMMA ReignFollower ==
  ASSUME ReignInv, KvInv', NEW n \in Node, TakeAsFollower(n)
  PROVE  ReignInv'
  <1> DEFINE at == Head(channel[n])
             w == Decode(log[at])
  <1>1. UNCHANGED <<log, last, committed, leader, task, led, elections, abandons, since>>
        /\ channel[n] # <<>> /\ leader # n /\ Execute(n, w, at)
    BY DEF TakeAsFollower, raftVars, boundVars, Skips
  <1>2. at \in 1..Len(log) /\ log \in Seq(EntryType)
    BY <1>1, HeadOfChannel DEF ReignInv, KvInv, LogInv
  <1>3. w \in WriteType /\ w.lease = 0
    <2>1. log[at] \in EntryType
      BY <1>2
    <2>2. w.lease = 0
      BY DEF Decode
    <2> QED
      BY <2>1, <2>2, DecodeType
  <1> HIDE DEF w, at
  <1>4. NoLeases'
    BY <1>1, <1>3, ExecuteNoLeases
  <1>5. leader \in Node
    <2>1. log # <<>>
      BY <1>2
    <2> QED
      BY <2>1 DEF ReignInv, Reign
  <1>6. Reign' /\ executed'[leader] = executed[leader]
    BY <1>1, <1>5, NameAssumption DEF ReignInv, Reign, Execute, KvInv, StoreInv
  <1>7. Placed'
    BY <1>1, <1>6 DEF ReignInv, Placed, Has
  <1>8. Alone' /\ OneAppends'
    BY <1>1, <1>6 DEF ReignInv, Alone, OneAppends
  <1> QED
    BY <1>1, <1>4, <1>6, <1>7, <1>8 DEF ReignInv

\* The leader does not restart, for none would be elected after it.
LEMMA ReignRestart ==
  ASSUME OneReign, ReignInv, KvInv', NEW n \in Node, Restart(n)
  PROVE  ReignInv' /\ leader # n
  <1>1. leader # n
    BY BoundsNat, NameAssumption DEF OneReign, ReignInv, Reign, Restart
  <1>2. /\ UNCHANGED <<log, last, elections, abandons, leader, executed>>
        /\ led' = led \ {n}
        /\ store' = [store EXCEPT ![n] = Reopened(store[n])]
        /\ since' = [since EXCEPT ![n] = Len(executed[n])]
        /\ task' = [c \in Client |-> IF task[c].node = n THEN Idle ELSE task[c]]
    BY <1>1 DEF Restart
  <1>3. store \in [Node -> StoreType] /\ executed \in [Node -> Seq(ExecutedType)]
        /\ since \in [Node -> Nat]
    BY DEF ReignInv, KvInv, StoreInv
  <1>4. Reign'
    BY <1>1, <1>2, <1>3 DEF ReignInv, Reign
  <1>5. NoLeases'
    <2> SUFFICES ASSUME NEW m \in Node, NEW k \in StoreKey, store'[m].kv[k] # None
                 PROVE  store'[m].kv[k].lease = 0
      BY DEF NoLeases
    <2>1. store'[m].kv = store[m].kv
      BY <1>2, <1>3 DEF Reopened
    <2> QED
      BY <2>1 DEF ReignInv, NoLeases
  <1>6. ASSUME NEW c \in Client
        PROVE  /\ task'[c].pc = task[c].pc
               /\ task[c].pc \in WritePc => task'[c] = task[c]
    <2>1. CASE task[c].node = n
      <3>1. task[c] \in TaskType /\ task[c].pc \notin TxnPc /\ task[c].pc \notin WritePc
        BY <1>1, <2>1 DEF ReignInv, Placed, KvInv, TaskInv
      <3>2. task[c].pc = "idle"
        BY <3>1 DEF TaskType
      <3> QED
        BY <1>2, <2>1, <3>1, <3>2, IdleType
    <2>2. CASE task[c].node # n
      BY <1>2, <2>2
    <2> QED
      BY <2>1, <2>2
  <1>7. leader \in Node => since'[leader] = since[leader]
    BY <1>1, <1>2, <1>3
  <1>8. PlacedPc \subseteq WritePc
    BY DEF PlacedPc, WritePc
  <1>9. Placed'
    <2> SUFFICES ASSUME NEW c \in Client PROVE
          /\ task'[c].pc \notin TxnPc
          /\ task'[c].pc \in WritePc => task'[c].node = leader /\ PlainOp(task'[c].op)
          /\ task'[c].pc \in PlacedPc =>
               /\ task'[c].at \in 1..Len(log) /\ log[task'[c].at] = Encode(task'[c].op)
               /\ ~ Has(leader, task[c].at)'
               /\ \A d \in Client \ {c} : task'[d].pc \in PlacedPc => task'[d].at # task'[c].at
      BY <1>2 DEF Placed, Has
    <2>1. task[c].pc \in WritePc => leader \in Node
      BY <1>6, LeaderlessIdle DEF ReignInv, Reign, WritePc
    <2> QED
      BY <1>2, <1>6, <1>7, <1>8, <2>1 DEF ReignInv, Placed, Has
  <1>10. Alone'
    BY <1>2, <1>6, <1>8 DEF ReignInv, Alone
  <1>11. OneAppends'
    BY <1>2, <1>6 DEF ReignInv, OneAppends, WritePc
  <1> QED
    BY <1>1, <1>2, <1>4, <1>5, <1>9, <1>10, <1>11 DEF ReignInv

\* A request that a proposal can carry begins.
LEMMA ReignBegin ==
  ASSUME ReignInv, KvInv', NEW c \in Client, NEW n \in Node, NEW op \in Op, PlainOp(op),
         Serves(c, n), Begin(c, n, op)
  PROVE  ReignInv'
  <1> DEFINE k == [Idle EXCEPT !.pc = "propose", !.node = n, !.op = op]
  <1>1. task' = [task EXCEPT ![c] = k] /\ leader = n /\ task[c].pc = "idle"
        /\ UNCHANGED <<log, last, leader, elections, led, executed, since, store, abandons>>
    BY IdleType DEF Begin, Serves, raftVars, nodeVars, boundVars
  <1>2. k \in TaskType /\ k.pc = "propose" /\ k.node = n /\ k.op = op
    BY IdleType DEF TaskType, WritePc
  <1> HIDE DEF k
  <1>3. abandons' \in Nat
    BY <1>1 DEF ReignInv
  <1> QED
    BY <1>1, <1>2, <1>3, ReignMove DEF TxnPc, WritePc, PlacedPc

\* A put of a plain key and value is one.
LEMMA ReignPut ==
  ASSUME Plain, ReignInv, KvInv', NEW c \in Client, NEW n \in Node, NEW key \in Key,
         NEW val \in Value, NEW lease \in Lease, NEW flags,
         PutRequest(c, n, key, val, lease, flags)
  PROVE  ReignInv'
  <1> DEFINE old == store[n].kv[key]
             found == Found(store[n], key)
             v == IF "ignore_value" \in flags
                    THEN IF found THEN old["val"] ELSE <<EmptyPart>> ELSE val
             l == IF "ignore_lease" \in flags
                    THEN IF found THEN old["lease"] ELSE 0 ELSE lease
             op == [type |-> "put", by |-> c, key |-> key, val |-> v, lease |-> l]
  <1>1. Serves(c, n) /\ Begin(c, n, op)
    BY DEF PutRequest
  <1>2. key \in StoreKey
    BY DEF StoreKey
  <1>3. found => old \in KvRecord /\ old.lease = 0
    <2>1. store[n] \in StoreType
      BY DEF ReignInv, KvInv, StoreInv
    <2> QED
      BY <1>2, <2>1 DEF Found, StoreType, ReignInv, NoLeases
  <1>4. val \in Text /\ lease = 0 /\ <<EmptyPart>> \in Text
    BY TextAssumption DEF Text, EmptyPart, Plain
  <1>5. ASSUME found PROVE old["val"] \in Text /\ old["lease"] = 0
    BY <1>3, <1>5 DEF KvRecord
  <1> HIDE DEF old, found
  <1>6. v \in Text /\ l = 0
    BY <1>4, <1>5
  <1> HIDE DEF v, l
  <1>7. op \in Op /\ PlainOp(op)
    BY <1>6 DEF Op, PlainOp
  <1> QED
    BY <1>1, <1>7, ReignBegin

\* So is a delete of a plain range.
LEMMA ReignDelete ==
  ASSUME Plain, ReignInv, KvInv', NEW c \in Client, NEW n \in Node, NEW key \in Key,
         NEW end \in RangeEnd, DeleteRequest(c, n, key, end)
  PROVE  ReignInv'
  <1> DEFINE op == [type |-> "delete", by |-> c, key |-> key, val |-> end, lease |-> 0]
  <1>1. op \in Op /\ PlainOp(op)
    BY TextAssumption DEF Op, Text, Plain, PlainOp
  <1> QED
    BY <1>1, ReignBegin DEF DeleteRequest

\* A proposal takes the first free index.
LEMMA ReignRead ==
  ASSUME NoOverlap, ReignInv, KvInv', NEW c \in Client, ProposeRead(c)
  PROVE  ReignInv'
  <1>1. /\ task[c] \in TaskType /\ task[c].pc = "propose" /\ task[c].node = leader
        /\ PlainOp(task[c].op) /\ task \in [Client -> TaskType]
    BY DEF ProposeRead, ReignInv, Placed, KvInv, TaskInv, WritePc
  <1>2. /\ Cardinality(Appending(leader)) < MaxProposing
        /\ UNCHANGED <<log, last, leader, elections, abandons, led, executed, since, store>>
    BY <1>1 DEF ProposeRead, raftVars, nodeVars, boundVars
  <1>3. PICK k : k = [task[c] EXCEPT !.pc = "append", !.at = last + 1]
    OBVIOUS
  <1>4. k.pc = "append" /\ k.node = leader /\ k.op = task[c].op /\ k.at = Len(log) + 1
    BY <1>1, <1>3 DEF TaskType, ReignInv, Reign
  <1>5. task'[c] = k /\ \A d \in Client \ {c} : task'[d] = task[d]
    BY <1>1, <1>3 DEF ProposeRead
  <1>6. ASSUME NEW d \in Client, task[d].pc = "append" PROVE FALSE
    <2>1. d \in Appending(leader)
      BY <1>6 DEF Appending, ReignInv, Placed, WritePc
    <2>2. IsFiniteSet(Appending(leader))
      BY NameAssumption, FS_Subset DEF Appending
    <2>3. Cardinality(Appending(leader)) \in Nat /\ Cardinality(Appending(leader)) # 0
      BY <2>1, <2>2, FS_CardinalityType, FS_EmptySet
    <2> QED
      BY <1>2, <2>3, BoundsNat DEF NoOverlap
  <1>7. OneAppends'
    BY <1>2, <1>4, <1>5, <1>6 DEF OneAppends
  <1>8. Reign' /\ NoLeases' /\ abandons' \in Nat
    BY <1>2 DEF ReignInv, Reign, NoLeases
  <1>9. Placed'
    BY <1>1, <1>2, <1>4, <1>5 DEF ReignInv, Placed, Has, PlacedPc, TxnPc
  <1>10. Alone'
    BY <1>1, <1>2, <1>4, <1>5 DEF ReignInv, Alone, PlacedPc
  <1> QED
    BY <1>7, <1>8, <1>9, <1>10 DEF ReignInv

\* What one handler appends comes to stand at the index it took.
LEMMA ReignAppended ==
  ASSUME ReignInv, NEW c \in Client, ProposeAppend(c)
  PROVE  /\ task[c] \in TaskType /\ task[c].op \in Op /\ task[c].pc = "append"
         /\ task[c].node = leader /\ PlainOp(task[c].op) /\ leader \in Node
         /\ task[c].at = Len(log) + 1 /\ Encode(task[c].op) \in EntryType
         /\ log' = Append(log, Encode(task[c].op)) /\ last' = Len(log) + 1
         /\ committed' \in {committed, Len(log) + 1}
  <1>1. /\ task[c] \in TaskType /\ task[c].op \in Op /\ task[c].pc = "append"
        /\ task[c].node = leader /\ PlainOp(task[c].op) /\ leader \in Node
        /\ task[c].at = Len(log) + 1
    BY NameAssumption
    DEF ProposeAppend, ReignInv, Placed, OneAppends, KvInv, TaskInv, Handled, WritePc,
        LeadInv, Reign
  <1>2. Len(log) \in Nat /\ Encode(task[c].op) \in EntryType
    BY <1>1, EncodeType DEF ReignInv, KvInv, LogInv
  <1>3. log' = Append(log, Encode(task[c].op))
    <2>1. Appended(leader, Len(log) + 1, Encode(task[c].op)) = {Append(log, Encode(task[c].op))}
      BY <1>2 DEF Appended
    <2> QED
      BY <1>1, <2>1 DEF ProposeAppend
  <1>4. last' = Len(log) + 1 /\ committed' \in {committed, Len(log) + 1}
    BY <1>1, <1>2 DEF ProposeAppend
  <1> QED
    BY <1>1, <1>2, <1>3, <1>4

\* It is an index that no store has.
LEMMA ReignAppend ==
  ASSUME ReignInv, KvInv', NEW c \in Client, ProposeAppend(c)
  PROVE  ReignInv'
  <1> DEFINE k == [task[c] EXCEPT !.pc = "check"]
  <1>1. /\ task[c] \in TaskType /\ task[c].op \in Op /\ task[c].pc = "append"
        /\ task[c].node = leader /\ PlainOp(task[c].op) /\ leader \in Node
        /\ task \in [Client -> TaskType] /\ task[c].at = Len(log) + 1
    BY ReignAppended DEF ReignInv, KvInv, TaskInv
  <1>2. log \in Seq(EntryType) /\ Len(log) \in Nat /\ Encode(task[c].op) \in EntryType
    BY <1>1, EncodeType DEF ReignInv, KvInv, LogInv
  <1>3. /\ log' = Append(log, Encode(task[c].op)) /\ Len(log') = Len(log) + 1
        /\ log'[Len(log) + 1] = Encode(task[c].op)
        /\ \A i \in 1..Len(log) : log'[i] = log[i]
    BY <1>2, ReignAppended
  <1>4. /\ task' = [task EXCEPT ![c] = k] /\ last' = Len(log')
        /\ UNCHANGED <<leader, store, executed, since, led, elections, abandons>>
    BY <1>3, ReignAppended DEF ProposeAppend, boundVars
  <1>5. k.pc = "check" /\ k.node = leader /\ k.op = task[c].op /\ k.at = Len(log) + 1
    BY <1>1 DEF TaskType
  <1> HIDE DEF k
  <1>6. task'[c] = k /\ \A d \in Client \ {c} : task'[d] = task[d]
    BY <1>1, <1>4
  <1>7. ~ Has(leader, Len(log) + 1)
    <2> SUFFICES ASSUME NEW p \in (since[leader] + 1)..Len(executed[leader]),
                        executed[leader][p].at = Len(log) + 1
                 PROVE  FALSE
      BY DEF Has
    <2>1. p \in DOMAIN executed[leader]
      BY <1>1 DEF ReignInv, KvInv, StoreInv
    <2>2. executed[leader][p].at <= committed
      BY <1>1, <2>1 DEF ReignInv, KvInv, ExecutedInv
    <2> QED
      BY <1>2, <2>2, IndexTypes DEF ReignInv
  <1>8. Reign' /\ NoLeases' /\ abandons' \in Nat
    BY <1>1, <1>4, NameAssumption DEF ReignInv, Reign, NoLeases
  <1>9. Placed'
    <2>1. ASSUME NEW d \in Client, d # c, task[d].pc \in PlacedPc
          PROVE  /\ task[d].at \in 1..Len(log') /\ log'[task[d].at] = Encode(task[d].op)
                 /\ ~ Has(leader, task[d].at)
                 /\ task[d].at # Len(log) + 1
      BY <1>2, <1>3, <2>1 DEF ReignInv, Placed
    <2>2. ASSUME NEW x PROVE Has(leader, x)' = Has(leader, x)
      BY <1>4 DEF Has
    <2>3. Len(log) + 1 \in 1..Len(log')
      BY <1>2, <1>3
    <2>4. ASSUME NEW d \in Client
          PROVE  /\ task'[d].pc \notin TxnPc
                 /\ task'[d].pc \in WritePc => task'[d].node = leader' /\ PlainOp(task'[d].op)
                 /\ task'[d].pc \in PlacedPc =>
                      /\ task'[d].at \in 1..Len(log')
                      /\ log'[task'[d].at] = Encode(task'[d].op)
                      /\ ~ Has(leader, task[d].at)'
                      /\ \A b \in Client \ {d} :
                           task'[b].pc \in PlacedPc => task'[b].at # task'[d].at
      <3>1. CASE d = c
        <4>1. ~ Has(leader, task[c].at)'
          BY <1>4, <1>5, <1>6, <1>7 DEF Has
        <4> QED
          BY <1>1, <1>3, <1>4, <1>5, <1>6, <2>1, <2>3, <3>1, <4>1 DEF TxnPc
      <3>2. CASE d # c
        <4>1. task[d].pc \in PlacedPc => ~ Has(leader, task[d].at)'
          BY <1>4, <1>6, <2>1, <3>2 DEF Has
        <4>2. ASSUME task[d].pc \in PlacedPc, NEW b \in Client \ {d}, task'[b].pc \in PlacedPc
              PROVE  task'[b].at # task'[d].at
          <5>1. CASE b = c
            BY <1>5, <1>6, <2>1, <3>2, <4>2, <5>1
          <5>2. CASE b # c
            BY <1>6, <3>2, <4>2, <5>2 DEF ReignInv, Placed
          <5> QED
            BY <5>1, <5>2
        <4>3. task[d].pc \notin TxnPc
              /\ (task[d].pc \in WritePc => task[d].node = leader /\ PlainOp(task[d].op))
          BY DEF ReignInv, Placed
        <4> QED
          BY <1>4, <1>6, <2>1, <3>2, <4>1, <4>2, <4>3
      <3> QED
        BY <3>1, <3>2
    <2> QED
      BY <2>4 DEF Placed
  <1>10. Alone'
    <2> SUFFICES ASSUME NEW d \in Client, Client = {d}
                 PROVE  /\ task'[d].pc \in PlacedPc =>
                             task'[d].at = Len(log') /\ Len(executed'[leader']) + 1 = Len(log')
                        /\ task'[d].pc \notin PlacedPc => Len(executed'[leader']) = Len(log')
      BY DEF Alone
    <2>1. d = c
      OBVIOUS
    <2>2. Len(executed[leader]) = Len(log)
      BY <1>1, <2>1 DEF ReignInv, Alone, PlacedPc
    <2> QED
      BY <1>3, <1>4, <1>5, <1>6, <2>1, <2>2 DEF PlacedPc
  <1>11. OneAppends'
    <2>1. \A d \in Client : task'[d].pc # "append"
      BY <1>1, <1>5, <1>6 DEF ReignInv, OneAppends
    <2> QED
      BY <2>1 DEF OneAppends
  <1> QED
    BY <1>8, <1>9, <1>10, <1>11 DEF ReignInv

\* A handler tells the leader's store its entry, once.
LEMMA ReignWrite ==
  ASSUME ReignInv, KvInv', NEW c \in Client, Write(c)
  PROVE  ReignInv'
  <1> DEFINE w == Requested(task[c].op)
             e == [at |-> task[c].at, write |-> w]
  <1>1. /\ task[c] \in TaskType /\ task[c].op \in Op /\ task[c].pc = "write"
        /\ task[c].node = leader /\ PlainOp(task[c].op) /\ leader \in Node
        /\ task \in [Client -> TaskType]
    BY NameAssumption
    DEF Write, ReignInv, Placed, KvInv, TaskInv, Handled, WritePc, LeadInv, Reign
  <1>2. w \in WriteType /\ w.lease = 0
    BY <1>1, RequestedType DEF Requested, PlainOp
  <1>3. Execute(leader, w, task[c].at) /\ task' = [task EXCEPT ![c] = Idle]
        /\ UNCHANGED <<log, last, committed, leader, led, elections, abandons, since>>
    BY <1>1 DEF Write, raftVars, nodeVars, boundVars
  <1> HIDE DEF w
  <1>4. NoLeases'
    <2>1. PICK n \in Node : n = leader
      BY <1>1
    <2> QED
      BY <1>2, <1>3, <2>1, ExecuteNoLeases
  <1>5. executed[leader] \in Seq(ExecutedType) /\ executed'[leader] = Append(executed[leader], e)
    BY <1>1, <1>3 DEF Execute, ReignInv, KvInv, StoreInv
  <1>6. task'[c] = Idle /\ \A d \in Client \ {c} : task'[d] = task[d]
    BY <1>1, <1>3
  <1>7. Reign'
    BY <1>1, <1>3, NameAssumption DEF ReignInv, Reign
  <1>8. e.at = task[c].at
    OBVIOUS
  <1> HIDE DEF e
  <1>9. ASSUME NEW i, Has(leader, i)' PROVE Has(leader, i) \/ i = task[c].at
    <2>1. PICK p \in (since[leader] + 1)..Len(executed'[leader]) : executed'[leader][p].at = i
      BY <1>3, <1>9 DEF Has
    <2>2. /\ p \in (since[leader] + 1)..(Len(executed[leader]) + 1)
          /\ Len(executed[leader]) \in Nat /\ since[leader] \in Nat
      BY <1>1, <1>5, <2>1 DEF ReignInv, KvInv, StoreInv
    <2>3. CASE p \in (since[leader] + 1)..Len(executed[leader])
      BY <1>5, <2>1, <2>2, <2>3 DEF Has
    <2>4. CASE p = Len(executed[leader]) + 1
      BY <1>5, <1>8, <2>1, <2>4
    <2> QED
      BY <2>2, <2>3, <2>4
  <1>10. Placed'
    <2>1. ASSUME NEW d \in Client, d # c, task[d].pc \in PlacedPc
          PROVE  /\ task[d].at \in 1..Len(log) /\ log[task[d].at] = Encode(task[d].op)
                 /\ ~ Has(leader, task[d].at)'
                 /\ \A b \in Client \ {d} : task[b].pc \in PlacedPc => task[b].at # task[d].at
      <3>1. /\ task[d].at \in 1..Len(log) /\ log[task[d].at] = Encode(task[d].op)
            /\ ~ Has(leader, task[d].at)
            /\ \A b \in Client \ {d} : task[b].pc \in PlacedPc => task[b].at # task[d].at
        BY <2>1 DEF ReignInv, Placed
      <3>2. task[d].at # task[c].at
        BY <1>1, <2>1, <3>1 DEF PlacedPc
      <3>3. PICK i : i = task[d].at
        OBVIOUS
      <3>4. ~ Has(leader, i)'
        BY <1>9, <3>1, <3>2, <3>3
      <3>5. ~ Has(leader, task[d].at)'
        BY <1>6, <2>1, <3>3, <3>4 DEF Has
      <3> QED
        BY <3>1, <3>5
    <2>2. Idle.pc = "idle"
      BY IdleType
    <2>3. ASSUME NEW d \in Client
          PROVE  /\ task'[d].pc \notin TxnPc
                 /\ task'[d].pc \in WritePc => task'[d].node = leader' /\ PlainOp(task'[d].op)
                 /\ task'[d].pc \in PlacedPc =>
                      /\ task'[d].at \in 1..Len(log')
                      /\ log'[task'[d].at] = Encode(task'[d].op)
                      /\ ~ Has(leader, task[d].at)'
                      /\ \A b \in Client \ {d} :
                           task'[b].pc \in PlacedPc => task'[b].at # task'[d].at
      <3>1. CASE d = c
        BY <1>6, <2>2, <3>1 DEF TxnPc, WritePc, PlacedPc
      <3>2. CASE d # c
        <4>1. task[d].pc \notin TxnPc
              /\ (task[d].pc \in WritePc => task[d].node = leader /\ PlainOp(task[d].op))
          BY DEF ReignInv, Placed
        <4>2. ASSUME task[d].pc \in PlacedPc, NEW b \in Client \ {d}, task'[b].pc \in PlacedPc
              PROVE  task'[b].at # task'[d].at
          <5>1. b # c
            BY <1>6, <2>2, <4>2 DEF PlacedPc
          <5> QED
            BY <1>6, <2>1, <3>2, <4>2, <5>1
        <4> QED
          BY <1>3, <1>6, <2>1, <3>2, <4>1, <4>2
      <3> QED
        BY <3>1, <3>2
    <2> QED
      BY <2>3 DEF Placed
  <1>11. Alone'
    <2> SUFFICES ASSUME NEW d \in Client, Client = {d}
                 PROVE  /\ task'[d].pc \in PlacedPc =>
                             task'[d].at = Len(log') /\ Len(executed'[leader']) + 1 = Len(log')
                        /\ task'[d].pc \notin PlacedPc => Len(executed'[leader']) = Len(log')
      BY DEF Alone
    <2>1. d = c
      OBVIOUS
    <2>2. Len(executed[leader]) + 1 = Len(log)
      BY <1>1, <2>1 DEF ReignInv, Alone, PlacedPc
    <2>3. Len(executed'[leader]) = Len(executed[leader]) + 1
      BY <1>5
    <2> QED
      BY <1>3, <1>6, <2>1, <2>2, <2>3, IdleType DEF PlacedPc
  <1>12. OneAppends'
    BY <1>3, <1>6, IdleType DEF ReignInv, OneAppends
  <1> QED
    BY <1>3, <1>4, <1>7, <1>10, <1>11, <1>12 DEF ReignInv

\* Check and Register move a handler on.
LEMMA ReignCheck ==
  ASSUME ReignInv, KvInv', NEW c \in Client, Check(c) \/ Register(c)
  PROVE  ReignInv'
  <1>1. PICK pc \in {"register", "wait", "write"} :
          task' = [task EXCEPT ![c] = [task[c] EXCEPT !.pc = pc]]
    BY DEF Check, Register
  <1>2. task[c].pc \in {"check", "register"}
        /\ UNCHANGED <<log, last, leader, elections, led, executed, since, store, abandons>>
    BY DEF Check, Register, raftVars, nodeVars, boundVars
  <1>3. PICK x \in TaskType : x = task[c]
    BY DEF ReignInv, KvInv, TaskInv
  <1> DEFINE k == [x EXCEPT !.pc = pc]
  <1>4. k \in TaskType /\ k.pc = pc /\ k.node = x.node /\ k.op = x.op /\ k.at = x.at
    BY DEF TaskType, WritePc
  <1>5. task' = [task EXCEPT ![c] = k]
    BY <1>1, <1>3
  <1> HIDE DEF k
  <1>6. /\ k.pc \notin TxnPc /\ k.pc \in PlacedPc /\ task[c].pc \in PlacedPc
        /\ task[c].pc \in WritePc /\ k.pc # "append"
    BY <1>1, <1>2, <1>4 DEF TxnPc, PlacedPc, WritePc
  <1>7. k.node = leader /\ PlainOp(k.op) /\ k.at = task[c].at /\ k.op = task[c].op
    BY <1>3, <1>4, <1>6 DEF ReignInv, Placed
  <1>8. abandons' \in Nat
    BY <1>2 DEF ReignInv
  <1> QED
    BY <1>2, <1>4, <1>5, <1>6, <1>7, <1>8, ReignMove

\* A request is given up only among others.
LEMMA ReignAbandon ==
  ASSUME Patient, ReignInv, KvInv', NEW c \in Client, Abandon(c)
  PROVE  ReignInv'
  <1>1. /\ task' = [task EXCEPT ![c] = Idle] /\ abandons < MaxAbandons /\ abandons \in Nat
        /\ abandons' = abandons + 1 /\ task \in [Client -> TaskType]
        /\ UNCHANGED <<log, last, leader, elections, led, executed, since, store>>
    BY DEF Abandon, raftVars, nodeVars, ReignInv, KvInv, TaskInv
  <1>2. Reign' /\ NoLeases' /\ abandons' \in Nat
    BY <1>1 DEF ReignInv, Reign, NoLeases
  <1>3. task'[c] = Idle /\ \A d \in Client \ {c} : task'[d] = task[d]
    BY <1>1
  <1>4. Placed'
    BY <1>1, <1>3, IdleType DEF ReignInv, Placed, Has, TxnPc, WritePc, PlacedPc
  <1>5. Client # {c}
    <2> SUFFICES ASSUME Client = {c} PROVE FALSE
      OBVIOUS
    <2>1. Cardinality(Client) = 1
      BY FS_Singleton
    <2> QED
      BY <1>1, <2>1 DEF Patient
  <1>6. Alone' /\ OneAppends'
    BY <1>1, <1>3, <1>5, IdleType DEF ReignInv, Alone, OneAppends
  <1> QED
    BY <1>2, <1>4, <1>6 DEF ReignInv

\* The store changes, and none of its entries.
LEMMA ReignStore ==
  ASSUME ReignInv, KvInv', \A n \in Node : store'[n].kv = store[n].kv,
         UNCHANGED <<log, last, leader, elections, abandons, led, executed, since, task>>
  PROVE  ReignInv'
  <1>1. NoLeases'
    BY DEF ReignInv, NoLeases
  <1> QED
    BY <1>1, ReignQuiet

\* A panic of the applier spends a revision and changes no key.
LEMMA ReignPanic ==
  ASSUME ReignInv, KvInv', NEW n \in Node, TakePanics(n)
  PROVE  ReignInv'
  <1>1. \A m \in Node : store'[m].kv = store[m].kv
    BY RevTaken DEF TakePanics, raftVars, ReignInv
  <1> QED
    BY <1>1, ReignStore DEF TakePanics, raftVars, boundVars

\* Compaction changes no key and attaches no lease.
LEMMA ReignCompact ==
  ASSUME ReignInv, KvInv', NEW c \in Client, NEW n \in Node, NEW r, Compact(c, n, r)
  PROVE  ReignInv'
  <1>1. store \in [Node -> StoreType]
    BY DEF ReignInv, KvInv, StoreInv
  <1>2. store' = [store EXCEPT ![n] = StoreCompact(store[n], r)]
    BY DEF Compact
  <1>3. StoreCompact(store[n], r).kv = store[n].kv
    BY <1>1 DEF StoreType, StoreCompact
  <1>4. \A m \in Node : store'[m].kv = store[m].kv
    BY <1>1, <1>2, <1>3
  <1> QED
    BY <1>4, ReignStore DEF Compact, raftVars, nodeVars, boundVars

\* No handler is refused or panics, and no transaction is on its way.
LEMMA ReignExcludes ==
  ASSUME OneReign, Plain, ReignInv, NEW c \in Client
  PROVE  /\ ~ StepDown /\ ~ ProposeRefused(c) /\ ~ TxnOperation(c) /\ ~ TxnAnswer(c)
         /\ ~ WritePanics(c)
         /\ \A n \in Node, t \in Txn : ~ TxnRequest(c, n, t)
  <1>1. ~ StepDown
    BY BoundsNat DEF OneReign, ReignInv, Reign, StepDown
  <1>2. ~ ProposeRefused(c)
    BY DEF ReignInv, Placed, ProposeRefused, WritePc
  <1>3. ~ TxnOperation(c) /\ ~ TxnAnswer(c)
    BY DEF ReignInv, Placed, TxnOperation, TxnAnswer, TxnPc
  <1>4. Txn = {}
    BY DEF Plain
  <1>5. ~ WritePanics(c)
    BY DEF ReignInv, Placed, WritePc, WritePanics, RequestPanics, Panics, PlainOp
  <1> QED
    BY <1>1, <1>2, <1>3, <1>4, <1>5

\* Every step keeps the invariant of the one reign.
LEMMA ReignNext ==
  ASSUME OneReign, Plain, Patient, NoOverlap, ReignInv, [Next]_vars
  PROVE  ReignInv'
  <1>1. KvInv'
    BY NextInv DEF ReignInv
  <1>2. ASSUME NEW n \in Node, LearnCommit(n) PROVE ReignInv'
    <2>1. PICK i \in (commit[n] + 1)..committed :
            task' = IF leader = n THEN Woken(n, i) ELSE task
      BY <1>2 DEF LearnCommit
    <2>2. UNCHANGED <<log, last, leader, elections, abandons, led, executed, since, store>>
      BY <1>2 DEF LearnCommit, raftVars, boundVars
    <2>3. CASE leader = n
      BY <1>1, <2>1, <2>2, <2>3, ReignWoken
    <2>4. CASE leader # n
      BY <1>1, <2>1, <2>2, <2>4, ReignStore
    <2> QED
      BY <2>3, <2>4
  <1>3. ASSUME NEW n \in Node, ApplyTick(n) PROVE ReignInv'
    BY <1>1, <1>3, ReignWoken DEF ApplyTick, raftVars, boundVars
  <1>4. ASSUME NEW n \in Node, TakeAsLeader(n) PROVE ReignInv'
    BY <1>1, <1>4, ReignStore DEF TakeAsLeader, raftVars, boundVars
  <1>5. ASSUME Commit PROVE ReignInv'
    BY <1>1, <1>5, ReignWoken DEF Commit, boundVars
  <1>6. ASSUME NEW c \in Client, RequestNext(c) PROVE ReignInv'
    BY <1>1, <1>6, ReignPut, ReignDelete, ReignExcludes, ReignCompact DEF RequestNext
  <1>7. ASSUME NEW c \in Client, HandlerNext(c) PROVE ReignInv'
    BY <1>1, <1>7, ReignRead, ReignAppend, ReignExcludes, ReignCheck, ReignWrite
    DEF HandlerNext
  <1>8. ASSUME StepDown PROVE ReignInv'
    BY <1>8, BoundsNat DEF OneReign, ReignInv, Reign, StepDown
  <1>9. CASE UNCHANGED vars
    BY <1>1, <1>9, ReignStore DEF vars, raftVars, boundVars
  <1> QED
    BY <1>1, <1>2, <1>3, <1>4, <1>5, <1>6, <1>7, <1>8, <1>9, ReignElect, ReignFollower,
       ReignPanic, ReignRestart, ReignAbandon DEF Next, TakeNext

-----------------------------------------------------------------------------
(* Step by step, the cluster is the replicated store *)

Committed == [i \in 1..committed |-> Decode(log[i])]

Coordinator == IF Cardinality(Client) = 1 THEN Nobody ELSE leader

\* What is committed stays.
LEMMA CommittedGrows ==
  ASSUME KvInv, committed' \in committed..Len(log'), \A i \in 1..committed : log'[i] = log[i]
  PROVE  /\ committed' = committed => Committed' = Committed
         /\ committed' # committed =>
              /\ Len(Committed') > Len(Committed)
              /\ SubSeq(Committed', 1, Len(Committed)) = Committed
  <1>1. committed \in Nat /\ committed' \in Nat /\ committed <= committed'
    BY IndexTypes
  <1>2. \A i \in 1..committed : Decode(log[i])' = Decode(log[i])
    BY DEF Decode
  <1>3. ASSUME committed' = committed PROVE Committed' = Committed
    BY <1>2, <1>3 DEF Committed
  <1>4. ASSUME committed' # committed
        PROVE  /\ Len(Committed') > Len(Committed)
               /\ SubSeq(Committed', 1, Len(Committed)) = Committed
    <2> DEFINE S == {Decode(log[i]) : i \in 1..committed}
                      \cup {Decode(log[i])' : i \in 1..committed'}
    <2>1. Committed \in Seq(S) /\ Len(Committed) = committed
      BY <1>1 DEF Committed
    <2>2. Committed' \in Seq(S) /\ Len(Committed') = committed'
      BY <1>1 DEF Committed
    <2>3. \A i \in 1..committed : Committed'[i] = Committed[i]
      BY <1>1, <1>2 DEF Committed
    <2> HIDE DEF S
    <2>4. /\ SubSeq(Committed', 1, committed) \in Seq(S)
          /\ Len(SubSeq(Committed', 1, committed)) = committed
          /\ \A i \in 1..committed : SubSeq(Committed', 1, committed)[i] = Committed'[i]
      BY <1>1, <2>2
    <2>5. SubSeq(Committed', 1, committed) = Committed
      BY <2>1, <2>3, <2>4, SeqEqual
    <2> QED
      BY <1>1, <1>4, <2>1, <2>2, <2>5
  <1> QED
    BY <1>3, <1>4

\* A step that performs nothing is the commit of what was proposed, or nothing.
LEMMA SimulatesCommit ==
  ASSUME KvInv, committed' \in committed..Len(log'),
         \A i \in 1..committed : log'[i] = log[i], UNCHANGED <<leader, executed, since>>
  PROVE  [R!Next]_(R!vars)
  <1>1. Coordinator' = Coordinator
    BY DEF Coordinator
  <1>2. CASE committed' = committed
    BY <1>1, <1>2, CommittedGrows DEF R!vars, Committed, Coordinator
  <1>3. CASE committed' # committed
    <2>1. R!Commit
      BY <1>1, <1>3, CommittedGrows DEF R!Commit, Committed, Coordinator
    <2> QED
      BY <2>1 DEF R!Next
  <1> QED
    BY <1>2, <1>3

\* Most steps do not even commit.
LEMMA SimulatesQuiet ==
  ASSUME KvInv, UNCHANGED <<log, committed, leader, executed, since>>
  PROVE  [R!Next]_(R!vars)
  BY IndexTypes, SimulatesCommit

\* A replica performs a committed write that it does not have, in its turn
\* unless it is the coordinator.
LEMMA SimulatesPerform ==
  ASSUME KvInv, NEW n \in Node, NEW i \in 1..committed, Execute(n, Decode(log[i]), i),
         UNCHANGED <<log, committed, leader, since>>, ~ Has(n, i),
         n # Coordinator => i = Len(executed[n]) - since[n] + 1
  PROVE  [R!Next]_(R!vars)
  <1>1. Committed' = Committed /\ Coordinator' = Coordinator
    BY DEF Committed, Coordinator, Decode
  <1>2. DOMAIN Committed = 1..committed /\ Committed[i] = Decode(log[i])
    BY DEF Committed
  <1>3. i \notin R!Performed(n)
    BY DEF R!Performed, Has
  <1>4. executed' = [executed EXCEPT ![n] = Append(@, [at |-> i, write |-> Committed[i]])]
    BY <1>2 DEF Execute
  <1>5. R!Perform(n)
    <2> SUFFICES \E j \in DOMAIN Committed \ R!Performed(n) :
                   /\ n # Coordinator => j = Len(executed[n]) - since[n] + 1
                   /\ executed' = [executed EXCEPT
                                     ![n] = Append(@, [at |-> j, write |-> Committed[j]])]
                   /\ UNCHANGED <<Committed, Coordinator, since>>
      BY DEF R!Perform, Committed, Coordinator
    <2> QED
      BY <1>1, <1>2, <1>3, <1>4
  <1> QED
    BY <1>5 DEF R!Next

\* A follower that takes an entry performs it in the abstract store.
LEMMA SimulatesFollower ==
  ASSUME ReignInv, NEW n \in Node, TakeAsFollower(n)
  PROVE  [R!Next]_(R!vars)
  <1> DEFINE i == Head(channel[n])
  <1>1. channel[n] # <<>> /\ leader # n /\ Execute(n, Decode(log[i]), i)
        /\ UNCHANGED <<log, committed, leader, since>>
    BY DEF TakeAsFollower, Skips, raftVars
  <1>2. n \notin led /\ applier[n]
    BY <1>1 DEF ReignInv, Reign, KvInv, NodeInv, Bounded
  <1>3. i = Taken(n) + 1 /\ i \in 1..committed /\ Taken(n) \in Nat
    BY <1>1, <1>2, HeadOfChannel, TakenType DEF ReignInv
  <1> HIDE DEF i
  <1>4. /\ InStep(n) /\ executed[n] \in Seq(ExecutedType) /\ Len(executed[n]) \in Nat
        /\ since[n] \in Nat
    BY <1>2 DEF ReignInv, KvInv, StepInv, StoreInv
  <1>5. i = Len(executed[n]) - since[n] + 1
    BY <1>3, <1>4 DEF InStep
  <1>6. ~ Has(n, i)
    <2> SUFFICES ASSUME NEW p \in (since[n] + 1)..Len(executed[n]), executed[n][p].at = i
                 PROVE  FALSE
      BY DEF Has
    <2>1. PICK j \in 1..Taken(n) : p = since[n] + j
      <3>1. p - since[n] \in 1..Taken(n) /\ p = since[n] + (p - since[n])
        BY <1>3, <1>4 DEF InStep
      <3> QED
        BY <3>1
    <2>2. executed[n][since[n] + j] = [at |-> j, write |-> Decode(log[j])]
      BY <1>4, <2>1 DEF InStep
    <2>3. executed[n][p].at = j
      BY <2>1, <2>2
    <2> QED
      BY <1>3, <2>1, <2>3
  <1> QED
    BY <1>1, <1>3, <1>5, <1>6, SimulatesPerform DEF ReignInv

\* A handler that writes performs its entry on the leader's store.
LEMMA SimulatesWrite ==
  ASSUME Plain, ReignInv, NEW c \in Client, Write(c)
  PROVE  [R!Next]_(R!vars)
  <1> DEFINE i == task[c].at
             n == task[c].node
  <1>1. task[c].pc = "write" /\ Execute(n, Requested(task[c].op), i)
        /\ UNCHANGED <<log, committed, leader, since>>
    BY DEF Write, raftVars
  <1>2. /\ n = leader /\ PlainOp(task[c].op) /\ i \in 1..Len(log)
        /\ log[i] = Encode(task[c].op) /\ ~ Has(leader, i)
    BY <1>1 DEF ReignInv, Placed, WritePc, PlacedPc
  <1>3. task[c].op \in Op /\ i <= committed /\ n \in Node
    BY <1>1 DEF ReignInv, KvInv, TaskInv, Handled, WritePc, LeadInv
  <1>4. i \in 1..committed
    BY <1>2, <1>3, IndexTypes DEF ReignInv
  <1>5. Requested(task[c].op) = Decode(log[i])
    BY <1>2, <1>3, ReadsAsWritten
  <1>6. n # Coordinator => i = Len(executed[n]) - since[n] + 1
    <2> SUFFICES ASSUME n # Coordinator PROVE i = Len(executed[n]) - since[n] + 1
      OBVIOUS
    <2>1. Cardinality(Client) = 1
      BY <1>2 DEF Coordinator
    <2>2. Client = {c}
      BY <2>1, NameAssumption, FS_Singleton
    <2>3. since[n] = 0 /\ Len(executed[n]) \in Nat
      BY <1>2, <1>3, NameAssumption DEF ReignInv, Reign, KvInv, StoreInv
    <2>4. i = Len(executed[n]) + 1
      BY <1>1, <1>2, <1>3, <2>2 DEF ReignInv, Alone, PlacedPc
    <2> QED
      BY <2>3, <2>4
  <1> QED
    BY <1>1, <1>2, <1>3, <1>4, <1>5, <1>6, SimulatesPerform DEF ReignInv

\* An election cuts the log above what is committed: nothing abstract changes but the leader.
LEMMA SimulatesElect ==
  ASSUME OneReign, ReignInv, NEW n \in Node, Elect(n)
  PROVE  [R!Next]_(R!vars)
  <1>1. PICK len \in committed..Len(log) : log' = SubSeq(log, 1, len)
    BY DEF Elect
  <1>2. leader' = n /\ leader # n /\ UNCHANGED <<committed, executed, since>>
    BY DEF Elect
  <1>3. committed' \in committed..Len(log') /\ \A i \in 1..committed : log'[i] = log[i]
    <2>1. log \in Seq(EntryType) /\ committed \in Nat /\ len \in Nat /\ len <= Len(log)
      BY <1>1, IndexTypes DEF ReignInv, KvInv, LogInv
    <2> QED
      BY <1>1, <1>2, <2>1
  <1>4. Committed' = Committed
    BY <1>2, <1>3, CommittedGrows DEF ReignInv
  <1>5. CASE Cardinality(Client) = 1
    <2>1. Coordinator' = Coordinator
      BY <1>5 DEF Coordinator
    <2> QED
      BY <1>2, <1>4, <2>1 DEF R!vars, Committed, Coordinator
  <1>6. CASE Cardinality(Client) # 1
    <2>1. Coordinator' # Coordinator
      BY <1>2, <1>6 DEF Coordinator
    <2>2. R!Coordinate
      BY <1>2, <1>4, <2>1 DEF R!Coordinate, Committed, Coordinator
    <2> QED
      BY <2>2 DEF R!Next
  <1> QED
    BY <1>5, <1>6

\* A restarted follower begins the log again.
LEMMA SimulatesRestart ==
  ASSUME OneReign, ReignInv, NEW n \in Node, Restart(n)
  PROVE  [R!Next]_(R!vars)
  <1>1. leader # n
    BY BoundsNat, NameAssumption DEF OneReign, ReignInv, Reign, Restart
  <1>2. UNCHANGED <<log, committed, leader, executed>>
        /\ since' = [since EXCEPT ![n] = Len(executed[n])]
    BY <1>1 DEF Restart
  <1>3. Committed' = Committed /\ Coordinator' = Coordinator
    BY <1>2 DEF Committed, Coordinator, Decode
  <1>4. R!Restart(n)
    BY <1>2, <1>3 DEF R!Restart, Committed, Coordinator
  <1> QED
    BY <1>4 DEF R!Next

\* A proposal lengthens the log, and commits where the leader is alone.
LEMMA SimulatesAppend ==
  ASSUME ReignInv, NEW c \in Client, ProposeAppend(c)
  PROVE  [R!Next]_(R!vars)
  <1>1. log \in Seq(EntryType) /\ Encode(task[c].op) \in EntryType
        /\ committed \in Nat /\ committed <= Len(log) /\ Len(log) \in Nat
    BY ReignAppended, IndexTypes DEF ReignInv, KvInv, LogInv
  <1>2. log' = Append(log, Encode(task[c].op)) /\ UNCHANGED <<leader, executed, since>>
        /\ committed' \in {committed, Len(log) + 1}
    BY ReignAppended DEF ProposeAppend
  <1>3. Len(log') = Len(log) + 1 /\ \A i \in 1..Len(log) : log'[i] = log[i]
    BY <1>1, <1>2
  <1>4. committed' \in committed..Len(log') /\ \A i \in 1..committed : log'[i] = log[i]
    BY <1>1, <1>2, <1>3
  <1> QED
    BY <1>2, <1>4, SimulatesCommit DEF ReignInv

\* Every step is a step of the abstract store or leaves it as it is.
LEMMA Simulates ==
  ASSUME OneReign, Plain, ReignInv, [Next]_vars
  PROVE  [R!Next]_(R!vars)
  <1>1. ASSUME NEW n \in Node, LearnCommit(n) \/ ApplyTick(n) \/ TakeAsLeader(n) \/ TakePanics(n)
        PROVE  [R!Next]_(R!vars)
    BY <1>1, SimulatesQuiet
    DEF LearnCommit, ApplyTick, TakeAsLeader, TakePanics, raftVars, ReignInv
  <1>2. ASSUME Commit PROVE [R!Next]_(R!vars)
    <2>1. PICK i \in (committed + 1)..last : committed' = i
      BY <1>2 DEF Commit
    <2>2. UNCHANGED <<log, leader, executed, since>>
      BY <1>2 DEF Commit
    <2>3. committed' \in committed..Len(log')
      BY <2>1, <2>2, IndexTypes DEF ReignInv
    <2> QED
      BY <2>2, <2>3, SimulatesCommit DEF ReignInv
  <1>3. ASSUME StepDown PROVE [R!Next]_(R!vars)
    BY <1>3, BoundsNat DEF OneReign, ReignInv, Reign, StepDown
  <1>4. ASSUME NEW c \in Client, RequestNext(c) PROVE [R!Next]_(R!vars)
    <2>1. UNCHANGED <<log, committed, leader, executed, since>>
      <3>1. \A n, op : Begin(c, n, op) => UNCHANGED <<log, committed, leader, executed, since>>
        BY DEF Begin, raftVars
      <3>2. \A n, t : TxnRequest(c, n, t) => UNCHANGED <<log, committed, leader, executed, since>>
        BY DEF TxnRequest, raftVars
      <3>3. \A n, r : Compact(c, n, r) => UNCHANGED <<log, committed, leader, executed, since>>
        BY DEF Compact, raftVars
      <3> QED
        BY <1>4, <3>1, <3>2, <3>3 DEF RequestNext, PutRequest, DeleteRequest
    <2> QED
      BY <2>1, SimulatesQuiet DEF ReignInv
  <1>5. ASSUME NEW c \in Client, ProposeRead(c) \/ Check(c) \/ Register(c) \/ Abandon(c)
        PROVE  [R!Next]_(R!vars)
    <2>1. UNCHANGED <<log, committed, leader, executed, since>>
      BY <1>5 DEF ProposeRead, Check, Register, Abandon, raftVars
    <2> QED
      BY <2>1, SimulatesQuiet DEF ReignInv
  <1>6. ASSUME NEW c \in Client, HandlerNext(c) PROVE [R!Next]_(R!vars)
    BY <1>5, <1>6, ReignExcludes, SimulatesAppend, SimulatesWrite DEF HandlerNext
  <1>7. CASE UNCHANGED vars
    BY <1>7, SimulatesQuiet DEF vars, raftVars, ReignInv
  <1> QED
    BY <1>1, <1>2, <1>3, <1>4, <1>5, <1>6, <1>7, SimulatesElect, SimulatesFollower,
       SimulatesRestart DEF Next, TakeNext

\* The start is a start of the abstract store.
LEMMA SimulatesInit == Init => R!Init
  <1> SUFFICES ASSUME Init PROVE R!Init
    OBVIOUS
  <1>1. 1..committed = {}
    BY DEF Init
  <1>2. [i \in 1..committed |-> Decode(log[i])] = <<>>
    BY <1>1
  <1> QED
    BY <1>2 DEF Init, R!Init

\* While one leader reigns and its handlers propose one after the other, the
\* cluster is a replicated store: what is committed only grows, and between two
\* starts of its node every store performs every committed write at most once, a
\* follower in the order of the log and the leader's handlers as they wake, for
\* any number of nodes, clients and restarts of followers.
THEOREM OneReignImplements ==
  ASSUME OneReign, Plain, Patient, NoOverlap
  PROVE  Spec => ImplementsReplicatedStore
  <1>1. ReignInv /\ [Next]_vars => ReignInv'
    BY ReignNext
  <1>2. ReignInv /\ [Next]_vars => [R!Next]_(R!vars)
    BY Simulates
  <1> QED
    BY <1>1, <1>2, ReignInit, SimulatesInit, PTL DEF Spec, ImplementsReplicatedStore, R!Spec
=============================================================================
