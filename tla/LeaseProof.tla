----------------------------- MODULE LeaseProof -----------------------------
(***************************************************************************)
(* Proofs about the lease manager, for any number of clients, leases, keys *)
(* and TTLs, and for any bounds.                                           *)
(***************************************************************************)
EXTENDS Lease, TLAPS

(***************************************************************************)
(* The inductive invariant.  LeaseKeysMatch and EveryLeaseQueued speak of  *)
(* moments between operations; what makes them inductive is who holds      *)
(* `leases' in the middle of one, and which lease it is holding it for.    *)
(***************************************************************************)

\* Client c has `leases' locked for writing.
Holds(c) == task[c].pc \in {"grant_queue", "grant_keys", "revoke_keys", "renew_queue"}

\* `leases' has one writer at a time, the loop included.
OneWriter ==
  /\ \A c, d \in Client : Holds(c) /\ Holds(d) => c = d
  /\ loop.pc = "keys" => \A c \in Client : ~ Holds(c)

\* An operation under way is about a lease, which is there while it is granted
\* or renewed and gone while it is ended.
Targets ==
  /\ \A c \in Client :
       /\ task[c].pc # "idle" => task[c].id \in LeaseId
       /\ task[c].pc = "attach_keys" => task[c].key \in Key
       /\ task[c].pc \in {"grant_queue", "grant_keys", "renew_queue"}
            => leases[task[c].id] # None
       /\ task[c].pc = "revoke_keys" => leases[task[c].id] = None
  /\ loop.pc \in {"leases", "keys"} => loop.id \in LeaseId
  /\ loop.pc = "keys" => leases[loop.id] = None

\* Every deadline is within the bound, and the loop's idea of now is not ahead
\* of the clock.
Times ==
  /\ \A id \in LeaseId : leases[id] # None => Deadline(leases[id]) \in Time
  /\ loop.now <= clock

\* leases and lease_keys disagree about an id only in the middle of the grant,
\* the revocation or the expiry of that lease.
KeysMatch ==
  \A id \in LeaseId :
    \/ (leases[id] = None) <=> (lease_keys[id] = None)
    \/ \E c \in Client : /\ task[c].id = id
                         /\ task[c].pc \in {"grant_queue", "grant_keys", "revoke_keys"}
    \/ loop.pc = "keys" /\ loop.id = id

IInv == TypeOK /\ OneWriter /\ Targets /\ Times /\ KeysMatch /\ EveryLeaseQueued

USE TTLAssumption, BoundAssumption

\* A lease record is not None: leases[id] # None means that the lease exists.
LEMMA RecordNotNone == \A l \in LeaseRecord : l # None
  BY NoneAssumption DEF LeaseRecord, Time

\* A set of keys is not None.
LEMMA KeySetNotNone == \A ks \in SUBSET Key : ks # None
  BY NoneAssumption

\* `leases' is free exactly when no client and not the loop is writing.
LEMMA FreeMeansNoWriter ==
  ASSUME TypeOK, LeasesFree
  PROVE  loop.pc # "keys" /\ \A c \in Client : ~ Holds(c)
  BY DEF TypeOK, LeasesFree, Holds, Task, Pc

\* The states the lease manager starts in satisfy the invariant.
LEMMA InitIInv == Init => IInv
  <1> SUFFICES ASSUME Init PROVE IInv
    OBVIOUS
  <1>1. TypeOK
    BY DEF Init, TypeOK, Time, Task, Pc, Idle, LoopPc
  <1>2. OneWriter /\ Targets /\ Times /\ KeysMatch /\ EveryLeaseQueued
    BY DEF Init, OneWriter, Holds, Targets, Times, KeysMatch, EveryLeaseQueued, Idle
  <1> QED
    BY <1>1, <1>2 DEF IInv

\* grant starts.
LEMMA GrantLeaseIInv ==
  ASSUME IInv, NEW c \in Client, NEW id \in LeaseId, NEW ttl \in TTL, GrantLease(c, id, ttl)
  PROVE  IInv'
  <1> DEFINE rec == [ttl |-> ttl, created_at |-> clock]
  <1>0. rec \in LeaseRecord /\ rec # None /\ Deadline(rec) \in Time
    BY RecordNotNone DEF IInv, TypeOK, GrantLease, LeaseRecord, Time, Deadline
  <1>1. /\ leases' = [leases EXCEPT ![id] = rec]
        /\ task' = [task EXCEPT ![c] = [pc |-> "grant_queue", id |-> id, key |-> None]]
        /\ clock' = clock /\ lease_keys' = lease_keys /\ expiry_queue' = expiry_queue
        /\ loop' = loop /\ pushes' = pushes + 1 /\ pushes < MaxPushes
        /\ leases[id] = None /\ LeasesFree
    BY DEF GrantLease
  <1>2. loop.pc # "keys" /\ \A d \in Client : ~ Holds(d)
    BY <1>1, FreeMeansNoWriter DEF IInv
  <1> HIDE DEF rec
  <1>3. TypeOK'
    BY <1>0, <1>1 DEF IInv, TypeOK, Task, Pc
  <1>4. OneWriter'
    BY <1>1, <1>2 DEF IInv, TypeOK, OneWriter, Holds, Task
  <1>5. Targets'
    BY <1>0, <1>1, <1>2 DEF IInv, TypeOK, Targets, Holds, Task, Pc
  <1>6. Times'
    BY <1>0, <1>1 DEF IInv, TypeOK, Times, Deadline
  <1>7. KeysMatch'
    BY <1>1, <1>2 DEF IInv, TypeOK, KeysMatch, Holds, Task
  <1>8. EveryLeaseQueued'
    BY <1>1, <1>2 DEF IInv, TypeOK, EveryLeaseQueued, Holds, Task, IsExpired, Deadline
  <1> QED
    BY <1>3, <1>4, <1>5, <1>6, <1>7, <1>8 DEF IInv

\* grant pushes the deadline.
LEMMA GrantQueueIInv ==
  ASSUME IInv, NEW c \in Client, GrantQueue(c)
  PROVE  IInv'
  <1> DEFINE id == task[c].id
             e == <<id, Deadline(leases[id])>>
  <1>0. id \in LeaseId /\ leases[id] # None /\ e \in Expiry
    BY DEF IInv, Targets, Times, GrantQueue, Expiry
  <1>1. /\ expiry_queue' = [expiry_queue EXCEPT ![e] = @ + 1]
        /\ task' = [task EXCEPT ![c].pc = "grant_keys"]
        /\ task[c].pc = "grant_queue" /\ loop.pc \notin {"leases", "keys"}
        /\ clock' = clock /\ leases' = leases /\ lease_keys' = lease_keys
        /\ loop' = loop /\ pushes' = pushes
    BY DEF GrantQueue, Push, QueueFree
  <1>2. expiry_queue' \in [Expiry -> Nat] /\ expiry_queue'[e] > 0
        /\ \A f \in Expiry : expiry_queue'[f] >= expiry_queue[f]
    BY <1>0, <1>1 DEF IInv, TypeOK
  <1>3. TypeOK'
    BY <1>1, <1>2 DEF IInv, TypeOK, Task, Pc
  <1>4. OneWriter'
    BY <1>1 DEF IInv, TypeOK, OneWriter, Holds, Task
  <1>5. Targets'
    BY <1>1 DEF IInv, TypeOK, Targets, Task, Pc
  <1>6. Times'
    BY <1>1 DEF IInv, Times, Deadline
  <1>7. KeysMatch'
    BY <1>1 DEF IInv, TypeOK, KeysMatch, Task
  <1>8. EveryLeaseQueued'
    <2> SUFFICES ASSUME NEW i \in LeaseId, leases[i] # None
                 PROVE  \/ expiry_queue'[<<i, Deadline(leases[i])>>] > 0
                        \/ \E d \in Client : /\ task'[d].id = i
                                             /\ task'[d].pc \in {"grant_queue", "renew_queue"}
      BY <1>1 DEF EveryLeaseQueued, Deadline
    <2>1. <<i, Deadline(leases[i])>> \in Expiry
      BY DEF IInv, Times, Expiry
    <2>2. CASE i = id
      BY <2>2, <1>2
    <2>3. CASE i # id
      <3>1. CASE expiry_queue[<<i, Deadline(leases[i])>>] > 0
        BY <3>1, <2>1, <1>2 DEF IInv, TypeOK
      <3>2. CASE \E d \in Client : /\ task[d].id = i
                                   /\ task[d].pc \in {"grant_queue", "renew_queue"}
        BY <3>2, <2>3, <1>1 DEF IInv, TypeOK, Task
      <3> QED
        BY <3>1, <3>2, <1>1 DEF IInv, EveryLeaseQueued
    <2> QED
      BY <2>2, <2>3
  <1> QED
    BY <1>3, <1>4, <1>5, <1>6, <1>7, <1>8 DEF IInv

\* grant enters the empty set of keys.
LEMMA GrantKeysIInv ==
  ASSUME IInv, NEW c \in Client, GrantKeys(c)
  PROVE  IInv'
  <1>1. /\ lease_keys' = [lease_keys EXCEPT ![task[c].id] = {}]
        /\ task' = [task EXCEPT ![c] = Idle]
        /\ task[c].pc = "grant_keys"
        /\ clock' = clock /\ leases' = leases /\ expiry_queue' = expiry_queue
        /\ loop' = loop /\ pushes' = pushes
    BY DEF GrantKeys
  <1>2. task[c].id \in LeaseId /\ leases[task[c].id] # None
    BY <1>1 DEF IInv, Targets
  <1>3. {} # None
    BY KeySetNotNone
  <1>4. TypeOK'
    BY <1>1 DEF IInv, TypeOK, Task, Pc, Idle
  <1>5. OneWriter' /\ Targets'
    BY <1>1 DEF IInv, TypeOK, OneWriter, Holds, Targets, Task, Idle
  <1>6. Times' /\ EveryLeaseQueued'
    BY <1>1 DEF IInv, TypeOK, Times, EveryLeaseQueued, Deadline, IsExpired, Task, Idle
  <1>7. KeysMatch'
    BY <1>1, <1>2, <1>3 DEF IInv, TypeOK, KeysMatch, Task, Idle
  <1> QED
    BY <1>4, <1>5, <1>6, <1>7 DEF IInv

\* revoke takes the lease out.
LEMMA RevokeLeaseIInv ==
  ASSUME IInv, NEW c \in Client, NEW id \in LeaseId, RevokeLease(c, id)
  PROVE  IInv'
  <1>1. /\ leases' = [leases EXCEPT ![id] = None]
        /\ task' = [task EXCEPT ![c] = [pc |-> "revoke_keys", id |-> id, key |-> None]]
        /\ clock' = clock /\ lease_keys' = lease_keys /\ expiry_queue' = expiry_queue
        /\ loop' = loop /\ pushes' = pushes /\ LeasesFree
    BY DEF RevokeLease
  <1>2. loop.pc # "keys" /\ \A d \in Client : ~ Holds(d)
    BY <1>1, FreeMeansNoWriter DEF IInv
  <1>3. TypeOK'
    BY <1>1 DEF IInv, TypeOK, Task, Pc
  <1>4. OneWriter'
    BY <1>1, <1>2 DEF IInv, TypeOK, OneWriter, Holds, Task
  <1>5. Targets'
    BY <1>1, <1>2 DEF IInv, TypeOK, Targets, Holds, Task, Pc
  <1>6. Times'
    BY <1>1 DEF IInv, TypeOK, Times, Deadline
  <1>7. KeysMatch'
    BY <1>1, <1>2 DEF IInv, TypeOK, KeysMatch, Holds, Task
  <1>8. EveryLeaseQueued'
    BY <1>1, <1>2 DEF IInv, TypeOK, EveryLeaseQueued, Holds, Task, IsExpired, Deadline
  <1> QED
    BY <1>3, <1>4, <1>5, <1>6, <1>7, <1>8 DEF IInv

\* revoke takes the keys out.
LEMMA RevokeKeysIInv ==
  ASSUME IInv, NEW c \in Client, RevokeKeys(c)
  PROVE  IInv'
  <1>1. /\ lease_keys' = [lease_keys EXCEPT ![task[c].id] = None]
        /\ task' = [task EXCEPT ![c] = Idle]
        /\ task[c].pc = "revoke_keys"
        /\ clock' = clock /\ leases' = leases /\ expiry_queue' = expiry_queue
        /\ loop' = loop /\ pushes' = pushes
    BY DEF RevokeKeys
  <1>2. task[c].id \in LeaseId /\ leases[task[c].id] = None
    BY <1>1 DEF IInv, Targets
  <1>3. TypeOK'
    BY <1>1 DEF IInv, TypeOK, Task, Pc, Idle
  <1>4. OneWriter' /\ Targets'
    BY <1>1 DEF IInv, TypeOK, OneWriter, Holds, Targets, Task, Idle
  <1>5. Times' /\ EveryLeaseQueued'
    BY <1>1 DEF IInv, TypeOK, Times, EveryLeaseQueued, Deadline, IsExpired, Task, Idle
  <1>6. KeysMatch'
    BY <1>1, <1>2 DEF IInv, TypeOK, KeysMatch, Task, Idle
  <1> QED
    BY <1>3, <1>4, <1>5, <1>6 DEF IInv

\* renew moves the deadline.
LEMMA RenewLeaseIInv ==
  ASSUME IInv, NEW c \in Client, NEW id \in LeaseId, RenewLease(c, id)
  PROVE  IInv'
  <1> DEFINE rec == [leases[id] EXCEPT !.created_at = clock]
  <1>1. /\ leases' = [leases EXCEPT ![id] = rec]
        /\ task' = [task EXCEPT ![c] = [pc |-> "renew_queue", id |-> id, key |-> None]]
        /\ clock' = clock /\ lease_keys' = lease_keys /\ expiry_queue' = expiry_queue
        /\ loop' = loop /\ pushes' = pushes + 1 /\ pushes < MaxPushes
        /\ leases[id] # None /\ LeasesFree /\ clock + leases[id].ttl <= MaxTime
    BY DEF RenewLease
  <1>2. leases[id] \in LeaseRecord
    BY <1>1 DEF IInv, TypeOK
  <1>3. rec \in LeaseRecord /\ rec # None /\ Deadline(rec) \in Time
    BY <1>1, <1>2, RecordNotNone DEF IInv, TypeOK, LeaseRecord, Time, Deadline
  <1>4. loop.pc # "keys" /\ \A d \in Client : ~ Holds(d)
    BY <1>1, FreeMeansNoWriter DEF IInv
  <1> HIDE DEF rec
  <1>5. TypeOK'
    BY <1>1, <1>3 DEF IInv, TypeOK, Task, Pc
  <1>6. OneWriter'
    BY <1>1, <1>4 DEF IInv, TypeOK, OneWriter, Holds, Task
  <1>7. Targets'
    BY <1>1, <1>3, <1>4 DEF IInv, TypeOK, Targets, Holds, Task, Pc
  <1>8. Times'
    BY <1>1, <1>3 DEF IInv, TypeOK, Times, Deadline
  <1>9. KeysMatch'
    BY <1>1, <1>3, <1>4 DEF IInv, TypeOK, KeysMatch, Holds, Task
  <1>10. EveryLeaseQueued'
    BY <1>1, <1>4 DEF IInv, TypeOK, EveryLeaseQueued, Holds, Task, IsExpired, Deadline
  <1> QED
    BY <1>5, <1>6, <1>7, <1>8, <1>9, <1>10 DEF IInv

\* renew pushes the new deadline.
LEMMA RenewQueueIInv ==
  ASSUME IInv, NEW c \in Client, RenewQueue(c)
  PROVE  IInv'
  <1> DEFINE id == task[c].id
             e == <<id, Deadline(leases[id])>>
  <1>0. id \in LeaseId /\ leases[id] # None /\ e \in Expiry
    BY DEF IInv, Targets, Times, RenewQueue, Expiry
  <1>1. /\ expiry_queue' = [expiry_queue EXCEPT ![e] = @ + 1]
        /\ task' = [task EXCEPT ![c] = Idle]
        /\ task[c].pc = "renew_queue" /\ loop.pc \notin {"leases", "keys"}
        /\ clock' = clock /\ leases' = leases /\ lease_keys' = lease_keys
        /\ loop' = loop /\ pushes' = pushes
    BY DEF RenewQueue, Push, QueueFree
  <1>2. expiry_queue' \in [Expiry -> Nat] /\ expiry_queue'[e] > 0
        /\ \A f \in Expiry : expiry_queue'[f] >= expiry_queue[f]
    BY <1>0, <1>1 DEF IInv, TypeOK
  <1>3. TypeOK'
    BY <1>1, <1>2 DEF IInv, TypeOK, Task, Pc, Idle
  <1>4. OneWriter' /\ Targets'
    BY <1>1 DEF IInv, TypeOK, OneWriter, Holds, Targets, Task, Idle
  <1>5. Times' /\ KeysMatch'
    BY <1>1 DEF IInv, TypeOK, Times, KeysMatch, Deadline, Task, Idle
  <1>6. EveryLeaseQueued'
    <2> SUFFICES ASSUME NEW i \in LeaseId, leases[i] # None
                 PROVE  \/ expiry_queue'[<<i, Deadline(leases[i])>>] > 0
                        \/ \E d \in Client : /\ task'[d].id = i
                                             /\ task'[d].pc \in {"grant_queue", "renew_queue"}
      BY <1>1 DEF EveryLeaseQueued, Deadline
    <2>1. <<i, Deadline(leases[i])>> \in Expiry
      BY DEF IInv, Times, Expiry
    <2>2. CASE i = id
      BY <2>2, <1>2
    <2>3. CASE i # id
      <3>1. CASE expiry_queue[<<i, Deadline(leases[i])>>] > 0
        BY <3>1, <2>1, <1>2 DEF IInv, TypeOK
      <3>2. CASE \E d \in Client : /\ task[d].id = i
                                   /\ task[d].pc \in {"grant_queue", "renew_queue"}
        BY <3>2, <2>3, <1>1 DEF IInv, TypeOK, Task
      <3> QED
        BY <3>1, <3>2, <1>1 DEF IInv, EveryLeaseQueued
    <2> QED
      BY <2>2, <2>3
  <1> QED
    BY <1>3, <1>4, <1>5, <1>6 DEF IInv

\* attach looks the lease up.
LEMMA AttachCheckIInv ==
  ASSUME IInv, NEW c \in Client, NEW id \in LeaseId, NEW k \in Key, AttachCheck(c, id, k)
  PROVE  IInv'
  <1>1. /\ task' = [task EXCEPT ![c] = [pc |-> "attach_keys", id |-> id, key |-> k]]
        /\ task[c].pc = "idle"
        /\ clock' = clock /\ leases' = leases /\ lease_keys' = lease_keys
        /\ expiry_queue' = expiry_queue /\ loop' = loop /\ pushes' = pushes
    BY DEF AttachCheck
  <1>2. TypeOK'
    BY <1>1 DEF IInv, TypeOK, Task, Pc
  <1>3. OneWriter' /\ Targets'
    BY <1>1 DEF IInv, TypeOK, OneWriter, Holds, Targets, Task
  <1>4. Times' /\ KeysMatch'
    BY <1>1 DEF IInv, TypeOK, Times, KeysMatch, Deadline, Task
  <1>5. EveryLeaseQueued'
    BY <1>1 DEF IInv, TypeOK, EveryLeaseQueued, Deadline, IsExpired, Task
  <1> QED
    BY <1>2, <1>3, <1>4, <1>5 DEF IInv

\* attach adds the key, if the id still has a set of keys.
LEMMA AttachKeysIInv ==
  ASSUME IInv, NEW c \in Client, AttachKeys(c)
  PROVE  IInv'
  <1> DEFINE id == task[c].id
             keys == Attached(lease_keys[id], task[c].key)
  <1>1. /\ lease_keys' = [lease_keys EXCEPT ![id] = keys]
        /\ task' = [task EXCEPT ![c] = Idle]
        /\ task[c].pc = "attach_keys"
        /\ clock' = clock /\ leases' = leases
        /\ expiry_queue' = expiry_queue /\ loop' = loop /\ pushes' = pushes
    BY DEF AttachKeys
  <1>2. id \in LeaseId /\ task[c].key \in Key
    BY <1>1 DEF IInv, Targets
  <1>3. keys \in (SUBSET Key) \cup {None} /\ (keys = None <=> lease_keys[id] = None)
    BY <1>2, KeySetNotNone DEF IInv, TypeOK, Attached
  <1> HIDE DEF keys
  <1>4. TypeOK'
    BY <1>1, <1>2, <1>3 DEF IInv, TypeOK, Task, Pc, Idle
  <1>5. OneWriter' /\ Targets'
    BY <1>1 DEF IInv, TypeOK, OneWriter, Holds, Targets, Task, Idle
  <1>6. Times' /\ EveryLeaseQueued'
    BY <1>1 DEF IInv, TypeOK, Times, EveryLeaseQueued, Deadline, IsExpired, Task, Idle
  <1>7. KeysMatch'
    BY <1>1, <1>2, <1>3 DEF IInv, TypeOK, KeysMatch, Task, Idle
  <1> QED
    BY <1>4, <1>5, <1>6, <1>7 DEF IInv

\* detach.
LEMMA DetachIInv ==
  ASSUME IInv, NEW c \in Client, NEW id \in LeaseId, NEW k \in Key, Detach(c, id, k)
  PROVE  IInv'
  <1>1. /\ lease_keys[id] # None
        /\ lease_keys' = [lease_keys EXCEPT ![id] = lease_keys[id] \ {k}]
        /\ clock' = clock /\ leases' = leases /\ task' = task
        /\ expiry_queue' = expiry_queue /\ loop' = loop /\ pushes' = pushes
    BY DEF Detach
  <1>2. lease_keys[id] \ {k} \in SUBSET Key /\ lease_keys[id] \ {k} # None
    BY <1>1, KeySetNotNone DEF IInv, TypeOK
  <1>3. TypeOK'
    BY <1>1, <1>2 DEF IInv, TypeOK
  <1>4. OneWriter' /\ Targets' /\ Times' /\ EveryLeaseQueued'
    BY <1>1 DEF IInv, OneWriter, Holds, Targets, Times, EveryLeaseQueued, Deadline, IsExpired
  <1>5. KeysMatch'
    BY <1>1, <1>2 DEF IInv, TypeOK, KeysMatch
  <1> QED
    BY <1>3, <1>4, <1>5 DEF IInv

\* The loop is spawned, wakes up, or finds nothing due: it touches nothing.
LEMMA LoopRestsIInv ==
  ASSUME IInv, Spawn \/ LoopWake \/ LoopNothingDue
  PROVE  IInv'
  <1>1. /\ clock' = clock /\ leases' = leases /\ lease_keys' = lease_keys /\ task' = task
        /\ expiry_queue' = expiry_queue /\ pushes' = pushes
        /\ loop.pc \notin {"leases", "keys"}
        /\ loop' \in [pc : LoopPc, now : Time, id : LeaseId \cup {None}]
        /\ loop'.pc \notin {"leases", "keys"} /\ loop'.now \in {loop.now, clock}
    BY DEF Spawn, LoopWake, LoopNothingDue, IInv, TypeOK, LoopPc
  <1>2. TypeOK'
    BY <1>1 DEF IInv, TypeOK
  <1>3. OneWriter' /\ Targets' /\ KeysMatch'
    BY <1>1 DEF IInv, OneWriter, Holds, Targets, KeysMatch
  <1>4. Times'
    BY <1>1 DEF IInv, TypeOK, Times, Deadline, Time
  <1>5. EveryLeaseQueued'
    BY <1>1 DEF IInv, EveryLeaseQueued, Deadline
  <1> QED
    BY <1>2, <1>3, <1>4, <1>5 DEF IInv

\* The loop pops an entry: if it was the last one for a lease's deadline, then
\* that deadline has passed.
LEMMA LoopPopIInv ==
  ASSUME IInv, NEW e \in Expiry, LoopPop(e)
  PROVE  IInv'
  <1>1. /\ clock' = clock /\ leases' = leases /\ lease_keys' = lease_keys /\ task' = task
        /\ pushes' = pushes /\ loop.pc = "check"
        /\ expiry_queue[e] > 0 /\ e[2] <= loop.now
        /\ expiry_queue' = [expiry_queue EXCEPT ![e] = @ - 1]
        /\ loop' = [loop EXCEPT !.pc = "leases", !.id = e[1]]
    BY DEF LoopPop, Top, Queued
  <1>2. e[1] \in LeaseId /\ e[2] \in Time /\ e = <<e[1], e[2]>>
    BY DEF Expiry
  <1>3. /\ loop'.pc = "leases" /\ loop'.id = e[1] /\ loop'.now = loop.now
        /\ loop' \in [pc : LoopPc, now : Time, id : LeaseId \cup {None}]
    BY <1>1, <1>2 DEF IInv, TypeOK, LoopPc
  <1>4. /\ expiry_queue' \in [Expiry -> Nat]
        /\ \A f \in Expiry : f # e => expiry_queue'[f] = expiry_queue[f]
    BY <1>1 DEF IInv, TypeOK
  <1>5. TypeOK'
    BY <1>1, <1>3, <1>4 DEF IInv, TypeOK
  <1>6. OneWriter' /\ Targets' /\ KeysMatch'
    BY <1>1, <1>2, <1>3 DEF IInv, OneWriter, Holds, Targets, KeysMatch
  <1>7. Times'
    BY <1>1, <1>3 DEF IInv, Times, Deadline
  <1>8. EveryLeaseQueued'
    <2> SUFFICES ASSUME NEW i \in LeaseId, leases[i] # None
                 PROVE  \/ expiry_queue'[<<i, Deadline(leases[i])>>] > 0
                        \/ \E d \in Client : /\ task[d].id = i
                                             /\ task[d].pc \in {"grant_queue", "renew_queue"}
                        \/ e[1] = i /\ Deadline(leases[i]) <= clock
      BY <1>1, <1>3 DEF EveryLeaseQueued, Deadline, IsExpired
    <2>1. <<i, Deadline(leases[i])>> \in Expiry
      BY DEF IInv, Times, Expiry
    <2>2. CASE <<i, Deadline(leases[i])>> = e
      <3>1. e[1] = i /\ Deadline(leases[i]) = e[2]
        BY <2>2
      <3>2. e[2] <= clock
        BY <1>1, <1>2 DEF IInv, TypeOK, Times, Time
      <3> QED
        BY <3>1, <3>2
    <2>3. CASE <<i, Deadline(leases[i])>> # e
      BY <2>1, <2>3, <1>1, <1>4 DEF IInv, EveryLeaseQueued
    <2> QED
      BY <2>2, <2>3
  <1> QED
    BY <1>5, <1>6, <1>7, <1>8 DEF IInv

\* The loop drops a stale entry.
LEMMA LoopStaleIInv ==
  ASSUME IInv, LoopStale
  PROVE  IInv'
  <1>1. /\ clock' = clock /\ leases' = leases /\ lease_keys' = lease_keys /\ task' = task
        /\ expiry_queue' = expiry_queue /\ pushes' = pushes
        /\ loop.pc = "leases" /\ LeasesFree
        /\ leases[loop.id] # None => ~ IsExpired(leases[loop.id])
        /\ loop' = [loop EXCEPT !.pc = "sleep", !.id = None]
    BY DEF LoopStale
  <1>2. /\ loop'.pc = "sleep" /\ loop'.now = loop.now
        /\ loop' \in [pc : LoopPc, now : Time, id : LeaseId \cup {None}]
    BY <1>1 DEF IInv, TypeOK, LoopPc
  <1>3. TypeOK'
    BY <1>1, <1>2 DEF IInv, TypeOK
  <1>4. OneWriter' /\ Targets' /\ KeysMatch'
    BY <1>1, <1>2 DEF IInv, OneWriter, Holds, Targets, KeysMatch
  <1>5. Times'
    BY <1>1, <1>2 DEF IInv, Times, Deadline
  <1>6. EveryLeaseQueued'
    BY <1>1 DEF IInv, EveryLeaseQueued, Deadline
  <1> QED
    BY <1>3, <1>4, <1>5, <1>6 DEF IInv

\* The loop ends the lease.
LEMMA LoopExpireIInv ==
  ASSUME IInv, LoopExpire
  PROVE  IInv'
  <1>1. /\ clock' = clock /\ lease_keys' = lease_keys /\ task' = task
        /\ expiry_queue' = expiry_queue /\ pushes' = pushes
        /\ loop.pc = "leases" /\ LeasesFree
        /\ leases' = [leases EXCEPT ![loop.id] = None]
        /\ loop' = [loop EXCEPT !.pc = "keys"]
    BY DEF LoopExpire
  <1>2. /\ loop'.pc = "keys" /\ loop'.now = loop.now /\ loop'.id = loop.id
        /\ loop' \in [pc : LoopPc, now : Time, id : LeaseId \cup {None}]
        /\ loop.id \in LeaseId
    BY <1>1 DEF IInv, TypeOK, Targets, LoopPc
  <1>3. \A d \in Client : ~ Holds(d)
    BY <1>1, FreeMeansNoWriter DEF IInv
  <1>4. TypeOK'
    BY <1>1, <1>2 DEF IInv, TypeOK
  <1>5. OneWriter' /\ Targets'
    BY <1>1, <1>2, <1>3 DEF IInv, TypeOK, OneWriter, Holds, Targets, Task, Pc
  <1>6. Times'
    BY <1>1, <1>2 DEF IInv, TypeOK, Times, Deadline
  <1>7. KeysMatch'
    BY <1>1, <1>2, <1>3 DEF IInv, TypeOK, KeysMatch, Holds
  <1>8. EveryLeaseQueued'
    BY <1>1, <1>2, <1>3 DEF IInv, TypeOK, EveryLeaseQueued, Deadline, Holds
  <1> QED
    BY <1>4, <1>5, <1>6, <1>7, <1>8 DEF IInv

\* The loop takes the keys of the lease it has ended.
LEMMA LoopKeysIInv ==
  ASSUME IInv, LoopKeys
  PROVE  IInv'
  <1>1. /\ clock' = clock /\ leases' = leases /\ task' = task
        /\ expiry_queue' = expiry_queue /\ pushes' = pushes
        /\ loop.pc = "keys"
        /\ lease_keys' = [lease_keys EXCEPT ![loop.id] = None]
        /\ loop' = [loop EXCEPT !.pc = "check", !.id = None]
    BY DEF LoopKeys
  <1>2. /\ loop'.pc = "check" /\ loop'.now = loop.now
        /\ loop' \in [pc : LoopPc, now : Time, id : LeaseId \cup {None}]
        /\ loop.id \in LeaseId /\ leases[loop.id] = None
    BY <1>1 DEF IInv, TypeOK, Targets, LoopPc
  <1>3. TypeOK'
    BY <1>1, <1>2 DEF IInv, TypeOK
  <1>4. OneWriter' /\ Targets'
    BY <1>1, <1>2 DEF IInv, OneWriter, Holds, Targets
  <1>5. Times' /\ EveryLeaseQueued'
    BY <1>1, <1>2 DEF IInv, Times, EveryLeaseQueued, Deadline, IsExpired
  <1>6. KeysMatch'
    BY <1>1, <1>2 DEF IInv, TypeOK, KeysMatch
  <1> QED
    BY <1>3, <1>4, <1>5, <1>6 DEF IInv

\* Time passes.
LEMMA TickIInv ==
  ASSUME IInv, Tick
  PROVE  IInv'
  <1>1. /\ clock' = clock + 1 /\ clock < MaxTime
        /\ leases' = leases /\ lease_keys' = lease_keys /\ task' = task
        /\ expiry_queue' = expiry_queue /\ pushes' = pushes /\ loop' = loop
    BY DEF Tick
  <1>2. TypeOK'
    BY <1>1 DEF IInv, TypeOK, Time
  <1>3. OneWriter' /\ Targets' /\ KeysMatch'
    BY <1>1 DEF IInv, OneWriter, Holds, Targets, KeysMatch
  <1>4. Times'
    BY <1>1 DEF IInv, TypeOK, Times, Deadline, Time
  <1>5. EveryLeaseQueued'
    <2> SUFFICES ASSUME NEW i \in LeaseId, leases[i] # None, IsExpired(leases[i])
                 PROVE  IsExpired(leases[i])'
      BY <1>1 DEF IInv, EveryLeaseQueued, Deadline
    <2> QED
      BY <1>1 DEF IInv, TypeOK, Times, IsExpired, Deadline, Time
  <1> QED
    BY <1>2, <1>3, <1>4, <1>5 DEF IInv

\* Every step of the clients, the loop and the clock keeps the invariant.
LEMMA NextIInv == IInv /\ [Next]_vars => IInv'
  <1> SUFFICES ASSUME IInv, [Next]_vars PROVE IInv'
    OBVIOUS
  <1>1. ASSUME NEW c \in Client, GrantOrRenew(c) PROVE IInv'
    BY <1>1, GrantLeaseIInv, RenewLeaseIInv DEF GrantOrRenew
  <1>2. ASSUME NEW c \in Client, RevokeOrAttach(c) PROVE IInv'
    BY <1>2, RevokeLeaseIInv, AttachCheckIInv, DetachIInv DEF RevokeOrAttach
  <1>3. ASSUME NEW c \in Client, ClientStep(c) PROVE IInv'
    BY <1>3, GrantQueueIInv, GrantKeysIInv, RevokeKeysIInv, RenewQueueIInv, AttachKeysIInv
       DEF ClientStep
  <1>4. CASE LoopStep
    BY <1>4, LoopRestsIInv, LoopPopIInv, LoopStaleIInv, LoopExpireIInv, LoopKeysIInv
       DEF LoopStep
  <1>5. CASE Spawn \/ Tick
    BY <1>5, LoopRestsIInv, TickIInv
  <1>6. CASE UNCHANGED vars
    <2>1. /\ clock' = clock /\ leases' = leases /\ lease_keys' = lease_keys /\ task' = task
          /\ expiry_queue' = expiry_queue /\ pushes' = pushes /\ loop' = loop
      BY <1>6 DEF vars
    <2>2. TypeOK' /\ OneWriter' /\ Targets' /\ KeysMatch'
      BY <2>1 DEF IInv, TypeOK, OneWriter, Holds, Targets, KeysMatch
    <2>3. Times' /\ EveryLeaseQueued'
      BY <2>1 DEF IInv, Times, EveryLeaseQueued, Deadline, IsExpired
    <2> QED
      BY <2>2, <2>3 DEF IInv
  <1> QED
    BY <1>1, <1>2, <1>3, <1>4, <1>5, <1>6 DEF Next

-----------------------------------------------------------------------------
\* The invariant holds in every reachable state of lease/mod.rs's operations
\* and expiry loop.
THEOREM Invariance == Spec => []IInv
  BY InitIInv, NextIInv, PTL DEF Spec

\* Every variable of the lease manager keeps its type: in particular the heap
\* never loses an entry it does not hold, and clients never leave an operation
\* on something that is not a lease.
THEOREM TypeCorrect == Spec => []TypeOK
  <1>1. IInv => TypeOK
    BY DEF IInv
  <1> QED
    BY <1>1, Invariance, PTL

\* leases and lease_keys name the same leases whenever `leases' can be locked,
\* for any number of clients calling grant, revoke, renew, attach and detach
\* while the expiry loop runs.
THEOREM KeysMatchLeases == Spec => []LeaseKeysMatch
  <1>1. IInv => LeaseKeysMatch
    <2> SUFFICES ASSUME IInv, LeasesFree, NEW id \in LeaseId
                 PROVE  (leases[id] = None) <=> (lease_keys[id] = None)
      BY DEF LeaseKeysMatch
    <2>1. loop.pc # "keys" /\ \A c \in Client : ~ Holds(c)
      BY FreeMeansNoWriter DEF IInv
    <2> QED
      BY <2>1 DEF IInv, KeysMatch, Holds
  <1> QED
    BY <1>1, Invariance, PTL

\* No live lease is left without an entry of the expiry heap that will end it,
\* however renewals race the loop.
THEOREM LeasesStayQueued == Spec => []EveryLeaseQueued
  <1>1. IInv => EveryLeaseQueued
    BY DEF IInv
  <1> QED
    BY <1>1, Invariance, PTL
=============================================================================
