------------------------------- MODULE Lease -------------------------------
(***************************************************************************)
(* The lease manager, src/src/lease/mod.rs: grant, revoke, renew, attach   *)
(* and detach called by concurrent clients, and the expiry loop.           *)
(*                                                                         *)
(* A step ends where a lock is waited for.  The locks themselves are read  *)
(* off the program counters: grant, renew and revoke keep `leases' locked  *)
(* from their first step to their last; the loop keeps `expiry_queue'      *)
(* locked from popping an entry until it is done with it.  lease_keys is   *)
(* never locked across a step.                                             *)
(*                                                                         *)
(* Time is a clock of seconds.  A lease id is any member of LeaseId,       *)
(* chosen by the caller or by next_lease_id.                               *)
(*                                                                         *)
(* IsExpiredLate, PushTtl, AttachedOrDefault, QueuedOrNot and              *)
(* LoopStaleUnwraps are broken variants of the definitions after them; no  *)
(* action uses them.                                                       *)
(***************************************************************************)
EXTENDS Integers

CONSTANTS
  Client, LeaseId, Key,
  TTL,          \* the TTLs clients ask for
  MaxTime,      \* bound on the clock; no deadline lies beyond it
  MaxPushes,    \* bound on grants and renewals
  None

ASSUME TTLAssumption == TTL \subseteq Nat \ {0}
ASSUME BoundAssumption == MaxTime \in Nat /\ MaxPushes \in Nat
ASSUME NoneAssumption ==
  /\ None \notin LeaseId
  /\ \A ks \in SUBSET Key : ks # None
  /\ \A l \in [ttl : TTL, created_at : 0..MaxTime] : l # None

VARIABLES
  clock,
  leases,       \* id -> Lease or None
  lease_keys,   \* id -> the keys attached, or None
  expiry_queue, \* how many entries of each id and expiry time are in the heap
  task,         \* what each client is doing
  loop,         \* the expiry loop
  pushes        \* grants and renewals so far

vars == <<clock, leases, lease_keys, expiry_queue, task, loop, pushes>>

Time == 0..MaxTime
LeaseRecord == [ttl : TTL, created_at : Time]
Expiry == LeaseId \X Time

Pc == {"idle", "grant_queue", "grant_keys", "revoke_keys", "renew_queue", "attach_keys"}
Task == [pc : Pc, id : LeaseId \cup {None}, key : Key \cup {None}]
Idle == [pc |-> "idle", id |-> None, key |-> None]

\* "off" before the loop is spawned.
LoopPc == {"off", "wake", "check", "leases", "keys", "sleep"}

TypeOK ==
  /\ clock \in Time
  /\ leases \in [LeaseId -> LeaseRecord \cup {None}]
  /\ lease_keys \in [LeaseId -> (SUBSET Key) \cup {None}]
  /\ expiry_queue \in [Expiry -> Nat]
  /\ task \in [Client -> Task]
  /\ loop \in [pc : LoopPc, now : Time, id : LeaseId \cup {None}]
  /\ pushes \in 0..MaxPushes

Init ==
  /\ clock = 0
  /\ leases = [id \in LeaseId |-> None]
  /\ lease_keys = [id \in LeaseId |-> None]
  /\ expiry_queue = [e \in Expiry |-> 0]
  /\ task = [c \in Client |-> Idle]
  /\ loop = [pc |-> "off", now |-> 0, id |-> None]
  /\ pushes = 0

-----------------------------------------------------------------------------
\* leases.write() and leases.read() get through.
LeasesFree ==
  /\ \A c \in Client : task[c].pc \in {"idle", "attach_keys"}
  /\ loop.pc # "keys"

\* expiry_queue.write() gets through.
QueueFree == loop.pc \notin {"leases", "keys"}

Deadline(l) == l.created_at + l.ttl

IsExpiredLate(l) == Deadline(l) < clock

\* remaining_ttl() <= 0
IsExpired(l) == Deadline(l) <= clock

PushTtl(id) == [expiry_queue EXCEPT ![<<id, leases[id].ttl>>] = @ + 1]

Push(id) == [expiry_queue EXCEPT ![<<id, Deadline(leases[id])>>] = @ + 1]

-----------------------------------------------------------------------------
\* grant: refused when the id is taken.
GrantLease(c, id, ttl) ==
  /\ task[c].pc = "idle"
  /\ LeasesFree
  /\ leases[id] = None
  /\ clock + ttl <= MaxTime
  /\ pushes < MaxPushes
  /\ pushes' = pushes + 1
  /\ leases' = [leases EXCEPT ![id] = [ttl |-> ttl, created_at |-> clock]]
  /\ task' = [task EXCEPT ![c] = [pc |-> "grant_queue", id |-> id, key |-> None]]
  /\ UNCHANGED <<clock, lease_keys, expiry_queue, loop>>

GrantQueue(c) ==
  /\ task[c].pc = "grant_queue"
  /\ QueueFree
  /\ expiry_queue' = Push(task[c].id)
  /\ task' = [task EXCEPT ![c].pc = "grant_keys"]
  /\ UNCHANGED <<clock, leases, lease_keys, loop, pushes>>

GrantKeys(c) ==
  /\ task[c].pc = "grant_keys"
  /\ lease_keys' = [lease_keys EXCEPT ![task[c].id] = {}]
  /\ task' = [task EXCEPT ![c] = Idle]
  /\ UNCHANGED <<clock, leases, expiry_queue, loop, pushes>>

\* revoke: the caller deletes the keys it gets back.
RevokeLease(c, id) ==
  /\ task[c].pc = "idle"
  /\ LeasesFree
  /\ leases[id] # None
  /\ leases' = [leases EXCEPT ![id] = None]
  /\ task' = [task EXCEPT ![c] = [pc |-> "revoke_keys", id |-> id, key |-> None]]
  /\ UNCHANGED <<clock, lease_keys, expiry_queue, loop, pushes>>

RevokeKeys(c) ==
  /\ task[c].pc = "revoke_keys"
  /\ lease_keys' = [lease_keys EXCEPT ![task[c].id] = None]
  /\ task' = [task EXCEPT ![c] = Idle]
  /\ UNCHANGED <<clock, leases, expiry_queue, loop, pushes>>

\* renew: the granted TTL starts over.
RenewLease(c, id) ==
  /\ task[c].pc = "idle"
  /\ LeasesFree
  /\ leases[id] # None
  /\ clock + leases[id].ttl <= MaxTime
  /\ pushes < MaxPushes
  /\ pushes' = pushes + 1
  /\ leases' = [leases EXCEPT ![id].created_at = clock]
  /\ task' = [task EXCEPT ![c] = [pc |-> "renew_queue", id |-> id, key |-> None]]
  /\ UNCHANGED <<clock, lease_keys, expiry_queue, loop>>

RenewQueue(c) ==
  /\ task[c].pc = "renew_queue"
  /\ QueueFree
  /\ expiry_queue' = Push(task[c].id)
  /\ task' = [task EXCEPT ![c] = Idle]
  /\ UNCHANGED <<clock, leases, lease_keys, loop, pushes>>

\* attach: the lease is looked up, `leases' is unlocked, and the key goes to
\* whatever lease_keys has under the id by then.
AttachCheck(c, id, k) ==
  /\ task[c].pc = "idle"
  /\ LeasesFree
  /\ leases[id] # None
  /\ task' = [task EXCEPT ![c] = [pc |-> "attach_keys", id |-> id, key |-> k]]
  /\ UNCHANGED <<clock, leases, lease_keys, expiry_queue, loop, pushes>>

AttachedOrDefault(keys, k) == IF keys = None THEN {k} ELSE keys \cup {k}

Attached(keys, k) == IF keys = None THEN None ELSE keys \cup {k}

AttachKeys(c) ==
  /\ task[c].pc = "attach_keys"
  /\ lease_keys' = [lease_keys EXCEPT ![task[c].id] = Attached(@, task[c].key)]
  /\ task' = [task EXCEPT ![c] = Idle]
  /\ UNCHANGED <<clock, leases, expiry_queue, loop, pushes>>

Detach(c, id, k) ==
  /\ task[c].pc = "idle"
  /\ lease_keys[id] # None
  /\ lease_keys' = [lease_keys EXCEPT ![id] = @ \ {k}]
  /\ UNCHANGED <<clock, leases, expiry_queue, task, loop, pushes>>

-----------------------------------------------------------------------------
(***************************************************************************)
(* run_expiry_loop                                                         *)
(***************************************************************************)
Spawn ==
  /\ loop.pc = "off"
  /\ loop' = [loop EXCEPT !.pc = "wake"]
  /\ UNCHANGED <<clock, leases, lease_keys, expiry_queue, task, pushes>>

LoopWake ==
  /\ loop.pc \in {"wake", "sleep"}
  /\ loop' = [loop EXCEPT !.pc = "check", !.now = clock]
  /\ UNCHANGED <<clock, leases, lease_keys, expiry_queue, task, pushes>>

QueuedOrNot == Expiry

\* peek: LeaseExpiry's order is the reverse of its times and Reverse turns it
\* round again, so the top of the heap is an entry that expires LAST.
Queued == {e \in Expiry : expiry_queue[e] > 0}
Top(e) == e \in Queued /\ \A f \in Queued : f[2] <= e[2]

LoopNothingDue ==
  /\ loop.pc = "check"
  /\ \A e \in Queued : Top(e) => e[2] > loop.now
  /\ loop' = [loop EXCEPT !.pc = "sleep"]
  /\ UNCHANGED <<clock, leases, lease_keys, expiry_queue, task, pushes>>

LoopPop(e) ==
  /\ loop.pc = "check"
  /\ Top(e)
  /\ e[2] <= loop.now
  /\ expiry_queue' = [expiry_queue EXCEPT ![e] = @ - 1]
  /\ loop' = [loop EXCEPT !.pc = "leases", !.id = e[1]]
  /\ UNCHANGED <<clock, leases, lease_keys, task, pushes>>

LoopStaleUnwraps ==
  /\ loop.pc = "leases"
  /\ LeasesFree
  /\ leases[loop.id] # None
  /\ ~ IsExpired(leases[loop.id])
  /\ loop' = [loop EXCEPT !.pc = "sleep", !.id = None]
  /\ UNCHANGED <<clock, leases, lease_keys, expiry_queue, task, pushes>>

\* The entry is stale when the lease is gone or was renewed; the inner loop
\* then breaks, due entries left in the heap or not.
LoopStale ==
  /\ loop.pc = "leases"
  /\ LeasesFree
  /\ leases[loop.id] # None => ~ IsExpired(leases[loop.id])
  /\ loop' = [loop EXCEPT !.pc = "sleep", !.id = None]
  /\ UNCHANGED <<clock, leases, lease_keys, expiry_queue, task, pushes>>

LoopExpire ==
  /\ loop.pc = "leases"
  /\ LeasesFree
  /\ leases[loop.id] # None
  /\ IsExpired(leases[loop.id])
  /\ leases' = [leases EXCEPT ![loop.id] = None]
  /\ loop' = [loop EXCEPT !.pc = "keys"]
  /\ UNCHANGED <<clock, lease_keys, expiry_queue, task, pushes>>

\* The event goes to process_lease_expiries, which deletes the keys; `now' is
\* kept for the next round of the inner loop.
LoopKeys ==
  /\ loop.pc = "keys"
  /\ lease_keys' = [lease_keys EXCEPT ![loop.id] = None]
  /\ loop' = [loop EXCEPT !.pc = "check", !.id = None]
  /\ UNCHANGED <<clock, leases, expiry_queue, task, pushes>>

Tick ==
  /\ clock < MaxTime
  /\ clock' = clock + 1
  /\ UNCHANGED <<leases, lease_keys, expiry_queue, task, loop, pushes>>

-----------------------------------------------------------------------------
ClientStep(c) ==
  \/ GrantQueue(c) \/ GrantKeys(c) \/ RevokeKeys(c) \/ RenewQueue(c) \/ AttachKeys(c)

LoopStep ==
  \/ LoopWake \/ LoopNothingDue \/ LoopStale \/ LoopExpire \/ LoopKeys
  \/ \E e \in Expiry : LoopPop(e)

GrantOrRenew(c) ==
  \/ \E id \in LeaseId, ttl \in TTL : GrantLease(c, id, ttl)
  \/ \E id \in LeaseId : RenewLease(c, id)

RevokeOrAttach(c) ==
  \/ \E id \in LeaseId : RevokeLease(c, id)
  \/ \E id \in LeaseId, k \in Key : AttachCheck(c, id, k) \/ Detach(c, id, k)

Next ==
  \/ \E c \in Client : GrantOrRenew(c) \/ RevokeOrAttach(c) \/ ClientStep(c)
  \/ Spawn \/ LoopStep \/ Tick

Spec == Init /\ [][Next]_vars

\* A thread that can run does, and the clock goes on; clients need not call.
Fairness == WF_vars(LoopStep) /\ WF_vars(Tick) /\ \A c \in Client : WF_vars(ClientStep(c))

FairSpec == Spec /\ Fairness

-----------------------------------------------------------------------------
\* Whenever nobody has `leases' locked, the ids in leases and in lease_keys are
\* the same, whatever attach, detach, revoke and expiry interleave: otherwise
\* attach finds a live lease without its set of keys ("Lease keys map
\* corrupted"), or the keys of a dead one are never deleted.
LeaseKeysMatch ==
  LeasesFree => \A id \in LeaseId : (leases[id] = None) <=> (lease_keys[id] = None)

\* Every live lease has an entry for its present deadline in the heap, unless
\* grant or renew is about to push it or the loop has just popped it and will
\* end the lease: renewals never leave a lease that nothing will expire.
EveryLeaseQueued ==
  \A id \in LeaseId : leases[id] # None =>
    \/ expiry_queue[<<id, Deadline(leases[id])>>] > 0
    \/ \E c \in Client : task[c].id = id /\ task[c].pc \in {"grant_queue", "renew_queue"}
    \/ loop.pc = "leases" /\ loop.id = id /\ IsExpired(leases[id])

\* When the loop goes to sleep no entry that was due when it woke is left: it
\* processes all expired leases in one pass, as its comment says.
AllDueProcessed ==
  loop.pc = "sleep" => \A e \in Queued : e[2] > loop.now

\* The background loop always comes round to its next check.
LoopKeepsRunning == (loop.pc # "off") ~> (loop.pc = "sleep")

\* The loop holds the heap and waits for `leases', whose holder, in grant or
\* renew, waits for the heap.
LockCycle ==
  loop.pc = "leases" /\ \E c \in Client : task[c].pc \in {"grant_queue", "renew_queue"}

\* Unless it is caught in that cycle the loop comes round to its next check,
\* whatever clients do meanwhile.
LoopRunsOn == (loop.pc # "off") ~> (loop.pc = "sleep" \/ LockCycle)

\* The loop is spawned once the leases are granted, as in test_lease_expiry;
\* they may still be attached to and revoked.
SettledBeforeSpawn ==
  [](loop.pc # "off" =>
       \A c \in Client : task[c].pc \notin {"grant_queue", "grant_keys", "renew_queue"})

\* A lease that is neither granted anew nor renewed ends, whatever stale or
\* later entries the heap has, and however other leases are revoked.
LeaseEnds ==
  SettledBeforeSpawn =>
    \A id \in LeaseId : (loop.pc # "off" /\ leases[id] # None) ~> (leases[id] = None)
=============================================================================
