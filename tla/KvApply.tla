------------------------------ MODULE KvApply ------------------------------
(***************************************************************************)
(* How a client's write reaches the stores of a cluster: the KV service of *)
(* the leader (src/src/api/kv_service.rs), the commit notifier and apply   *)
(* loop of the Raft node (src/src/raft/node.rs) and the task that takes    *)
(* entries from the apply channel (src/src/server/mod.rs).                 *)
(*                                                                         *)
(* Raft appears as what it is used for: one log of which a prefix is       *)
(* committed for good, at most one leader, nodes that learn of the commit  *)
(* index late, and a new leader that may lack what was not committed.      *)
(* Whether the code's Raft keeps that promise is the subject of Raft.tla.  *)
(* A store operation is one step; its interleavings are those of           *)
(* MvccStore.tla.  Snapshots are not sent here.                            *)
(*                                                                         *)
(* Text is a sequence of the parts between its colons, a part is a number, *)
(* and parts are ordered as numbers: EmptyPart is "", NulPart is "\0".     *)
(*                                                                         *)
(* The definitions whose names end in Broken are variants of the ones that *)
(* follow them, which nothing uses.                                        *)
(***************************************************************************)
EXTENDS Integers, Sequences, FiniteSets

CONSTANTS
  Node,
  Client,           \* the requests being served at one time
  Key,              \* the keys clients name, as text
  Value,            \* the values clients put, as text
  Binary,           \* parts that are not valid UTF-8
  Lease,            \* the leases clients name in a put; 0 is none
  RangeEnd,         \* the range_ends clients name in a delete_range
  Flags,            \* which of ignore_value, ignore_lease clients may set
  Txn,              \* the transactions clients send
  WithCompact,      \* whether clients compact
  MaxLog,           \* bound on proposals
  MaxElections,     \* bound on elections
  MaxRestarts,      \* bound on restarts
  MaxAbandons,      \* bound on requests that time out or whose client leaves
  MaxTxns,          \* bound on transactions
  MaxProposing,     \* bound: a node's handlers between last_index() and append()
  Nobody,
  None

EmptyPart == 0
NulPart == 1
Mangled == 2        \* what from_utf8_lossy makes of a part that is not UTF-8

ASSUME TextAssumption ==
  /\ Key \subseteq Seq(Nat) /\ Value \subseteq Seq(Nat) /\ RangeEnd \subseteq Seq(Nat)
  /\ \A s \in Key \cup Value \cup RangeEnd : s # <<>>
  /\ Lease \subseteq Nat
ASSUME TxnAssumption ==
  \A t \in Txn :
    /\ \A cmp \in t.compare : cmp.key \in Key
    /\ \A ops \in {t.success, t.failure} :
         /\ ops \in Seq([type : {"put", "delete", "range"}, key : Key, val : Seq(Nat),
                         lease : Nat])
         /\ \A i \in DOMAIN ops : ops[i].type = "put" \/ ops[i].val = <<EmptyPart>>
ASSUME NameAssumption == Nobody \notin Node /\ IsFiniteSet(Client)
ASSUME BoundAssumption ==
  {MaxLog, MaxElections, MaxRestarts, MaxAbandons, MaxTxns, MaxProposing} \subseteq Nat

VARIABLES
  log,              \* the replicated log; an entry is a proposal's text
  last,             \* the leader's last_index
  committed,        \* how much of the log is committed
  leader,           \* the node whose is_leader() holds, if any
  commit,           \* node -> its commit_index
  applied,          \* node -> its last_applied
  channel,          \* node -> the indices in its apply channel
  applier,          \* node -> whether its process_apply_channel task runs
  store,            \* node -> its MVCC store
  task,             \* client -> the handler serving it
  elections, restarts, abandons, txns,
  executed,         \* history: node -> what its trees were told
  since,            \* history: node -> how much of it before its process started
  led,              \* history: the nodes that led since they started
  acked             \* history: the writes that were answered with success

raftVars == <<log, last, committed, leader>>
nodeVars == <<commit, applied, channel, applier>>
boundVars == <<elections, restarts, abandons, txns>>
vars == <<raftVars, nodeVars, store, task, boundVars, executed, since, led, acked>>

-----------------------------------------------------------------------------
(* Text, ranges and what a proposal says *)

\* The order of keys: byte strings, compared part by part.
Before(s, t) ==
  \/ Len(s) < Len(t) /\ SubSeq(t, 1, Len(s)) = s
  \/ \E i \in DOMAIN s \cap DOMAIN t :
       s[i] < t[i] /\ \A j \in 1..(i - 1) : s[j] = t[j]

\* range_end = "": the one key; range_end = "\0": every key from the first on.
One == <<EmptyPart>>
FromKey == <<NulPart>>

Lossy(text) == [i \in DOMAIN text |-> IF text[i] \in Binary THEN Mangled ELSE text[i]]

\* Every key a store can hold: those clients name and what followers read.
StoreKey == Key \cup {<<Lossy(k)[1]>> : k \in Key}

\* The keys from start up to a literal end; KeyIndex::range panics when the
\* end is before the start and the tree is not empty.
LiteralKeys(start, end) ==
  IF end = One THEN {start}
  ELSE {k \in StoreKey : ~Before(k, start) /\ Before(k, end)}

Panics(s, start, end) == end # One /\ Before(end, start) /\ s.rooted

\* The keys delete_range of the service means.
RequestedKeys(start, end) ==
  IF end = FromKey THEN {k \in StoreKey : ~Before(k, start)} ELSE LiteralKeys(start, end)

\* A proposal is "PUT:key:value" or "DELETE:key:range_end".
\* `by' is whose it is; no code reads it.
Encode(op) == [type |-> op.type, data |-> Lossy(op.key \o op.val), by |-> op.by]

\* What split_once(':') finds in it, and what a follower does with it: the key
\* ends at the first colon, and a put has no lease.
Decode(entry) ==
  LET key == <<entry.data[1]>>
      rest == Tail(entry.data)
  IN IF entry.type = "put"
     THEN [keys |-> {key}, val |-> rest, lease |-> 0]
     ELSE [keys |-> LiteralKeys(key, rest), val |-> None, lease |-> 0]

-----------------------------------------------------------------------------
(* The store: kv is the persistent tree, indexed the keys the index finds at *)
(* the current revision, rooted whether the index was ever written to.       *)

EmptyStore ==
  [rev |-> 1, kv |-> [k \in StoreKey |-> None], indexed |-> {}, rooted |-> FALSE]

\* MvccStore::new over the trees of the previous process.
Reopened(s) == [rev |-> 1, kv |-> s.kv, indexed |-> {}, rooted |-> FALSE]

StorePut(s, key, val, lease) ==
  LET rev == s.rev + 1
      old == s.kv[key]
      kv == [val |-> val, lease |-> lease, mod |-> rev,
             create |-> IF old = None THEN rev ELSE old.create,
             version |-> IF old = None THEN 1 ELSE old.version + 1]
  IN [rev |-> rev, kv |-> [s.kv EXCEPT ![key] = kv],
      indexed |-> s.indexed \cup {key}, rooted |-> TRUE]

StoreDelete(s, keys) ==
  LET found == {k \in keys \cap s.indexed : s.kv[k] # None}
  IN [s EXCEPT !.rev = @ + 1, !.indexed = @ \ found,
               !.kv = [k \in StoreKey |-> IF k \in found THEN None ELSE @[k]]]

\* What range at the current revision returns for one key.
Found(s, key) ==
  /\ key \in s.indexed
  /\ s.kv[key] # None
  /\ s.kv[key].create <= s.rev /\ s.kv[key].mod <= s.rev

\* compact drops every revision below r from the index, a live key's last one
\* included.
StoreCompact(s, r) == [s EXCEPT !.indexed = {k \in @ : s.kv[k] # None /\ s.kv[k].mod >= r}]

Perform(s, write) ==
  IF write.val = None THEN StoreDelete(s, write.keys)
  ELSE StorePut(s, CHOOSE k \in write.keys : TRUE, write.val, write.lease)

\* node n's store does write, which stands at index `at' of the log (0: nowhere).
Execute(n, write, at) ==
  /\ store' = [store EXCEPT ![n] = Perform(@, write)]
  /\ executed' = [executed EXCEPT ![n] = Append(@, [at |-> at, write |-> write])]

-----------------------------------------------------------------------------
(* The state at the start of every process *)

Idle == [pc |-> "idle", node |-> Nobody, op |-> None, at |-> 0, ops |-> <<>>]

Init ==
  /\ log = <<>> /\ last = 0 /\ committed = 0 /\ leader = Nobody
  /\ commit = [n \in Node |-> 0]
  /\ applied = [n \in Node |-> 0]
  /\ channel = [n \in Node |-> <<>>]
  /\ applier = [n \in Node |-> TRUE]
  /\ store = [n \in Node |-> EmptyStore]
  /\ task = [c \in Client |-> Idle]
  /\ elections = 0 /\ restarts = 0 /\ abandons = 0 /\ txns = 0
  /\ executed = [n \in Node |-> <<>>]
  /\ since = [n \in Node |-> 0]
  /\ led = {}
  /\ acked = {}

-----------------------------------------------------------------------------
(* What Raft does to the log *)

\* A node wins an election: it has what is committed and may lack the rest.
Elect(n) ==
  /\ elections < MaxElections
  /\ leader # n
  /\ leader' = n
  /\ \E len \in committed..Len(log) : log' = SubSeq(log, 1, len) /\ last' = len
  /\ led' = led \cup {n}
  /\ elections' = elections + 1
  /\ UNCHANGED <<committed, nodeVars, store, task, restarts, abandons, txns,
                 executed, since, acked>>

\* The leader hears of a higher term.
StepDown ==
  /\ leader # Nobody
  /\ elections < MaxElections
  /\ leader' = Nobody
  /\ UNCHANGED <<log, last, committed, nodeVars, store, task, boundVars, executed, since,
                 led, acked>>

\* notify_up_to(index) of node n: the handlers it wakes.
Woken(n, index) ==
  [c \in Client |->
     IF task[c].pc = "wait" /\ task[c].node = n /\ task[c].at <= index
     THEN [task[c] EXCEPT !.pc = "write"] ELSE task[c]]

\* A majority has what the leader sent: the answer that shows it moves the
\* leader's commit index and wakes who waits for it.
Commit ==
  /\ leader # Nobody
  /\ \E i \in (committed + 1)..last :
       /\ committed' = i
       /\ commit' = [commit EXCEPT ![leader] = i]
       /\ task' = Woken(leader, i)
  /\ UNCHANGED <<log, last, leader, applied, channel, applier, store, boundVars,
                 executed, since, led, acked>>

\* A node learns how far the log is committed: a follower from the leader, a
\* new leader from its followers' answers.
LearnCommit(n) ==
  /\ Node # {n}
  /\ \E i \in (commit[n] + 1)..committed :
       /\ commit' = [commit EXCEPT ![n] = i]
       /\ task' = IF leader = n THEN Woken(n, i) ELSE task
  /\ UNCHANGED <<raftVars, applied, channel, applier, store, boundVars,
                 executed, since, led, acked>>

-----------------------------------------------------------------------------
(* The apply loop and the apply channel *)

TickNotifiesBroken(n) == IF applied[n] < commit[n] THEN commit[n] ELSE 0

\* "Always notify commit waiters (handles races between register and commit)".
TickNotifies(n) == commit[n]

ApplyFirstBroken(n) == IF applied[n] = 0 THEN 1 ELSE applied[n]

\* The first index apply_committed_entries sends.
ApplyFirst(n) == applied[n] + 1

ApplyLastBroken(n) == IF commit[n] < Len(log) THEN commit[n] + 1 ELSE Len(log)

\* The last index it finds an entry at: one that is missing is passed over.
ApplyLast(n) == IF commit[n] <= Len(log) THEN commit[n] ELSE Len(log)

\* apply_committed_entries: every waiter up to the commit index is woken, then
\* the entries since last_applied are sent; nobody listens once the task that
\* takes them has ended.
ApplyTick(n) ==
  LET first == ApplyFirst(n)
      new == [i \in 1..(ApplyLast(n) - first + 1) |-> first + i - 1]
  IN
  /\ task' = Woken(n, TickNotifies(n))
  /\ channel' = [channel EXCEPT ![n] = IF applier[n] THEN @ \o new ELSE <<>>]
  /\ applied' = [applied EXCEPT ![n] = commit[n]]
  /\ UNCHANGED <<raftVars, commit, applier, store, boundVars, executed, since, led, acked>>

SkipsBroken(n) == FALSE

\* "Leader applies in KV service write path; skip here": asked when the entry
\* is taken, not when it was committed.
Skips(n) == leader = n

\* process_apply_channel on the leader.
TakeAsLeader(n) ==
  /\ channel[n] # <<>>
  /\ Skips(n)
  /\ channel' = [channel EXCEPT ![n] = Tail(@)]
  /\ UNCHANGED <<raftVars, commit, applied, applier, store, task, boundVars,
                 executed, since, led, acked>>

TakenPanics(n) ==
  LET entry == log[Head(channel[n])]
  IN entry.type = "delete" /\ Panics(store[n], <<entry.data[1]>>, Tail(entry.data))

\* process_apply_channel on any other node.
TakeAsFollower(n) ==
  /\ channel[n] # <<>>
  /\ ~Skips(n)
  /\ ~TakenPanics(n)
  /\ Execute(n, Decode(log[Head(channel[n])]), Head(channel[n]))
  /\ channel' = [channel EXCEPT ![n] = Tail(@)]
  /\ UNCHANGED <<raftVars, commit, applied, applier, task, boundVars, since, led, acked>>

\* The panic ends the task, and the channel with it.
TakePanics(n) ==
  /\ channel[n] # <<>>
  /\ ~Skips(n)
  /\ TakenPanics(n)
  /\ store' = [store EXCEPT ![n].rev = @ + 1]
  /\ applier' = [applier EXCEPT ![n] = FALSE]
  /\ channel' = [channel EXCEPT ![n] = <<>>]
  /\ UNCHANGED <<raftVars, commit, applied, task, boundVars, executed, since, led, acked>>

RestartedAppliedBroken(n) == applied[n]

\* last_applied of a new RaftState.
RestartedApplied(n) == 0

\* The process of node n ends and starts again: log and trees are kept, every
\* index, the key index and the handlers are not.  What the trees are told from
\* here on comes on top of what they hold.
Restart(n) ==
  /\ restarts < MaxRestarts
  /\ leader = n => elections < MaxElections
  /\ restarts' = restarts + 1
  /\ leader' = IF leader = n THEN Nobody ELSE leader
  /\ commit' = [commit EXCEPT ![n] = 0]
  /\ applied' = [applied EXCEPT ![n] = RestartedApplied(n)]
  /\ channel' = [channel EXCEPT ![n] = <<>>]
  /\ applier' = [applier EXCEPT ![n] = TRUE]
  /\ store' = [store EXCEPT ![n] = Reopened(@)]
  /\ task' = [c \in Client |-> IF task[c].node = n THEN Idle ELSE task[c]]
  /\ since' = [since EXCEPT ![n] = Len(executed[n])]
  /\ led' = led \ {n}
  /\ UNCHANGED <<log, last, committed, elections, abandons, txns, executed, acked>>

-----------------------------------------------------------------------------
(* The KV service.  A request sent to another node is forwarded to the      *)
(* leader, or refused, and is then a request to the leader.                 *)

Proposing == {c \in Client : task[c].pc \in {"propose", "append"}}

Serves(c, n) ==
  /\ task[c] = Idle
  /\ leader = n

Begin(c, n, op) ==
  /\ Len(log) + Cardinality(Proposing) < MaxLog
  /\ task' = [task EXCEPT ![c] = [Idle EXCEPT !.pc = "propose", !.node = n, !.op = op]]
  /\ UNCHANGED <<raftVars, nodeVars, store, boundVars, executed, since, led, acked>>

\* put, up to the proposal: ignore_value and ignore_lease read the store.
PutRequest(c, n, key, val, lease, flags) ==
  LET old == store[n].kv[key]
      found == Found(store[n], key)
      kept(field, missing) == IF found THEN old[field] ELSE missing
  IN
  /\ Serves(c, n)
  /\ Begin(c, n,
       [type |-> "put", by |-> c, key |-> key,
        val |-> IF "ignore_value" \in flags THEN kept("val", <<EmptyPart>>) ELSE val,
        lease |-> IF "ignore_lease" \in flags THEN kept("lease", 0) ELSE lease])

\* delete_range, up to the proposal.
DeleteRequest(c, n, key, end) ==
  /\ Serves(c, n)
  /\ Begin(c, n, [type |-> "delete", by |-> c, key |-> key, val |-> end, lease |-> 0])

Appending(n) == {c \in Client : task[c].pc = "append" /\ task[c].node = n}

\* RaftNode::propose takes the index after the last one.
ProposeRead(c) ==
  LET n == task[c].node IN
  /\ task[c].pc = "propose"
  /\ leader = n
  /\ Cardinality(Appending(n)) < MaxProposing
  /\ task' = [task EXCEPT ![c].pc = "append", ![c].at = last + 1]
  /\ UNCHANGED <<raftVars, nodeVars, store, boundVars, executed, since, led, acked>>

\* The logs that can come of node n's append at index `at'.  Nothing is held
\* since the index was taken: another handler may have put its entry there.
\* Then this one takes its place, or only does so in n's own log, the other
\* having been sent; a committed entry stays with those that have it.  What a
\* node appends that does not lead any more is in its own log only.
Appended(n, at, entry) ==
  IF leader # n \/ at > Len(log) + 1 THEN {log}
  ELSE IF at = Len(log) + 1 THEN {Append(log, entry)}
  ELSE IF Node = {n} THEN {[log EXCEPT ![at] = entry]}
  ELSE IF at <= committed THEN {log}
  ELSE {log, [log EXCEPT ![at] = entry]}

\* The rest of propose; a cluster of one commits at once.
ProposeAppend(c) ==
  LET n == task[c].node
      at == task[c].at
  IN
  /\ task[c].pc = "append"
  /\ log' \in Appended(n, at, Encode(task[c].op))
  /\ last' = IF leader = n /\ at <= Len(log) + 1 THEN at ELSE last
  /\ committed' = IF Node = {n} /\ at \in (committed + 1)..Len(log') THEN at ELSE committed
  /\ commit' = IF Node = {n} /\ at <= Len(log') THEN [commit EXCEPT ![n] = at] ELSE commit
  /\ task' = [task EXCEPT ![c].pc = "check"]
  /\ UNCHANGED <<leader, applied, channel, applier, store, boundVars, executed, since, led,
                 acked>>

\* RaftError::NotLeader.
ProposeRefused(c) ==
  /\ task[c].pc = "propose"
  /\ leader # task[c].node
  /\ task' = [task EXCEPT ![c] = Idle]
  /\ UNCHANGED <<raftVars, nodeVars, store, boundVars, executed, since, led, acked>>

\* if commit_index() < log_index
MustWait(c) == commit[task[c].node] < task[c].at

Check(c) ==
  /\ task[c].pc = "check"
  /\ task' = [task EXCEPT ![c].pc = IF MustWait(c) THEN "register" ELSE "write"]
  /\ UNCHANGED <<raftVars, nodeVars, store, boundVars, executed, since, led, acked>>

\* CommitNotifier::register
Register(c) ==
  /\ task[c].pc = "register"
  /\ task' = [task EXCEPT ![c].pc = "wait"]
  /\ UNCHANGED <<raftVars, nodeVars, store, boundVars, executed, since, led, acked>>

\* The five seconds pass, or the client, or the node that forwarded the
\* request, goes away and the handler is dropped where it awaits.
Abandon(c) ==
  /\ abandons < MaxAbandons
  /\ task[c].pc \in {"check", "wait"}
  /\ abandons' = abandons + 1
  /\ task' = [task EXCEPT ![c] = Idle]
  /\ UNCHANGED <<raftVars, nodeVars, store, elections, restarts, txns, executed, since, led,
                 acked>>

\* What the handler of op tells its own store.
Requested(op) ==
  IF op.type = "put" THEN [keys |-> {op.key}, val |-> op.val, lease |-> op.lease]
  ELSE [keys |-> RequestedKeys(op.key, op.val), val |-> None, lease |-> 0]

\* delete_range of the handler's own store panics as a follower's does, unless
\* the range is open.
RequestPanics(s, op) == op.type = "delete" /\ op.val # FromKey /\ Panics(s, op.key, op.val)

\* put and delete_range, from the store write to the answer; nothing asks
\* again whether this node leads.
Write(c) ==
  LET t == task[c] IN
  /\ t.pc = "write"
  /\ ~RequestPanics(store[t.node], t.op)
  /\ Execute(t.node, Requested(t.op), t.at)
  /\ acked' = acked \cup {[by |-> c, at |-> t.at, entry |-> Encode(t.op)]}
  /\ task' = [task EXCEPT ![c] = Idle]
  /\ UNCHANGED <<raftVars, nodeVars, boundVars, since, led>>

\* The panic ends the handler, after delete_range took its revision.
WritePanics(c) ==
  LET t == task[c] IN
  /\ t.pc = "write"
  /\ RequestPanics(store[t.node], t.op)
  /\ store' = [store EXCEPT ![t.node].rev = @ + 1]
  /\ task' = [task EXCEPT ![c] = Idle]
  /\ UNCHANGED <<raftVars, nodeVars, boundVars, executed, since, led, acked>>

\* evaluate_compare: what the store says of the key, against the operand; a
\* key that is not found has 0, or no bytes.
Actual(s, key, target) ==
  IF Found(s, key) THEN s.kv[key][target]
  ELSE IF target = "val" THEN <<>> ELSE 0

EvaluateCompare(s, cmp) ==
  LET actual == Actual(s, cmp.key, cmp.target)
      less(a, b) == IF cmp.target = "val" THEN Before(a, b) ELSE a < b
  IN
  CASE cmp.result = "Equal" -> actual = cmp.operand
    [] cmp.result = "NotEqual" -> actual # cmp.operand
    [] cmp.result = "Greater" -> less(cmp.operand, actual)
    [] cmp.result = "Less" -> less(actual, cmp.operand)

\* txn, up to the choice of its operations; it proposes nothing.  The compares
\* are one step; what happens between them and the operations is not.
TxnRequest(c, n, txn) ==
  LET all_succeed == \A cmp \in txn.compare : EvaluateCompare(store[n], cmp) IN
  /\ Serves(c, n)
  /\ txns < MaxTxns
  /\ txns' = txns + 1
  /\ task' = [task EXCEPT ![c] =
       [Idle EXCEPT !.pc = IF all_succeed THEN "success" ELSE "failure", !.node = n,
                    !.op = txn, !.ops = IF all_succeed THEN txn.success ELSE txn.failure]]
  /\ UNCHANGED <<raftVars, nodeVars, store, elections, restarts, abandons,
                 executed, since, led, acked>>

\* One operation of a txn, on one key; a range only reads.
TxnOperation(c) ==
  LET t == task[c]
      op == Head(t.ops)
  IN
  /\ t.pc \in {"success", "failure"}
  /\ t.ops # <<>>
  /\ IF op.type = "range" THEN UNCHANGED <<store, executed>>
     ELSE Execute(t.node,
            IF op.type = "put" THEN [keys |-> {op.key}, val |-> op.val, lease |-> op.lease]
            ELSE [keys |-> LiteralKeys(op.key, op.val), val |-> None, lease |-> 0], 0)
  /\ task' = [task EXCEPT ![c].ops = Tail(@)]
  /\ UNCHANGED <<raftVars, nodeVars, boundVars, since, led, acked>>

TxnAnswer(c) ==
  /\ task[c].pc \in {"success", "failure"}
  /\ task[c].ops = <<>>
  /\ acked' = acked \cup
       {[by |-> c, at |-> 0, entry |-> [type |-> task[c].pc, data |-> <<>>, by |-> c]]}
  /\ task' = [task EXCEPT ![c] = Idle]
  /\ UNCHANGED <<raftVars, nodeVars, store, boundVars, executed, since, led>>

\* compact: the leader's store only.
Compact(c, n, r) ==
  /\ WithCompact
  /\ r \in 1..store[n].rev
  /\ Serves(c, n)
  /\ store' = [store EXCEPT ![n] = StoreCompact(@, r)]
  /\ UNCHANGED <<raftVars, nodeVars, task, boundVars, executed, since, led, acked>>

-----------------------------------------------------------------------------
RequestNext(c) ==
  \E n \in Node :
    \/ \E k \in Key, v \in Value, l \in Lease, f \in Flags : PutRequest(c, n, k, v, l, f)
    \/ \E k \in Key, e \in RangeEnd : DeleteRequest(c, n, k, e)
    \/ \E t \in Txn : TxnRequest(c, n, t)
    \/ \E r \in 1..store[n].rev : Compact(c, n, r)

HandlerNext(c) ==
  \/ ProposeRead(c) \/ ProposeAppend(c) \/ ProposeRefused(c) \/ Check(c) \/ Register(c)
  \/ Write(c) \/ WritePanics(c) \/ TxnOperation(c) \/ TxnAnswer(c)

TakeNext(n) == TakeAsLeader(n) \/ TakeAsFollower(n) \/ TakePanics(n)

Next ==
  \/ \E n \in Node : Elect(n) \/ LearnCommit(n) \/ ApplyTick(n) \/ TakeNext(n) \/ Restart(n)
  \/ StepDown \/ Commit
  \/ \E c \in Client : RequestNext(c) \/ HandlerNext(c) \/ Abandon(c)

Spec == Init /\ [][Next]_vars

\* The raft loop ticks every 10 ms, the channel's task and the handlers run
\* when they can; a leader that stays reaches its followers.
Fairness ==
  /\ WF_vars(Commit)
  /\ \A n \in Node :
       WF_vars(LearnCommit(n)) /\ WF_vars(ApplyTick(n)) /\ WF_vars(TakeNext(n))
  /\ \A c \in Client : WF_vars(HandlerNext(c))

FairSpec == Spec /\ Fairness

-----------------------------------------------------------------------------
Text == Seq(Nat)

Entry == [type : {"put", "delete"}, data : Text, by : Client]

WriteRecord == [keys : SUBSET StoreKey, val : Text \cup {None}, lease : Nat]

\* The state is of the types the code declares: indices within the log, no
\* revision of a stored key beyond what can have been taken.
TypeOK ==
  /\ log \in Seq(Entry) /\ Len(log) <= MaxLog
  /\ last \in 0..Len(log) /\ committed \in 0..Len(log)
  /\ leader \in Node \cup {Nobody}
  /\ \A n \in Node :
       /\ applied[n] \in 0..committed /\ commit[n] \in 0..committed
       /\ channel[n] \in Seq(1..committed)
       /\ applier[n] \in BOOLEAN
       /\ store[n].rev \in Nat \ {0} /\ store[n].indexed \subseteq StoreKey
       /\ executed[n] \in Seq([at : 0..MaxLog, write : WriteRecord])
       /\ since[n] \in 0..Len(executed[n])
  /\ \A c \in Client :
       /\ task[c].pc \in {"idle", "propose", "append", "check", "register", "wait",
                          "write", "success", "failure"}
       /\ task[c].at \in 0..MaxLog

\* A node that has not led since it started, and whose applying task is alive,
\* has told its trees since then exactly what the entries it took from the
\* channel say, in their order and each once, whatever elections, overlapping
\* proposals, restarts and late commits came between (apply_committed_entries
\* and process_apply_channel).
FollowersInStep ==
  \A n \in Node \ led : applier[n] =>
    LET taken == applied[n] - Len(channel[n]) IN
    /\ SubSeq(executed[n], since[n] + 1, Len(executed[n]))
         = [i \in 1..taken |-> [at |-> i, write |-> Decode(log[i])]]
    /\ store[n].rev = taken + 1

-----------------------------------------------------------------------------
(* The cluster as a replicated store *)

\* The promise of ReplicatedStore: what is committed, read as a follower reads
\* it, is the history; with several requests at once the leader's handlers wake
\* in any order.
R == INSTANCE ReplicatedStore WITH
       Replica <- Node,
       history <- [i \in 1..committed |-> Decode(log[i])],
       coordinator <- IF Cardinality(Client) = 1 THEN Nobody ELSE leader,
       replica <- executed,
       begun <- since

\* Every step of the code is a step of the replicated store or changes nothing
\* of it: between two starts of its node each store performs each committed
\* write once, a follower's in the order of the log.
ImplementsReplicatedStore == R!Spec

\* Every store comes to perform every committed write, after a restart too.
EveryStoreCatchesUp == \A i \in 1..MaxLog : R!CatchesUp(i)

\* A request whose entry its node knows to be committed is answered: the waiter
\* that registers after the commit is not left behind (apply_committed_entries
\* notifies on every tick).
CommittedAnswered ==
  \A c \in Client :
    (task[c].at > 0 /\ task[c].at <= commit[task[c].node]) ~> task[c].pc = "idle"

-----------------------------------------------------------------------------
(* What comments and documents say of the code and the code does not have;   *)
(* the configurations that show it are listed in the README.                 *)

\* A write that was answered with success is the one committed at its index:
\* "Wait for the entry to be committed" (kv_service.rs).
AckedIsCommitted ==
  \A a \in acked : a.at > 0 => a.at <= Len(log) /\ log[a.at] = a.entry

\* No store performs an entry of the log twice: the leader skips entries of the
\* channel "to avoid double-apply" (server/mod.rs).
NoDoubleApply ==
  \A n \in Node : \A p, q \in DOMAIN executed[n] :
    executed[n][p].at = executed[n][q].at /\ executed[n][p].at > 0 => p = q

\* Of two transactions that create one key if it is missing one succeeds:
\* "Compare-and-swap" (README.md).
CreatedOnce == Cardinality({a \in acked : a.entry.type = "success"}) <= 1
=============================================================================
