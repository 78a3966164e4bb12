----------------------------- MODULE RaftReign -----------------------------
(***************************************************************************)
(* Replication during the reign of one leader: Raft from the moment its    *)
(* first election is won, for as long as no election timeout fires and no  *)
(* node restarts.  Messages may be lost, delayed and reordered.            *)
(***************************************************************************)
EXTENDS Raft

CONSTANT Lead       \* the node that won the election

ASSUME LeadAssumption == Lead \in Server

\* The election was for term 1; the double increment in start_real_election
\* and become_candidate has taken the winner to term 2.
ReignTerm == IF Alone THEN 1 ELSE 2

\* A majority answered, and the winner has sent its first heartbeats.
ReignInit ==
  /\ current_term = [i \in Server |-> IF i = Lead THEN ReignTerm ELSE 1]
  /\ voted_for = [i \in Server |-> IF i = Lead THEN Nobody ELSE Lead]
  /\ role = [i \in Server |-> IF i = Lead THEN "Leader" ELSE "Follower"]
  /\ leader_id = [i \in Server |-> IF i = Lead THEN Lead ELSE Nobody]
  /\ commit_index = [i \in Server |-> 0]
  /\ last_applied = [i \in Server |-> 0]
  /\ next_index = [i \in Server |-> [j \in Server |-> 1]]
  /\ match_index = [i \in Server |-> [j \in Server |-> 0]]
  /\ log = [i \in Server |-> EmptyLog]
  /\ applied = [i \in Server |-> <<>>]
  /\ applying = [i \in Server |-> NotApplying]
  /\ election = [i \in Server |-> NoElection]
  /\ granting = [i \in Server |-> {}]
  /\ proposing = [i \in Server |-> [p \in Proposer |-> NoProposal]]
  /\ acked = {}
  /\ boot = [i \in Server |-> 0]
  /\ voteReq = {} /\ voteResp = {}
  /\ appendReq = AppendRequests(Lead, EmptyLog, 0, next_index[Lead])
  /\ appendResp = {} /\ snapReq = {} /\ snapResp = {}
  /\ elections = 1
  /\ cast = {[voter |-> i, term |-> 1, candidate |-> Lead, round |-> 1] : i \in Server}
  /\ won = {[candidate |-> Lead, round |-> 1, boot |-> 0]}
  /\ firstBack = {} /\ commitBack = {}

ReignSpec == ReignInit /\ [][ReplicationNext]_vars

-----------------------------------------------------------------------------
\* Wherever two nodes can both read an entry of some index they read the same
\* one: truncation and re-appending in handle_append_entries never leave a
\* follower with something the leader did not put there, however requests are
\* delayed or reordered.
LogAgreement ==
  \A i, j \in Server : \A n \in Index :
    Get(log[i], n) # NoEntry /\ Get(log[j], n) # NoEntry
      => Get(log[i], n) = Get(log[j], n)

\* A node can read every entry between first_index and last_index: get_range
\* and apply_committed_entries, which skip what they cannot read, skip nothing
\* inside the log, unless handle_install_snapshot has taken an older snapshot
\* than the node had.
NoHoles ==
  \A i \in Server \ firstBack :
    \A n \in log[i].first..log[i].last : Get(log[i], n) # NoEntry

\* No follower considers an entry committed that the leader has not committed
\* or put under its snapshot, and the leader commits only entries it has: late
\* AppendEntries responses, which carry the leader's old last_index and may
\* lower match_index, never push the commit index too far.
CommitBehindLeader ==
  /\ commit_index[Lead] <= log[Lead].last
  /\ \A i \in Server : \/ commit_index[i] <= commit_index[Lead]
                       \/ commit_index[i] < log[Lead].first

\* No snapshot sent to node i holds more than the entries up to its index.
HonestSnapshots(i) ==
  \A m \in snapReq : m.to = i => \A k \in DOMAIN m.data : m.data[k].index <= m.index

\* What a node hands to its state machine are the leader's entries, each under
\* its own index.  As long as neither its first_index nor its commit_index has
\* gone back they are entries the leader committed, and with honest snapshots
\* they come in increasing order and none twice, although commit_index and the
\* log may both move during the awaits of apply_committed_entries.
AppliedInOrder ==
  \A i \in Server : \A k \in DOMAIN applied[i] :
    /\ applied[i][k].entry = log[Lead].entries[applied[i][k].index]
    /\ i \notin firstBack \cup commitBack =>
         /\ applied[i][k].index <= commit_index[Lead]
         /\ HonestSnapshots(i) =>
              \A k2 \in 1..(k - 1) : applied[i][k2].index < applied[i][k].index

\* A proposal that was acknowledged to its client stays in the leader's log
\* under the index it was acknowledged with.
AckedInLog ==
  \A a \in acked : log[Lead].entries[a.index] = a.entry

\* A commit takes a majority: every entry the leader has committed is stored
\* on a majority of the nodes (docs/architecture.md: "Entry is replicated to
\* followers and committed at majority").
CommittedOnMajority ==
  \A n \in 1..commit_index[Lead] :
    Cardinality({i \in Server : Get(log[i], n) = Get(log[Lead], n)}) >= Majority

\* The commit index of a node only advances (docs/multi-node-plan.md:
\* "handle_append_entries() on the follower side is correctly implemented per
\* the Raft paper: ... and commit index advancement").
CommitAdvances == commitBack = {}

\* A node can read its whole log, whatever snapshots it is sent.
WholeLogReadable ==
  \A i \in Server : \A n \in log[i].first..log[i].last : Get(log[i], n) # NoEntry

\* No entry is handed to the state machine twice or out of order.
AppliedOnce ==
  \A i \in Server : \A k \in DOMAIN applied[i] : \A k2 \in 1..(k - 1) :
    applied[i][k2].index < applied[i][k].index

\* Every entry up to last_applied has reached the state machine
\* (docs/architecture.md: "Committed entries are applied to the state machine").
AppliedComplete ==
  \A i \in Server : \A n \in 1..last_applied[i] :
    \E k \in DOMAIN applied[i] : applied[i][k].index = n

\* A snapshot labelled with an index holds the effect of the entries up to
\* that index and of no other (docs/architecture.md, Snapshot Install: the
\* follower takes commit and applied indices from the snapshot index).
SnapshotHoldsItsIndex ==
  \A m \in snapReq : {m.data[k].index : k \in DOMAIN m.data} = 1..m.index

\* Entries below first_index have been removed from the tree (truncate_before:
\* "Delete all entries before the given index").
CompactedEntriesRemoved ==
  \A i \in Server : \A n \in Index :
    n < log[i].first => log[i].entries[n] = NoEntry
=============================================================================
