------------------------------- MODULE Raft -------------------------------
(***************************************************************************)
(* A cluster of rusd nodes running src/src/raft: elections with pre-vote,  *)
(* log replication, commit, apply, snapshots and restarts.                 *)
(*                                                                         *)
(* Granularity.  A node is a tick task, one task per RPC it receives, one  *)
(* task per RPC it has sent and one task per client proposal.  tick awaits *)
(* its election inline, so while an election collects votes the node does  *)
(* nothing else in its tick, but its handlers keep running.  Each action   *)
(* is what a task does between two awaits, except where two tasks that run *)
(* on different threads meet in the middle of one: granting a vote and     *)
(* proposing an entry read shared state and write it later, in a second    *)
(* action.                                                                 *)
(*                                                                         *)
(* Network.  Requests and responses are sets; nothing forces a message to  *)
(* be handled (loss) or handled in order (delay).  Vote requests are sent  *)
(* once and are consumed.  AppendEntries and InstallSnapshot are resent on *)
(* every heartbeat while nothing changes, so any number of equal copies    *)
(* may be in flight: those sets only grow.                                 *)
(*                                                                         *)
(* CountsAnyRound and the definitions whose name ends in Broken are no     *)
(* part of the model: they are plausible errors in the definition that     *)
(* follows them, kept to test that a property notices.                     *)
(***************************************************************************)
EXTENDS RaftLog, Sequences

CONSTANTS
  Server,               \* the members: RaftConfig.id and peers
  Proposer,             \* client tasks that propose concurrently, per node
  MaxEntries,           \* max_log_entries_per_request
  SnapshotThreshold,    \* snapshot_threshold
  MaxElections,         \* bound: election timeouts that fire, in all
  MaxRestarts,          \* bound: restarts per node
  MaxVoteHandlers,      \* bound: RequestVote handlers between read and write
  Nobody                \* Option::None for a node id

ASSUME ServerAssumption ==
  /\ IsFiniteSet(Server)
  /\ Server # {}
  /\ Nobody \notin Server
ASSUME ConfigAssumption ==
  /\ MaxEntries \in Nat \ {0}          \* RaftConfig::validate
  /\ SnapshotThreshold \in Nat
ASSUME NoEntryAssumption == NoEntry \notin Entry

Peers(i) == Server \ {i}

\* total_nodes / 2 + 1
Majority == (Cardinality(Server) \div 2) + 1

VARIABLES
  current_term, voted_for, role, leader_id,      \* RaftState
  commit_index, last_applied,
  next_index, match_index,
  log,                \* RaftLog
  applied,            \* what the apply channel received (and a snapshot restored)
  applying,           \* the apply loop the tick task is in, if any
  election,           \* the election the tick task is collecting votes for
  granting,           \* RequestVote handlers that decided to grant and have not
                      \* recorded the vote yet
  proposing,          \* client proposals in progress
  acked,              \* proposals reported to the client as committed
  boot,               \* restarts so far: RPC tasks die with their process
  voteReq, voteResp, appendReq, appendResp, snapReq, snapResp,
  elections,          \* election timeouts so far
  cast,               \* history: every vote recorded, by the term asked for and
                      \* the election
  won,                \* history: the elections that made a process leader
  firstBack,          \* history: the nodes whose first_index has gone back
  commitBack          \* history: the nodes whose commit_index has gone back

stateVars == <<current_term, voted_for, role, leader_id>>
commitVars == <<commit_index, last_applied, applied, applying>>
leaderVars == <<next_index, match_index>>
voteNet == <<voteReq, voteResp>>
appendNet == <<appendReq, appendResp, snapReq, snapResp>>
clientVars == <<proposing, acked>>
histVars == <<elections, cast, won, firstBack, commitBack>>
vars == <<stateVars, commitVars, leaderVars, log, election, granting,
          clientVars, boot, voteNet, appendNet, histVars>>

Role == {"Follower", "PreCandidate", "Candidate", "Leader"}

NoElection == [phase |-> "idle", term |-> 0, round |-> 0, votes |-> {}]
NotApplying == [busy |-> FALSE, at |-> 0, to |-> 0]
NoProposal == [phase |-> "idle", entry |-> NoEntry, index |-> 0]

AppliedEntry == [index : Index, entry : Entry]
ASSUME NoSnapshotAssumption == NoSnapshot \notin Seq(AppliedEntry)

VoteRequest ==
  [from : Server, to : Server, boot : Nat, round : Nat, pre : BOOLEAN,
   term : Nat, lastIndex : Nat, lastTerm : Nat]
VoteResponse ==
  [from : Server, to : Server, boot : Nat, round : Nat, pre : BOOLEAN,
   reqTerm : Nat, term : Nat, granted : BOOLEAN]
AppendRequest ==
  [from : Server, to : Server, boot : Nat, term : Nat, prev : Nat,
   prevTerm : Nat, entries : Slice, commit : Nat, lastIndex : Nat]
AppendResponse ==
  [from : Server, to : Server, boot : Nat, success : BOOLEAN, match : Nat,
   conflict : Nat, lastIndex : Nat]
SnapshotRequest ==
  [from : Server, to : Server, boot : Nat, term : Nat, index : Nat,
   snapTerm : Nat, data : Seq(AppliedEntry)]
SnapshotResponse ==
  [from : Server, to : Server, boot : Nat, index : Nat]

LogType ==
  [entries : Slice, first : Nat, last : 0..MaxLog, lastTerm : Nat,
   snapIndex : Nat, snapTerm : Nat, data : Seq(AppliedEntry) \cup {NoSnapshot}]

TypeOK ==
  /\ current_term \in [Server -> Nat]
  /\ voted_for \in [Server -> Server \cup {Nobody}]
  /\ role \in [Server -> Role]
  /\ leader_id \in [Server -> Server \cup {Nobody}]
  /\ commit_index \in [Server -> Nat]
  /\ last_applied \in [Server -> Nat]
  /\ next_index \in [Server -> [Server -> Nat]]
  /\ match_index \in [Server -> [Server -> Nat]]
  /\ log \in [Server -> LogType]
  /\ applied \in [Server -> Seq(AppliedEntry)]
  /\ applying \in [Server -> [busy : BOOLEAN, at : Nat, to : Nat]]
  /\ election \in [Server -> [phase : {"idle", "prevote", "vote"}, term : Nat,
                              round : Nat, votes : SUBSET Server]]
  /\ granting \in [Server -> SUBSET VoteResponse]
  /\ proposing \in [Server -> [Proposer ->
                      [phase : {"idle", "append", "wait"},
                       entry : Entry \cup {NoEntry}, index : Nat]]]
  /\ acked \subseteq [node : Server, index : Nat, entry : Entry]
  /\ boot \in [Server -> Nat]
  /\ voteReq \subseteq VoteRequest
  /\ voteResp \subseteq VoteResponse
  /\ appendReq \subseteq AppendRequest
  /\ appendResp \subseteq AppendResponse
  /\ snapReq \subseteq SnapshotRequest
  /\ snapResp \subseteq SnapshotResponse
  /\ elections \in Nat
  /\ cast \subseteq [voter : Server, term : Nat, candidate : Server, round : Nat]
  /\ won \subseteq [candidate : Server, round : Nat, boot : Nat]
  /\ firstBack \subseteq Server
  /\ commitBack \subseteq Server

(***************************************************************************)
(* A node as RaftNode::with_snapshot_callbacks builds it: a single-node    *)
(* cluster is leader of term 1 at once.                                    *)
(***************************************************************************)
Alone == Cardinality(Server) = 1

\* The role of a process that has just been started.
StartupRoleBroken(i) == IF Alone \/ voted_for[i] = i THEN "Leader" ELSE "Follower"
StartupRole(i) == IF Alone THEN "Leader" ELSE "Follower"

Init ==
  /\ current_term = [i \in Server |-> IF Alone THEN 1 ELSE 0]
  /\ voted_for = [i \in Server |-> Nobody]
  /\ role = [i \in Server |-> StartupRole(i)]
  /\ leader_id = [i \in Server |-> IF Alone THEN i ELSE Nobody]
  /\ commit_index = [i \in Server |-> 0]
  /\ last_applied = [i \in Server |-> 0]
  /\ next_index = [i \in Server |-> [j \in Server |-> 1]]
  /\ match_index = [i \in Server |-> [j \in Server |-> 0]]
  /\ log = [i \in Server |-> EmptyLog]
  /\ applied = [i \in Server |-> <<>>]
  /\ applying = [i \in Server |-> NotApplying]
  /\ election = [i \in Server |-> NoElection]
  /\ granting = [i \in Server |-> {}]
  /\ proposing = [i \in Server |-> [p \in Proposer |-> NoProposal]]
  /\ acked = {}
  /\ boot = [i \in Server |-> 0]
  /\ voteReq = {} /\ voteResp = {}
  /\ appendReq = {} /\ appendResp = {} /\ snapReq = {} /\ snapResp = {}
  /\ elections = 0
  /\ cast = {} /\ won = {}
  /\ firstBack = {} /\ commitBack = {}

\* The histories after a step that has given node i another log or commit index.
NoteBack(i) ==
  /\ firstBack' = IF log'[i].first < log[i].first THEN firstBack \cup {i} ELSE firstBack
  /\ commitBack' = IF commit_index'[i] < commit_index[i]
                   THEN commitBack \cup {i} ELSE commitBack

-----------------------------------------------------------------------------
(***************************************************************************)
(* RaftState's role transitions.                                           *)
(***************************************************************************)

\* RaftState::become_follower: takes the term it is given, higher or not.
BecomeFollower(i, term) ==
  /\ current_term' = [current_term EXCEPT ![i] = term]
  /\ role' = [role EXCEPT ![i] = "Follower"]
  /\ voted_for' = [voted_for EXCEPT ![i] = Nobody]
  /\ leader_id' = [leader_id EXCEPT ![i] = Nobody]

\* The requests send_heartbeats sends to each peer j of node i, whose log is
\* l, whose commit index is c and whose next_index map is nxt: a snapshot when
\* j is behind first_index and snapshot data is cached, else AppendEntries.
NeedsSnapshot(l, nxt, j) == nxt[j] < l.first /\ l.data # NoSnapshot

Prev(nxt, j) == IF nxt[j] > 0 THEN nxt[j] - 1 ELSE 0

AppendRequests(i, l, c, nxt) ==
  {[from |-> i, to |-> j, boot |-> boot[i], term |-> current_term[i],
    prev |-> Prev(nxt, j), prevTerm |-> TermOrZero(l, Prev(nxt, j)),
    entries |-> GetRange(l, nxt[j], nxt[j] + MaxEntries),
    commit |-> c, lastIndex |-> l.last] :
      j \in {k \in Peers(i) : ~NeedsSnapshot(l, nxt, k)}}

SnapshotRequests(i, l, nxt) ==
  {[from |-> i, to |-> j, boot |-> boot[i], term |-> current_term[i],
    index |-> l.snapIndex, snapTerm |-> l.snapTerm, data |-> l.data] :
      j \in {k \in Peers(i) : NeedsSnapshot(l, nxt, k)}}

\* send_heartbeats.
SendHeartbeats(i, l, c, nxt) ==
  /\ appendReq' = appendReq \cup AppendRequests(i, l, c, nxt)
  /\ snapReq' = snapReq \cup SnapshotRequests(i, l, nxt)
  /\ UNCHANGED <<appendResp, snapResp>>

\* RaftNode::become_leader: neither the role nor the term is looked at.
BecomeLeader(i) ==
  LET nxt == [j \in Server |-> log[i].last + 1]
  IN /\ role' = [role EXCEPT ![i] = "Leader"]
     /\ voted_for' = [voted_for EXCEPT ![i] = Nobody]
     /\ leader_id' = [leader_id EXCEPT ![i] = i]
     /\ next_index' = [next_index EXCEPT ![i] = nxt]
     /\ match_index' = [match_index EXCEPT ![i] = [j \in Server |-> 0]]
     /\ SendHeartbeats(i, log[i], commit_index[i], nxt)
     /\ election' = [election EXCEPT ![i] = NoElection]
     /\ UNCHANGED current_term

-----------------------------------------------------------------------------
(***************************************************************************)
(* Elections.                                                              *)
(***************************************************************************)

VoteRequests(i, term, round, pre) ==
  {[from |-> i, to |-> j, boot |-> boot[i], round |-> round, pre |-> pre,
    term |-> term, lastIndex |-> log[i].last, lastTerm |-> log[i].lastTerm] :
      j \in Peers(i)}

\* start_pre_vote: asks for term + 1 and keeps its own term.
StartPreVote(i, round) ==
  /\ role' = [role EXCEPT ![i] = "PreCandidate"]
  /\ leader_id' = [leader_id EXCEPT ![i] = Nobody]
  /\ election' = [election EXCEPT ![i] =
       [phase |-> "prevote", term |-> current_term[i] + 1, round |-> round,
        votes |-> {i}]]
  /\ voteReq' = voteReq \cup VoteRequests(i, current_term[i] + 1, round, TRUE)
  /\ UNCHANGED <<current_term, voted_for, cast>>

\* start_real_election: set_term(term + 1), then become_candidate adds one
\* more; the request carries the first of the two.
StartRealElection(i, round) ==
  LET new_term == current_term[i] + 1
  IN /\ current_term' = [current_term EXCEPT ![i] = new_term + 1]
     /\ role' = [role EXCEPT ![i] = "Candidate"]
     /\ voted_for' = [voted_for EXCEPT ![i] = i]
     /\ leader_id' = [leader_id EXCEPT ![i] = Nobody]
     /\ election' = [election EXCEPT ![i] =
          [phase |-> "vote", term |-> new_term, round |-> round, votes |-> {i}]]
     /\ voteReq' = voteReq \cup VoteRequests(i, new_term, round, FALSE)
     /\ cast' = cast \cup
          {[voter |-> i, term |-> new_term, candidate |-> i, round |-> round]}

\* The tick task awaits neither votes nor room in the apply channel.
TickFree(i) == election[i].phase = "idle" /\ ~applying[i].busy

\* tick finds the election timer expired and calls start_election.  The role
\* Leader makes it a no-op; a pre-candidate skips the pre-vote.
ElectionTimeout(i) ==
  /\ elections < MaxElections
  /\ TickFree(i)
  /\ role[i] # "Leader"
  /\ elections' = elections + 1
  /\ \/ role[i] \in {"Follower", "Candidate"} /\ StartPreVote(i, elections + 1)
     \/ role[i] = "PreCandidate" /\ StartRealElection(i, elections + 1)
  /\ UNCHANGED <<commitVars, leaderVars, log, granting, clientVars, boot,
                 voteResp, appendNet, won, firstBack, commitBack>>

\* The collection loop ends without a majority: every peer has answered, or
\* the deadline has passed.  The role stays what it is.
ElectionDeadline(i) ==
  /\ election[i].phase # "idle"
  /\ election' = [election EXCEPT ![i] = NoElection]
  /\ UNCHANGED <<stateVars, commitVars, leaderVars, log, granting, clientVars,
                 boot, voteNet, appendNet, histVars>>

\* The candidate's log is at least as up to date as node i's.
LogOk(i, m) ==
  \/ m.lastTerm > log[i].lastTerm
  \/ m.lastTerm = log[i].lastTerm /\ m.lastIndex >= log[i].last

VoteReply(i, m, granted) ==
  [from |-> i, to |-> m.from, boot |-> m.boot, round |-> m.round,
   pre |-> m.pre, reqTerm |-> m.term, term |-> current_term[i],
   granted |-> granted]

\* A higher term in a request makes the receiver a follower of that term,
\* whatever its role and whether or not the request is a pre-vote.
StepDownFor(i, term) ==
  \/ term > current_term[i] /\ BecomeFollower(i, term)
  \/ term <= current_term[i] /\ UNCHANGED stateVars

CanVote(i, m) ==
  m.term > current_term[i] \/ voted_for[i] \in {Nobody, m.from}

\* handle_request_vote up to its decision.  A refusal and a granted pre-vote
\* write nothing more and are answered here; a granted vote still has to be
\* recorded.
HandleRequestVote(i, m) ==
  LET granted == m.term >= current_term[i] /\ CanVote(i, m) /\ LogOk(i, m)
  IN /\ m \in voteReq /\ m.to = i
     /\ Cardinality(granting[i]) < MaxVoteHandlers
     /\ StepDownFor(i, m.term)
     /\ voteReq' = voteReq \ {m}
     /\ IF granted /\ ~m.pre
        THEN /\ granting' = [granting EXCEPT ![i] = @ \cup {VoteReply(i, m, TRUE)}]
             /\ UNCHANGED voteResp
        ELSE /\ voteResp' = voteResp \cup {VoteReply(i, m, granted)}
             /\ UNCHANGED granting
     /\ UNCHANGED <<commitVars, leaderVars, log, election, clientVars, boot,
                    appendNet, histVars>>

\* handle_request_vote records the vote it decided to grant and answers.
RecordVote(i, g) ==
  /\ g \in granting[i]
  /\ granting' = [granting EXCEPT ![i] = @ \ {g}]
  /\ voted_for' = [voted_for EXCEPT ![i] = g.to]
  /\ voteResp' = voteResp \cup {g}
  /\ cast' = cast \cup
       {[voter |-> i, term |-> g.reqTerm, candidate |-> g.to, round |-> g.round]}
  /\ UNCHANGED <<current_term, role, leader_id, commitVars, leaderVars, log,
                 election, clientVars, boot, voteReq, appendNet, elections,
                 won, firstBack, commitBack>>

\* The response belongs to the election whose votes are being collected: each
\* election has a channel of its own.
CountsAnyRound(i, m) ==
  /\ m.granted
  /\ election[i].phase = IF m.pre THEN "prevote" ELSE "vote"
Counts(i, m) ==
  /\ m.granted
  /\ election[i].round = m.round
  /\ election[i].phase = IF m.pre THEN "prevote" ELSE "vote"

\* A vote response reaches the task that sent the request.  A higher term
\* makes the node a follower of that term even when its own term has moved
\* past it; the vote is then counted, and the majority acted on, whatever
\* has happened to the node meanwhile.
HandleVoteResponse(i, m) ==
  LET votes == election[i].votes \cup {m.from}
      wins == Counts(i, m) /\ Cardinality(votes) >= Majority
      higher == ~m.pre /\ m.term > m.reqTerm
  IN /\ m \in voteResp /\ m.to = i /\ m.boot = boot[i]
     /\ voteResp' = voteResp \ {m}
     /\ \/ /\ wins /\ m.pre
           /\ StartRealElection(i, m.round)
           /\ UNCHANGED <<leaderVars, appendNet, won>>
        \/ /\ wins /\ ~m.pre
           /\ BecomeLeader(i)
           /\ won' = won \cup
                {[candidate |-> i, round |-> election[i].round, boot |-> boot[i]]}
           /\ UNCHANGED <<voteReq, cast>>
        \/ /\ ~wins
           /\ \/ higher /\ BecomeFollower(i, m.term)
              \/ ~higher /\ UNCHANGED stateVars
           /\ election' = IF Counts(i, m)
                          THEN [election EXCEPT ![i].votes = votes]
                          ELSE election
           /\ UNCHANGED <<leaderVars, voteReq, appendNet, cast, won>>
     /\ UNCHANGED <<commitVars, log, granting, clientVars, boot, elections, firstBack,
                    commitBack>>

-----------------------------------------------------------------------------
(***************************************************************************)
(* Replication.                                                            *)
(***************************************************************************)

\* The heartbeat of the leader's tick.
TickHeartbeat(i) ==
  /\ role[i] = "Leader"
  /\ TickFree(i)
  /\ SendHeartbeats(i, log[i], commit_index[i], next_index[i])
  /\ UNCHANGED <<stateVars, commitVars, leaderVars, log, election, granting,
                 clientVars, boot, voteNet, histVars>>

\* handle_append_entries walks back from prev over the entries of the
\* conflicting term, not below first_index.
ConflictIndex(l, prev) ==
  LET term == TermOrZero(l, prev)
      reach == {c \in 0..prev :
                  \A k \in c..(prev - 1) : k >= l.first /\ TermOrZero(l, k) = term}
  IN CHOOSE c \in reach : \A d \in reach : c <= d

\* The log after the entries of m: everything from the first of them on is
\* cut off, equal or not, and the new entries are stored.
LogAfterAppendBroken(l, m) ==
  IF Carried(m.entries) = {} THEN l
  ELSE LET first == CHOOSE n \in Carried(m.entries) :
                       \A k \in Carried(m.entries) : n <= k
       IN AppendSlice(IF first <= l.last /\ first > 1 THEN TruncateAfter(l, first - 2) ELSE l,
                      m.entries)
LogAfterAppend(l, m) ==
  IF Carried(m.entries) = {} THEN l
  ELSE LET first == CHOOSE n \in Carried(m.entries) :
                       \A k \in Carried(m.entries) : n <= k
       IN AppendSlice(IF first <= l.last THEN TruncateAfter(l, first - 1) ELSE l,
                      m.entries)

\* The response and, with it, what the sending task captured when it sent the
\* request.  The term and the conflict_term it carries are never read.
AppendReply(i, m, success, match, conflict) ==
  [from |-> i, to |-> m.from, boot |-> m.boot, success |-> success,
   match |-> match, conflict |-> conflict, lastIndex |-> m.lastIndex]

\* handle_append_entries, term below ours.
RefuseAppendEntries(i, m) ==
  /\ m \in appendReq /\ m.to = i
  /\ m.term < current_term[i]
  /\ appendResp' = appendResp \cup {AppendReply(i, m, FALSE, 0, 0)}
  /\ UNCHANGED <<stateVars, commitVars, leaderVars, log, election, granting,
                 clientVars, boot, voteNet, appendReq, snapReq, snapResp,
                 histVars>>

\* The receiver of an accepted leader message: a higher term makes it a
\* follower, an equal term leaves its role alone; either way the sender
\* becomes the known leader.
FollowLeader(i, m) ==
  /\ current_term' = [current_term EXCEPT ![i] = m.term]
  /\ role' = IF m.term > current_term[i]
             THEN [role EXCEPT ![i] = "Follower"] ELSE role
  /\ voted_for' = IF m.term > current_term[i]
                  THEN [voted_for EXCEPT ![i] = Nobody] ELSE voted_for
  /\ leader_id' = [leader_id EXCEPT ![i] = m.from]

\* leader_commit, or the last index of the log when that is lower.
FollowerCommitBroken(l, m) == l.last
FollowerCommit(l, m) == IF m.commit <= l.last THEN m.commit ELSE l.last

\* handle_append_entries, term not below ours.
HandleAppendEntries(i, m) ==
  LET l == log[i]
      ok == HasEntry(l, m.prev, m.prevTerm)
      new == IF ok THEN LogAfterAppend(l, m) ELSE l
  IN /\ m \in appendReq /\ m.to = i
     /\ m.term >= current_term[i]
     /\ FollowLeader(i, m)
     /\ log' = [log EXCEPT ![i] = new]
     /\ commit_index' = IF ok /\ m.commit > commit_index[i]
                        THEN [commit_index EXCEPT ![i] = FollowerCommit(new, m)]
                        ELSE commit_index
     /\ appendResp' = appendResp \cup
          {IF ok
           THEN AppendReply(i, m, TRUE, m.prev + Cardinality(Carried(m.entries)), 0)
           ELSE AppendReply(i, m, FALSE, 0, ConflictIndex(l, m.prev))}
     /\ NoteBack(i)
     /\ UNCHANGED <<last_applied, applied, applying, leaderVars, election, granting,
                    clientVars, boot, voteNet, appendReq, snapReq, snapResp,
                    elections, cast, won>>

\* get_majority_match_index: c is the majority-th largest of the match
\* indices of the peers and the leader's own last index.
IsMajorityMatch(i, match, last, c) ==
  LET at(j) == IF j = i THEN last ELSE match[j]
  IN /\ \E j \in Server : c = at(j)
     /\ Cardinality({j \in Server : at(j) >= c}) >= Majority
     /\ Cardinality({j \in Server : at(j) > c}) < Majority

\* RaftState::decrement_next_index, after a rejection without conflict_index.
NextAfterRejectBroken(n) == n - 1
NextAfterReject(n) == IF n > 0 THEN n - 1 ELSE 0

\* An AppendEntries response reaches the task that sent the request, which
\* looks at neither the term in it nor the node's role.
HandleAppendResponse(i, m) ==
  /\ m \in appendResp /\ m.to = i /\ m.boot = boot[i]
  /\ match_index' = IF m.success
                    THEN [match_index EXCEPT ![i][m.from] = m.match]
                    ELSE match_index
  /\ next_index' = [next_index EXCEPT ![i][m.from] =
                      IF m.success THEN m.match + 1
                      ELSE IF m.conflict > 0 THEN m.conflict
                      ELSE NextAfterReject(@)]
  /\ \E c \in 0..MaxLog :
       /\ IsMajorityMatch(i, match_index'[i], m.lastIndex, c)
       /\ commit_index' = IF c > commit_index[i]
                          THEN [commit_index EXCEPT ![i] = c] ELSE commit_index
  /\ UNCHANGED <<stateVars, last_applied, applied, applying, log, election,
                 granting, clientVars, boot, voteNet, appendNet, histVars>>

-----------------------------------------------------------------------------
(***************************************************************************)
(* Proposals of the client tasks: RaftNode::propose (propose_conf_change   *)
(* is the same with another entry_type), then KvService waits for the      *)
(* commit index.                                                           *)
(***************************************************************************)

\* The index propose gives its entry.
NextLogIndexBroken(l) == IF l.last = 0 THEN 1 ELSE l.last
NextLogIndex(l) == l.last + 1

\* propose reads last_index and the term and builds the entry.
ProposeRead(i, p, d) ==
  /\ proposing[i][p].phase = "idle"
  /\ role[i] = "Leader"
  /\ log[i].last < MaxLog
  /\ proposing' = [proposing EXCEPT ![i][p] =
       [phase |-> "append", entry |-> [term |-> current_term[i], data |-> d],
        index |-> NextLogIndex(log[i])]]
  /\ UNCHANGED <<stateVars, commitVars, leaderVars, log, election, granting,
                 acked, boot, voteNet, appendNet, histVars>>

Single(n, e) == [k \in Index |-> IF k = n THEN e ELSE NoEntry]

\* propose appends the entry under the index it read, commits at once when
\* the node has no peers, and sends heartbeats if it is still leader.
ProposeAppend(i, p) ==
  LET e == proposing[i][p]
      l == AppendSlice(log[i], Single(e.index, e.entry))
      c == IF Alone THEN e.index ELSE commit_index[i]
  IN /\ e.phase = "append"
     /\ log' = [log EXCEPT ![i] = l]
     /\ commit_index' = [commit_index EXCEPT ![i] = c]
     /\ \/ role[i] = "Leader" /\ SendHeartbeats(i, l, c, next_index[i])
        \/ role[i] # "Leader" /\ UNCHANGED appendNet
     /\ proposing' = [proposing EXCEPT ![i][p].phase = "wait"]
     /\ NoteBack(i)
     /\ UNCHANGED <<stateVars, last_applied, applied, applying, leaderVars,
                    election, granting, acked, boot, voteNet, elections, cast, won>>

\* The waiter registered for the index is notified, at the commit or by the
\* next tick, once the commit index has reached it.
ProposeAck(i, p) ==
  LET e == proposing[i][p]
  IN /\ e.phase = "wait"
     /\ e.index <= commit_index[i]
     /\ acked' = acked \cup {[node |-> i, index |-> e.index, entry |-> e.entry]}
     /\ proposing' = [proposing EXCEPT ![i][p] = NoProposal]
     /\ UNCHANGED <<stateVars, commitVars, leaderVars, log, election, granting,
                    boot, voteNet, appendNet, histVars>>

\* The client's wait of five seconds ends without a commit.
ProposeTimeout(i, p) ==
  /\ proposing[i][p].phase = "wait"
  /\ proposing' = [proposing EXCEPT ![i][p] = NoProposal]
  /\ UNCHANGED <<stateVars, commitVars, leaderVars, log, election, granting,
                 acked, boot, voteNet, appendNet, histVars>>

-----------------------------------------------------------------------------
(***************************************************************************)
(* The rest of tick: apply, then a snapshot when the log is long enough.   *)
(***************************************************************************)

\* trigger_snapshot: the index is counted back from last_index, the data is
\* what the store holds now.
SnapshotIndex(l) ==
  IF l.last > SnapshotThreshold \div 2 THEN l.last - (SnapshotThreshold \div 2) ELSE 0

LogAfterTick(l, data) ==
  IF l.last - l.first > SnapshotThreshold /\ SnapshotIndex(l) > l.snapIndex
  THEN TruncateBefore(
         SaveSnapshot(l, SnapshotIndex(l), TermOrZero(l, SnapshotIndex(l)), data),
         SnapshotIndex(l) + 1)
  ELSE l

\* The first index the apply loop hands on.
ApplyFromBroken(i) == last_applied[i]
ApplyFrom(i) == last_applied[i] + 1

\* apply_committed_entries, one step per await on the apply channel.  The
\* commit index is read once, before the first await; an index that cannot be
\* read is skipped without a trace; last_applied is written after the last
\* await, and the snapshot check of tick follows.
TickApply(i) ==
  LET a == IF applying[i].busy THEN applying[i]
           ELSE [busy |-> TRUE, at |-> ApplyFrom(i), to |-> commit_index[i]]
      entry == Get(log[i], a.at)
  IN /\ election[i].phase = "idle"
     /\ \/ /\ a.at <= a.to
           /\ applied' = IF entry = NoEntry THEN applied
                         ELSE [applied EXCEPT ![i] =
                                 Append(@, [index |-> a.at, entry |-> entry])]
           /\ applying' = [applying EXCEPT ![i] = [a EXCEPT !.at = @ + 1]]
           /\ UNCHANGED <<last_applied, log>>
        \/ /\ a.at > a.to
           /\ last_applied' = [last_applied EXCEPT ![i] = a.to]
           /\ log' = [log EXCEPT ![i] = LogAfterTick(@, applied[i])]
           /\ applying' = [applying EXCEPT ![i] = NotApplying]
           /\ UNCHANGED applied
     /\ UNCHANGED <<stateVars, commit_index, leaderVars, election, granting,
                    clientVars, boot, voteNet, appendNet, elections, cast, won>>
     /\ NoteBack(i)

\* handle_install_snapshot.
HandleInstallSnapshot(i, m) ==
  /\ m \in snapReq /\ m.to = i
  /\ snapResp' = snapResp \cup
       {[from |-> i, to |-> m.from, boot |-> m.boot, index |-> m.index]}
  /\ \/ /\ m.term < current_term[i]
        /\ UNCHANGED <<stateVars, commit_index, last_applied, applied, log>>
     \/ /\ m.term >= current_term[i]
        /\ FollowLeader(i, m)
        /\ applied' = [applied EXCEPT ![i] = m.data]
        /\ log' = [log EXCEPT ![i] =
                     TruncateBefore(SaveSnapshot(@, m.index, m.snapTerm, m.data),
                                    m.index + 1)]
        /\ commit_index' = [commit_index EXCEPT ![i] = m.index]
        /\ last_applied' = [last_applied EXCEPT ![i] = m.index]
  /\ NoteBack(i)
  /\ UNCHANGED <<applying, leaderVars, election, granting, clientVars, boot,
                 voteNet, appendReq, appendResp, snapReq, elections, cast, won>>

\* Any answer to InstallSnapshot, a refusal included, counts as installed.
HandleSnapshotResponse(i, m) ==
  /\ m \in snapResp /\ m.to = i /\ m.boot = boot[i]
  /\ match_index' = [match_index EXCEPT ![i][m.from] = m.index]
  /\ next_index' = [next_index EXCEPT ![i][m.from] = m.index + 1]
  /\ UNCHANGED <<stateVars, commitVars, log, election, granting, clientVars,
                 boot, voteNet, appendNet, histVars>>

-----------------------------------------------------------------------------
\* The process dies and a new one opens the same data directory: RaftState
\* starts from scratch, the log is recovered, the store is on disk.
Restart(i) ==
  /\ boot[i] < MaxRestarts
  /\ boot' = [boot EXCEPT ![i] = @ + 1]
  /\ current_term' = [current_term EXCEPT ![i] = IF Alone THEN 1 ELSE 0]
  /\ voted_for' = [voted_for EXCEPT ![i] = Nobody]
  /\ role' = [role EXCEPT ![i] = StartupRole(i)]
  /\ leader_id' = [leader_id EXCEPT ![i] = IF Alone THEN i ELSE Nobody]
  /\ commit_index' = [commit_index EXCEPT ![i] = 0]
  /\ last_applied' = [last_applied EXCEPT ![i] = 0]
  /\ next_index' = [next_index EXCEPT ![i] = [j \in Server |-> 1]]
  /\ match_index' = [match_index EXCEPT ![i] = [j \in Server |-> 0]]
  /\ log' = [log EXCEPT ![i] = Recover(@)]
  /\ applying' = [applying EXCEPT ![i] = NotApplying]
  /\ election' = [election EXCEPT ![i] = NoElection]
  /\ granting' = [granting EXCEPT ![i] = {}]
  /\ proposing' = [proposing EXCEPT ![i] = [p \in Proposer |-> NoProposal]]
  /\ NoteBack(i)
  /\ UNCHANGED <<applied, acked, voteNet, appendNet, elections, cast, won>>

ElectionNext ==
  \E i \in Server :
    \/ ElectionTimeout(i)
    \/ ElectionDeadline(i)
    \/ \E m \in voteReq : HandleRequestVote(i, m)
    \/ \E g \in granting[i] : RecordVote(i, g)
    \/ \E m \in voteResp : HandleVoteResponse(i, m)

ReplicationNext ==
  \E i \in Server :
    \/ TickHeartbeat(i)
    \/ \E m \in appendReq : RefuseAppendEntries(i, m)
    \/ \E m \in appendReq : HandleAppendEntries(i, m)
    \/ \E m \in appendResp : HandleAppendResponse(i, m)
    \/ \E p \in Proposer : \E d \in Data : ProposeRead(i, p, d)
    \/ \E p \in Proposer : ProposeAppend(i, p)
    \/ \E p \in Proposer : ProposeAck(i, p)
    \/ \E p \in Proposer : ProposeTimeout(i, p)
    \/ TickApply(i)
    \/ \E m \in snapReq : HandleInstallSnapshot(i, m)
    \/ \E m \in snapResp : HandleSnapshotResponse(i, m)

Next == ElectionNext \/ ReplicationNext \/ \E i \in Server : Restart(i)

Spec == Init /\ [][Next]_vars

-----------------------------------------------------------------------------
(***************************************************************************)
(* Elections: what holds, and what the repository says that does not.      *)
(***************************************************************************)

\* The nodes that have recorded a vote for candidate c in an election.
VotersFor(c, round) ==
  {v.voter : v \in {w \in cast : w.candidate = c /\ w.round = round}}

\* A node that acts as leader of a cluster of several nodes has won an election
\* since its process was started, and an election is won with recorded votes of
\* a majority for that very election: neither refusals, nor answers to the
\* pre-vote, nor late answers to an earlier election, nor what the node was
\* before a restart make it leader (start_real_election's vote channel,
\* RaftState::new).
ElectedByMajority ==
  /\ \A i \in Server :
       role[i] = "Leader" /\ ~Alone =>
         \E w \in won : w.candidate = i /\ w.boot = boot[i]
  /\ \A w \in won : Cardinality(VotersFor(w.candidate, w.round)) >= Majority

\* Two nodes never act as leader in the same term (docs/multi-node-plan.md,
\* test T1: "Exactly one node reports itself as leader").
OneLeaderPerTerm ==
  \A i, j \in Server :
    role[i] = "Leader" /\ role[j] = "Leader" /\ current_term[i] = current_term[j]
      => i = j

\* A node votes for at most one candidate per term (voted_for, listed in
\* RaftState as state that "should be written to disk"; handle_request_vote,
\* "Check if we've already voted").
VoteOncePerTerm ==
  \A v, w \in cast :
    v.voter = w.voter /\ v.term = w.term => v.candidate = w.candidate

\* While no node has run a real election every node keeps the term it started
\* with: pre-votes alone move no term (docs/architecture.md, Election Flow:
\* "Pre-Vote prevents unnecessary term inflation").
PreVoteKeepsTerms ==
  cast = {} => \A i \in Server : current_term[i] = (IF Alone THEN 1 ELSE 0)
=============================================================================
