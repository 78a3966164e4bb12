------------------------------ MODULE Cluster -------------------------------
(***************************************************************************)
(* cluster/mod.rs and api/cluster_service.rs: every node's ClusterManager, *)
(* the membership requests of clients, and the ConfigChange entries they   *)
(* leave in the log.                                                       *)
(*                                                                         *)
(* A request changes the manager of the leader first and proposes the      *)
(* change afterwards; the node may have lost its office by then.  Raft is  *)
(* the external part: one log, of which every node processes a prefix.     *)
(* leader_id stays 0, as set_leader has no caller, so remove_member never  *)
(* takes a member for the leader; demote_member and recover have no caller *)
(* either.  Names and client URLs are left out.                            *)
(***************************************************************************)
EXTENDS Naturals, Sequences, FiniteSets

CONSTANTS
  Node,
  Client,
  MemberId,        \* ids, those of the first members and those to be drawn
  FirstMember,     \* the ids computed from --initial-cluster
  Url,             \* URLs that begin with http:// or https://
  BadUrl,          \* and URLs that do not
  MaxLog,          \* bound: entries proposed
  MaxElections,    \* bound: changes of the leader
  MaxRestarts,     \* bound: restarts
  Nobody, None

VARIABLES
  leader,      \* the node that leads, or Nobody
  log,         \* the ConfigChange entries, in log order
  processed,   \* per node: how many of them its apply task has taken
  members,     \* per node: ClusterManager.members
  task,        \* per client: the change it has made and is about to propose
  elections, restarts

vars == <<leader, log, processed, members, task, elections, restarts>>

UrlList == SUBSET (Url \cup BadUrl)

Member == [peer_urls : UrlList, is_learner : BOOLEAN]

Idle == [node |-> Nobody, cmd |-> None]

\* Member::validate.
Valid(m) == m.peer_urls # {} /\ m.peer_urls \cap BadUrl = {}

-----------------------------------------------------------------------------
\* register_initial_members, on every start.
Registered ==
  [id \in MemberId |->
     IF id \in FirstMember THEN [peer_urls |-> Url, is_learner |-> FALSE] ELSE None]

Init ==
  /\ leader \in Node
  /\ log = <<>>
  /\ processed = [n \in Node |-> 0]
  /\ members = [n \in Node |-> Registered]
  /\ task = [c \in Client |-> Idle]
  /\ elections = 0 /\ restarts = 0

-----------------------------------------------------------------------------
(* ClusterManager: what becomes of the map `mgr' *)

AddMember(mgr, id, m) == [mgr EXCEPT ![id] = m]

RemoveMember(mgr, id) == [mgr EXCEPT ![id] = None]

\* The member is validated once the URLs are stored.
UpdateMember(mgr, id, urls) == [mgr EXCEPT ![id].peer_urls = urls]

PromoteMember(mgr, id) == [mgr EXCEPT ![id].is_learner = FALSE]

-----------------------------------------------------------------------------
(* ClusterService *)

Listed(id) == leader # Nobody /\ members[leader][id] # None

\* A handler's first half, on the leader: its manager becomes mgr, and it goes
\* on to propose cmd or, on an error, returns.
Changes(c, mgr, cmd, ok) ==
  /\ task[c] = Idle
  /\ leader # Nobody
  /\ members' = [members EXCEPT ![leader] = mgr]
  /\ task' = IF ok THEN [task EXCEPT ![c] = [node |-> leader, cmd |-> cmd]] ELSE task
  /\ UNCHANGED <<leader, log, processed, elections, restarts>>

\* member_add: an empty list is refused, the id is drawn at random.
MemberAdd(c, id, urls, learner) ==
  LET m == [peer_urls |-> urls, is_learner |-> learner]
  IN /\ leader # Nobody
     /\ id \notin FirstMember /\ ~ Listed(id)
     /\ Valid(m)
     /\ Changes(c, AddMember(members[leader], id, m), <<"ADD_MEMBER", id>>, TRUE)

MemberRemove(c, id) ==
  /\ Listed(id)
  /\ Changes(c, RemoveMember(members[leader], id), <<"REMOVE_MEMBER", id>>, TRUE)

\* member_update hands the client URLs of the request to update_member, which
\* takes them for the peer URLs.
MemberUpdate(c, id, urls) ==
  /\ Listed(id)
  /\ LET mgr == UpdateMember(members[leader], id, urls)
     IN Changes(c, mgr, <<"UPDATE_MEMBER", id>>, Valid(mgr[id]))

MemberPromote(c, id) ==
  /\ Listed(id) /\ members[leader][id].is_learner
  /\ Changes(c, PromoteMember(members[leader], id), <<"PROMOTE_MEMBER", id>>, TRUE)

\* propose_conf_change: an error if the node does not lead any more; the local
\* change stays either way.  The answer does not wait for the commit.
ProposeConfChange(c) ==
  /\ task[c] # Idle
  /\ IF task[c].node = leader THEN Len(log) < MaxLog /\ log' = Append(log, task[c].cmd)
                              ELSE UNCHANGED log
  /\ task' = [task EXCEPT ![c] = Idle]
  /\ UNCHANGED <<leader, processed, members, elections, restarts>>

-----------------------------------------------------------------------------
\* process_apply_channel: "Followers just log them for now."
ProcessConfigChange(n) ==
  /\ processed[n] < Len(log)
  /\ processed' = [processed EXCEPT ![n] = @ + 1]
  /\ UNCHANGED <<leader, log, members, task, elections, restarts>>

\* External: Raft gives the office to another node.
NewLeader(n) ==
  /\ elections < MaxElections
  /\ leader # n
  /\ elections' = elections + 1
  /\ leader' = n
  /\ UNCHANGED <<log, processed, members, task, restarts>>

\* Nothing of the manager is stored.
Restart(n) ==
  /\ restarts < MaxRestarts
  /\ restarts' = restarts + 1
  /\ leader' = IF leader = n THEN Nobody ELSE leader
  /\ processed' = [processed EXCEPT ![n] = 0]
  /\ members' = [members EXCEPT ![n] = Registered]
  /\ task' = [c \in Client |-> IF task[c].node = n THEN Idle ELSE task[c]]
  /\ UNCHANGED <<log, elections>>

Request(c) ==
  \E id \in MemberId :
    \/ \E urls \in UrlList, learner \in BOOLEAN : MemberAdd(c, id, urls, learner)
    \/ MemberRemove(c, id)
    \/ \E urls \in UrlList : MemberUpdate(c, id, urls)
    \/ MemberPromote(c, id)

Next ==
  \/ \E c \in Client : Request(c) \/ ProposeConfChange(c)
  \/ \E n \in Node : ProcessConfigChange(n) \/ NewLeader(n) \/ Restart(n)

Spec == Init /\ [][Next]_vars

-----------------------------------------------------------------------------
Settled ==
  /\ \A n \in Node : processed[n] = Len(log)
  /\ \A c \in Client : task[c] = Idle

\* Once every node has processed a log of membership changes and no request is
\* under way, all nodes list the same members: "This ensures consistent cluster
\* membership across all nodes" (docs/architecture.md).
MembersAgree ==
  Settled /\ log # <<>> => \A m, n \in Node : members[m] = members[n]
=============================================================================
