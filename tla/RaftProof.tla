----------------------------- MODULE RaftProof ------------------------------
(***************************************************************************)
(* Proofs about Raft as the code runs it, for any cluster, log length and  *)
(* number of elections, restarts and proposals: types, and what makes a    *)
(* node leader; and, for the reign of one leader with one proposal at a    *)
(* time, what its followers' logs, commit indices and state machines hold. *)
(***************************************************************************)
EXTENDS RaftReign, FiniteSetTheorems, WellFoundedInduction, TLAPS

-----------------------------------------------------------------------------
(***************************************************************************)
(* The operators of the log.                                               *)
(***************************************************************************)

\* A nonempty set of numbers has a least one.
LEMMA LeastExists ==
  ASSUME NEW S \in SUBSET Nat, S # {}
  PROVE  \E x \in S : \A y \in S : x <= y
  <1>1. \E x \in S : \A y \in S : ~ (<<y, x>> \in OpToRel(<, Nat))
    BY NatLessThanWellFounded, WFMin, Zenon
  <1>2. PICK x \in S : \A y \in S : ~ (<<y, x>> \in OpToRel(<, Nat))
    BY <1>1
  <1>3. ASSUME NEW y \in S PROVE x <= y
    <2>1. ~ (y < x)
      BY <1>2 DEF OpToRel
    <2> QED
      BY <2>1
  <1> QED
    BY <1>3

\* A nonempty set of indices has a greatest one.
LEMMA GreatestExists ==
  ASSUME NEW S \in SUBSET Index, S # {}
  PROVE  \E x \in S : \A y \in S : y <= x
  <1> DEFINE T == {MaxLog - p : p \in S}
  <1>1. T \in SUBSET Nat /\ T # {}
    <2>1. ASSUME NEW p \in S PROVE MaxLog - p \in Nat
      BY MaxLogAssumption DEF Index
    <2> QED
      BY <2>1
  <1>2. PICK t \in T : \A u \in T : t <= u
    BY <1>1, LeastExists
  <1>3. PICK x \in S : t = MaxLog - x
    BY <1>2
  <1>4. \A y \in S : MaxLog - x <= MaxLog - y
    BY <1>2, <1>3
  <1>5. \A y \in S : y \in Nat
    BY DEF Index
  <1> QED
    BY <1>4, <1>5, MaxLogAssumption

\* What a slice carries has a first and a last entry.
FirstOf(s) == CHOOSE n \in Carried(s) : \A k \in Carried(s) : n <= k
LastOf(s) == CHOOSE n \in Carried(s) : \A m \in Carried(s) : m <= n

LEMMA CarriedEnds ==
  ASSUME NEW s \in Slice, Carried(s) # {}
  PROVE  /\ FirstOf(s) \in Carried(s) /\ \A n \in Carried(s) : FirstOf(s) <= n
         /\ LastOf(s) \in Carried(s) /\ \A n \in Carried(s) : n <= LastOf(s)
  <1>1. Carried(s) \in SUBSET Index /\ Carried(s) \in SUBSET Nat
    BY DEF Carried, Index
  <1>2. \E x \in Carried(s) : \A y \in Carried(s) : x <= y
    BY <1>1, LeastExists
  <1>3. \E x \in Carried(s) : \A y \in Carried(s) : y <= x
    BY <1>1, GreatestExists
  <1> QED
    BY <1>2, <1>3 DEF FirstOf, LastOf

LEMMA CarriedEntry ==
  ASSUME NEW s \in Slice, NEW n \in Carried(s)
  PROVE  n \in Index /\ s[n] \in Entry /\ s[n].term \in Nat
  BY DEF Carried, Slice, Entry

LEMMA GetType ==
  ASSUME NEW l \in LogType, NEW n \in Nat
  PROVE  /\ Get(l, n) \in Entry \cup {NoEntry}
         /\ Get(l, n) # NoEntry => n \in Index /\ Get(l, n) \in Entry
                                   /\ Get(l, n) = l.entries[n] /\ n >= l.first
  BY DEF Get, LogType, Slice

LEMMA GetRangeType ==
  ASSUME NEW l \in LogType, NEW a \in Nat, NEW b \in Nat
  PROVE  GetRange(l, a, b) \in Slice
  <1>1. \A n \in Index : Get(l, n) \in Entry \cup {NoEntry}
    BY GetType DEF Index
  <1> QED
    BY <1>1 DEF GetRange, Slice

LEMMA TermType ==
  ASSUME NEW l \in LogType, NEW n \in Nat
  PROVE  TermOrZero(l, n) \in Nat
  <1>1. l.snapTerm \in Nat
    BY DEF LogType
  <1>2. Get(l, n) # NoEntry => Get(l, n).term \in Nat
    BY GetType DEF Entry
  <1> QED
    BY <1>1, <1>2 DEF TermOrZero, TermAt, NoTerm

LEMMA AppendSliceType ==
  ASSUME NEW l \in LogType, NEW s \in Slice
  PROVE  AppendSlice(l, s) \in LogType
  <1>1. CASE Carried(s) = {}
    BY <1>1 DEF AppendSlice
  <1>2. CASE Carried(s) # {}
    <2>1. PICK last \in Index : last = LastOf(s)
      BY <1>2, CarriedEnds, CarriedEntry
    <2>2. s[last].term \in Nat
      BY <1>2, <2>1, CarriedEnds, CarriedEntry
    <2>3. AppendSlice(l, s) =
            [l EXCEPT !.entries = [n \in Index |-> IF s[n] # NoEntry THEN s[n] ELSE @[n]],
                      !.last = last, !.lastTerm = s[last].term]
      BY <1>2, <2>1 DEF AppendSlice, LastOf
    <2>4. [n \in Index |-> IF s[n] # NoEntry THEN s[n] ELSE l.entries[n]] \in Slice
      BY DEF Slice, LogType
    <2>5. last \in 0..MaxLog
      BY MaxLogAssumption DEF Index
    <2> QED
      BY <2>2, <2>3, <2>4, <2>5 DEF LogType
  <1> QED
    BY <1>1, <1>2

LEMMA TruncateAfterType ==
  ASSUME NEW l \in LogType, NEW n \in Nat
  PROVE  TruncateAfter(l, n) \in LogType
  <1>1. CASE n >= l.last
    BY <1>1 DEF TruncateAfter
  <1>2. CASE ~ (n >= l.last)
    <2>1. l.last \in 0..MaxLog /\ n \in 0..MaxLog
      BY <1>2, MaxLogAssumption DEF LogType
    <2>2. [m \in Index |-> IF m > n /\ m <= l.last THEN NoEntry ELSE l.entries[m]] \in Slice
      BY DEF Slice, LogType
    <2>3. PICK kept \in LogType :
            kept = [l EXCEPT !.entries = [m \in Index |->
                               IF m > n /\ m <= l.last THEN NoEntry ELSE @[m]],
                             !.last = n]
      BY <2>1, <2>2 DEF LogType
    <2>4. TruncateAfter(l, n) = IF Get(kept, n) = NoEntry THEN kept
                                ELSE [kept EXCEPT !.lastTerm = Get(kept, n).term]
      BY <1>2, <2>3 DEF TruncateAfter
    <2>5. Get(kept, n) # NoEntry => Get(kept, n).term \in Nat
      BY GetType DEF Entry
    <2> QED
      BY <2>4, <2>5 DEF LogType
  <1> QED
    BY <1>1, <1>2

LEMMA TruncateBeforeType ==
  ASSUME NEW l \in LogType, NEW n \in Nat
  PROVE  TruncateBefore(l, n) \in LogType
  <1>1. [m \in Index |-> IF m >= l.first /\ m < n THEN NoEntry ELSE l.entries[m]] \in Slice
    BY DEF Slice, LogType
  <1>2. [l EXCEPT !.entries = [m \in Index |->
                     IF m >= l.first /\ m < n THEN NoEntry ELSE @[m]],
                  !.first = n] \in LogType
    BY <1>1 DEF LogType
  <1> QED
    BY <1>2 DEF TruncateBefore

LEMMA SaveSnapshotType ==
  ASSUME NEW l \in LogType, NEW n \in Nat, NEW t \in Nat, NEW d \in Seq(AppliedEntry)
  PROVE  SaveSnapshot(l, n, t, d) \in LogType
  <1>1. n + 1 \in Nat /\ d \in Seq(AppliedEntry) \cup {NoSnapshot}
    OBVIOUS
  <1> QED
    BY <1>1 DEF SaveSnapshot, LogType

LEMMA RecoverType ==
  ASSUME NEW l \in LogType
  PROVE  Recover(l) \in LogType
  <1>1. l.last \in Index /\ l.entries[l.last] # NoEntry => l.entries[l.last].term \in Nat
    BY DEF LogType, Slice, Entry
  <1>2. l.snapIndex + 1 \in Nat
    BY DEF LogType
  <1> QED
    BY <1>1, <1>2 DEF Recover, LogType

LEMMA EmptyLogType == EmptyLog \in LogType
  BY MaxLogAssumption DEF EmptyLog, LogType, EmptySlice, Slice

LEMMA LogAfterAppendType ==
  ASSUME NEW l \in LogType, NEW m, m.entries \in Slice
  PROVE  LogAfterAppend(l, m) \in LogType
  <1>1. CASE Carried(m.entries) = {}
    BY <1>1 DEF LogAfterAppend
  <1>2. CASE Carried(m.entries) # {}
    <2>1. PICK f \in Index : f = FirstOf(m.entries)
      BY <1>2, CarriedEnds, CarriedEntry
    <2>2. PICK k \in LogType : k = IF f <= l.last THEN TruncateAfter(l, f - 1) ELSE l
      <3>1. f - 1 \in Nat
        BY DEF Index
      <3> QED
        BY <3>1, TruncateAfterType
    <2>3. LogAfterAppend(l, m) = AppendSlice(k, m.entries)
      BY <1>2, <2>1, <2>2 DEF LogAfterAppend, FirstOf
    <2> QED
      BY <2>3, AppendSliceType
  <1> QED
    BY <1>1, <1>2

LEMMA SnapshotIndexType ==
  ASSUME NEW l \in LogType
  PROVE  SnapshotIndex(l) \in Nat /\ SnapshotIndex(l) <= l.last
  BY ConfigAssumption DEF SnapshotIndex, LogType

LEMMA LogAfterTickType ==
  ASSUME NEW l \in LogType, NEW d \in Seq(AppliedEntry)
  PROVE  LogAfterTick(l, d) \in LogType
  <1>1. PICK n \in Nat : n = SnapshotIndex(l)
    BY SnapshotIndexType
  <1>2. PICK t \in Nat : t = TermOrZero(l, n)
    BY TermType
  <1>3. TruncateBefore(SaveSnapshot(l, n, t, d), n + 1) \in LogType
    BY SaveSnapshotType, TruncateBeforeType
  <1> QED
    BY <1>1, <1>2, <1>3 DEF LogAfterTick

-----------------------------------------------------------------------------
(***************************************************************************)
(* Types.                                                                  *)
(***************************************************************************)

StateTypes ==
  /\ current_term \in [Server -> Nat]
  /\ voted_for \in [Server -> Server \cup {Nobody}]
  /\ role \in [Server -> Role]
  /\ leader_id \in [Server -> Server \cup {Nobody}]

Applying == [busy : BOOLEAN, at : Nat, to : Nat]

CommitTypes ==
  /\ commit_index \in [Server -> Nat]
  /\ last_applied \in [Server -> Nat]
  /\ applied \in [Server -> Seq(AppliedEntry)]
  /\ applying \in [Server -> Applying]

LeaderTypes ==
  /\ next_index \in [Server -> [Server -> Nat]]
  /\ match_index \in [Server -> [Server -> Nat]]

LogTypes == log \in [Server -> LogType]

Election ==
  [phase : {"idle", "prevote", "vote"}, term : Nat, round : Nat, votes : SUBSET Server]

Ballot == [voter : Server, term : Nat, candidate : Server, round : Nat]
Victory == [candidate : Server, round : Nat, boot : Nat]

VoteTypes ==
  /\ election \in [Server -> Election]
  /\ granting \in [Server -> SUBSET VoteResponse]
  /\ voteReq \subseteq VoteRequest
  /\ voteResp \subseteq VoteResponse
  /\ elections \in Nat
  /\ cast \subseteq Ballot
  /\ won \subseteq Victory

BootTypes == boot \in [Server -> Nat]

\* A proposal under way has its entry and an index with room for it.
Proposal ==
  {q \in [phase : {"idle", "append", "wait"}, entry : Entry \cup {NoEntry}, index : Nat] :
     q.phase # "idle" => q.entry \in Entry /\ q.index \in Index}

ClientTypes ==
  /\ proposing \in [Server -> [Proposer -> Proposal]]
  /\ acked \subseteq [node : Server, index : Nat, entry : Entry]

NetTypes ==
  /\ appendReq \subseteq AppendRequest
  /\ appendResp \subseteq AppendResponse
  /\ snapReq \subseteq SnapshotRequest
  /\ snapResp \subseteq SnapshotResponse

TypeInv ==
  /\ StateTypes /\ CommitTypes /\ LeaderTypes /\ LogTypes
  /\ VoteTypes /\ BootTypes /\ ClientTypes /\ NetTypes

\* The histories of nodes that went back, which no other type rests on.
BackTypes == firstBack \subseteq Server /\ commitBack \subseteq Server

LEMMA TypesImply == TypeInv /\ BackTypes => TypeOK
  <1> SUFFICES ASSUME TypeInv, BackTypes PROVE TypeOK
    OBVIOUS
  <1>1. proposing \in [Server -> [Proposer ->
                        [phase : {"idle", "append", "wait"},
                         entry : Entry \cup {NoEntry}, index : Nat]]]
    <2>1. proposing \in [Server -> [Proposer -> Proposal]]
      BY DEF TypeInv, ClientTypes
    <2>2. Proposal \subseteq [phase : {"idle", "append", "wait"},
                              entry : Entry \cup {NoEntry}, index : Nat]
      BY DEF Proposal
    <2> QED
      BY <2>1, <2>2
  <1> QED
    BY <1>1 DEF TypeInv, TypeOK, StateTypes, CommitTypes, LeaderTypes, LogTypes, VoteTypes,
                BootTypes, ClientTypes, NetTypes, BackTypes, Applying, Election, Ballot, Victory

LEMMA Idles ==
  /\ NoElection \in Election /\ NotApplying \in Applying /\ NoProposal \in Proposal
  BY DEF NoElection, Election, NotApplying, Applying, NoProposal, Proposal

LEMMA TypeInit == Init => TypeInv
  <1> SUFFICES ASSUME Init PROVE TypeInv
    OBVIOUS
  <1>1. StateTypes
    BY DEF Init, StateTypes, StartupRole, Role
  <1>2. CommitTypes
    BY Idles DEF Init, CommitTypes
  <1>3. LeaderTypes /\ LogTypes /\ BootTypes
    BY EmptyLogType DEF Init, LeaderTypes, LogTypes, BootTypes
  <1>4. VoteTypes
    BY Idles DEF Init, VoteTypes
  <1>5. ClientTypes
    BY Idles DEF Init, ClientTypes
  <1>6. NetTypes
    BY DEF Init, NetTypes
  <1> QED
    BY <1>1, <1>2, <1>3, <1>4, <1>5, <1>6 DEF TypeInv

\* What send_heartbeats sends.
LEMMA HeartbeatTypes ==
  ASSUME StateTypes, BootTypes, NEW i \in Server, NEW l \in LogType, NEW c \in Nat,
         NEW nxt \in [Server -> Nat]
  PROVE  /\ AppendRequests(i, l, c, nxt) \subseteq AppendRequest
         /\ SnapshotRequests(i, l, nxt) \subseteq SnapshotRequest
  <1>1. boot[i] \in Nat /\ current_term[i] \in Nat
    BY DEF StateTypes, BootTypes
  <1>2. l.last \in Nat /\ l.snapIndex \in Nat /\ l.snapTerm \in Nat
        /\ l.data \in Seq(AppliedEntry) \cup {NoSnapshot}
    BY DEF LogType
  <1>3. ASSUME NEW m \in AppendRequests(i, l, c, nxt) PROVE m \in AppendRequest
    <2>1. PICK j \in Peers(i) :
            m = [from |-> i, to |-> j, boot |-> boot[i], term |-> current_term[i],
                 prev |-> Prev(nxt, j), prevTerm |-> TermOrZero(l, Prev(nxt, j)),
                 entries |-> GetRange(l, nxt[j], nxt[j] + MaxEntries),
                 commit |-> c, lastIndex |-> l.last]
      BY DEF AppendRequests
    <2>2. j \in Server /\ nxt[j] \in Nat /\ nxt[j] + MaxEntries \in Nat
      BY ConfigAssumption DEF Peers
    <2>3. Prev(nxt, j) \in Nat
      BY <2>2 DEF Prev
    <2>4. TermOrZero(l, Prev(nxt, j)) \in Nat
      BY <2>3, TermType
    <2>5. GetRange(l, nxt[j], nxt[j] + MaxEntries) \in Slice
      BY <2>2, GetRangeType
    <2> QED
      BY <1>1, <1>2, <2>1, <2>2, <2>3, <2>4, <2>5 DEF AppendRequest
  <1>4. ASSUME NEW m \in SnapshotRequests(i, l, nxt) PROVE m \in SnapshotRequest
    <2>1. PICK j \in Peers(i) :
            /\ NeedsSnapshot(l, nxt, j)
            /\ m = [from |-> i, to |-> j, boot |-> boot[i], term |-> current_term[i],
                    index |-> l.snapIndex, snapTerm |-> l.snapTerm, data |-> l.data]
      BY DEF SnapshotRequests
    <2>2. j \in Server /\ l.data \in Seq(AppliedEntry)
      BY <1>2, <2>1 DEF Peers, NeedsSnapshot
    <2> QED
      BY <1>1, <1>2, <2>1, <2>2 DEF SnapshotRequest
  <1> QED
    BY <1>3, <1>4

LEMMA SendTypes ==
  ASSUME TypeInv, NEW i \in Server, NEW l \in LogType, NEW c \in Nat,
         NEW nxt \in [Server -> Nat], SendHeartbeats(i, l, c, nxt)
  PROVE  NetTypes'
  BY HeartbeatTypes DEF TypeInv, SendHeartbeats, NetTypes

LEMMA FollowerTypes ==
  ASSUME StateTypes, NEW i \in Server, NEW t \in Nat, BecomeFollower(i, t)
  PROVE  StateTypes'
  BY DEF StateTypes, BecomeFollower, Role

LEMMA FollowLeaderTypes ==
  ASSUME StateTypes, NEW i \in Server, NEW m, m.term \in Nat, m.from \in Server,
         FollowLeader(i, m)
  PROVE  StateTypes'
  BY DEF StateTypes, FollowLeader, Role

LEMMA VoteRequestTypes ==
  ASSUME TypeInv, NEW i \in Server, NEW t \in Nat, NEW r \in Nat, NEW pre \in BOOLEAN
  PROVE  VoteRequests(i, t, r, pre) \subseteq VoteRequest
  <1>1. log[i].last \in Nat /\ log[i].lastTerm \in Nat /\ boot[i] \in Nat
    BY DEF TypeInv, LogTypes, LogType, BootTypes
  <1>2. Peers(i) \subseteq Server
    BY DEF Peers
  <1>3. ASSUME NEW m \in VoteRequests(i, t, r, pre) PROVE m \in VoteRequest
    <2>1. PICK j \in Peers(i) :
            m = [from |-> i, to |-> j, boot |-> boot[i], round |-> r, pre |-> pre,
                 term |-> t, lastIndex |-> log[i].last, lastTerm |-> log[i].lastTerm]
      BY DEF VoteRequests
    <2> QED
      BY <1>1, <1>2, <2>1 DEF VoteRequest
  <1> QED
    BY <1>3

LEMMA PreVoteTypes ==
  ASSUME TypeInv, NEW i \in Server, NEW r \in Nat, StartPreVote(i, r)
  PROVE  /\ StateTypes' /\ election' \in [Server -> Election]
         /\ voteReq' \subseteq VoteRequest /\ cast' = cast
  <1>1. current_term[i] \in Nat /\ current_term[i] + 1 \in Nat
    BY DEF TypeInv, StateTypes
  <1>2. StateTypes'
    BY DEF TypeInv, StateTypes, StartPreVote, Role
  <1>3. [phase |-> "prevote", term |-> current_term[i] + 1, round |-> r, votes |-> {i}]
          \in Election
    BY <1>1 DEF Election
  <1>4. election' \in [Server -> Election]
    BY <1>3 DEF TypeInv, VoteTypes, StartPreVote
  <1>5. voteReq' \subseteq VoteRequest
    BY <1>1, VoteRequestTypes DEF TypeInv, VoteTypes, StartPreVote
  <1> QED
    BY <1>2, <1>4, <1>5 DEF StartPreVote

LEMMA RealElectionTypes ==
  ASSUME TypeInv, NEW i \in Server, NEW r \in Nat, StartRealElection(i, r)
  PROVE  /\ StateTypes' /\ election' \in [Server -> Election]
         /\ voteReq' \subseteq VoteRequest /\ cast' \subseteq Ballot
  <1>1. PICK t \in Nat : t = current_term[i] + 1
    BY DEF TypeInv, StateTypes
  <1>2. StateTypes'
    BY <1>1 DEF TypeInv, StateTypes, StartRealElection, Role
  <1>3. [phase |-> "vote", term |-> t, round |-> r, votes |-> {i}] \in Election
    BY DEF Election
  <1>4. election' \in [Server -> Election]
    BY <1>1, <1>3 DEF TypeInv, VoteTypes, StartRealElection
  <1>5. voteReq' \subseteq VoteRequest
    BY <1>1, VoteRequestTypes DEF TypeInv, VoteTypes, StartRealElection
  <1>6. cast' \subseteq Ballot
    BY <1>1 DEF TypeInv, VoteTypes, StartRealElection, Ballot
  <1> QED
    BY <1>2, <1>4, <1>5, <1>6

\* Elections.
LEMMA TimeoutTypes ==
  ASSUME TypeInv, NEW i \in Server, ElectionTimeout(i)
  PROVE  TypeInv'
  <1>1. elections + 1 \in Nat
    BY DEF TypeInv, VoteTypes
  <1>2. /\ StateTypes' /\ election' \in [Server -> Election]
        /\ voteReq' \subseteq VoteRequest /\ cast' \subseteq Ballot
    <2>1. CASE StartPreVote(i, elections + 1)
      BY <1>1, <2>1, PreVoteTypes DEF TypeInv, VoteTypes
    <2>2. CASE StartRealElection(i, elections + 1)
      BY <1>1, <2>2, RealElectionTypes
    <2> QED
      BY <2>1, <2>2 DEF ElectionTimeout
  <1>3. VoteTypes'
    BY <1>1, <1>2 DEF ElectionTimeout, TypeInv, VoteTypes
  <1> QED
    BY <1>2, <1>3 DEF ElectionTimeout, TypeInv, commitVars, leaderVars, clientVars, appendNet,
         CommitTypes, LeaderTypes, LogTypes, BootTypes, ClientTypes, NetTypes

LEMMA DeadlineTypes ==
  ASSUME TypeInv, NEW i \in Server, ElectionDeadline(i)
  PROVE  TypeInv'
  <1>1. VoteTypes'
    BY Idles DEF ElectionDeadline, TypeInv, VoteTypes, voteNet, histVars
  <1> QED
    BY <1>1 DEF ElectionDeadline, TypeInv, stateVars, commitVars, leaderVars, clientVars,
         appendNet, StateTypes, CommitTypes, LeaderTypes, LogTypes, BootTypes, ClientTypes,
         NetTypes

LEMMA RequestVoteTypes ==
  ASSUME TypeInv, NEW i \in Server, NEW m \in voteReq, HandleRequestVote(i, m)
  PROVE  TypeInv'
  <1>1. m \in VoteRequest /\ current_term[i] \in Nat
    BY DEF TypeInv, VoteTypes, StateTypes
  <1>2. \A g \in BOOLEAN : VoteReply(i, m, g) \in VoteResponse
    BY <1>1 DEF VoteReply, VoteRequest, VoteResponse
  <1>3. StateTypes'
    <2>1. StepDownFor(i, m.term) /\ m.term \in Nat
      BY <1>1 DEF HandleRequestVote, VoteRequest
    <2> QED
      BY <2>1, FollowerTypes DEF StepDownFor, TypeInv, stateVars, StateTypes
  <1>4. VoteTypes'
    <2> DEFINE granted == m.term >= current_term[i] /\ CanVote(i, m) /\ LogOk(i, m)
    <2>1. granted \in BOOLEAN
      OBVIOUS
    <2>2. /\ VoteReply(i, m, TRUE) \in VoteResponse
          /\ VoteReply(i, m, granted) \in VoteResponse
      BY <1>2, <2>1
    <2> HIDE DEF granted
    <2>3. \/ /\ granting' = [granting EXCEPT ![i] = @ \cup {VoteReply(i, m, TRUE)}]
             /\ voteResp' = voteResp
          \/ /\ voteResp' = voteResp \cup {VoteReply(i, m, granted)}
             /\ granting' = granting
      BY DEF HandleRequestVote, granted
    <2>4. granting' \in [Server -> SUBSET VoteResponse] /\ voteResp' \subseteq VoteResponse
      BY <2>2, <2>3 DEF TypeInv, VoteTypes
    <2> QED
      BY <2>4 DEF HandleRequestVote, TypeInv, VoteTypes, histVars
  <1> QED
    BY <1>3, <1>4 DEF HandleRequestVote, TypeInv, commitVars, leaderVars, clientVars, appendNet,
         CommitTypes, LeaderTypes, LogTypes, BootTypes, ClientTypes, NetTypes

LEMMA RecordTypes ==
  ASSUME TypeInv, NEW i \in Server, NEW g \in granting[i], RecordVote(i, g)
  PROVE  TypeInv'
  <1>1. g \in VoteResponse
    BY DEF TypeInv, VoteTypes
  <1>2. g.to \in Server /\ g.reqTerm \in Nat /\ g.round \in Nat
    BY <1>1 DEF VoteResponse
  <1>3. StateTypes'
    BY <1>2 DEF RecordVote, TypeInv, StateTypes
  <1>4. VoteTypes'
    <2>1. cast' \subseteq Ballot
      BY <1>2 DEF RecordVote, TypeInv, VoteTypes, Ballot
    <2> QED
      BY <1>1, <2>1 DEF RecordVote, TypeInv, VoteTypes
  <1> QED
    BY <1>3, <1>4 DEF RecordVote, TypeInv, commitVars, leaderVars, clientVars, appendNet,
         CommitTypes, LeaderTypes, LogTypes, BootTypes, ClientTypes, NetTypes

LEMMA VoteResponseTypes ==
  ASSUME TypeInv, NEW i \in Server, NEW m \in voteResp, HandleVoteResponse(i, m)
  PROVE  TypeInv'
  <1>1. m \in VoteResponse
    BY DEF TypeInv, VoteTypes
  <1>2. m.from \in Server /\ m.round \in Nat /\ m.term \in Nat
    BY <1>1 DEF VoteResponse
  <1>3. election[i] \in Election
    BY DEF TypeInv, VoteTypes
  <1>4. /\ voteResp' \subseteq VoteResponse /\ granting' = granting /\ elections' = elections
        /\ boot' = boot /\ CommitTypes' /\ LogTypes' /\ ClientTypes'
    BY DEF HandleVoteResponse, TypeInv, VoteTypes, commitVars, clientVars, CommitTypes, LogTypes,
           ClientTypes
  <1>5. CASE StartRealElection(i, m.round) /\ UNCHANGED <<leaderVars, appendNet, won>>
    <2>1. /\ StateTypes' /\ election' \in [Server -> Election]
          /\ voteReq' \subseteq VoteRequest /\ cast' \subseteq Ballot
      BY <1>2, <1>5, RealElectionTypes
    <2>2. VoteTypes'
      BY <1>4, <1>5, <2>1 DEF TypeInv, VoteTypes
    <2> QED
      BY <1>4, <1>5, <2>1, <2>2 DEF TypeInv, leaderVars, appendNet, LeaderTypes, NetTypes, BootTypes
  <1>6. CASE /\ BecomeLeader(i)
             /\ won' = won \cup
                  {[candidate |-> i, round |-> election[i].round, boot |-> boot[i]]}
             /\ UNCHANGED <<voteReq, cast>>
    <2>0. log[i].last + 1 \in Nat
      <3>1. log[i] \in LogType
        BY DEF TypeInv, LogTypes
      <3>2. log[i].last \in 0..MaxLog
        BY <3>1 DEF LogType
      <3> QED
        BY <3>2, MaxLogAssumption
    <2>1. PICK nxt \in [Server -> Nat] : nxt = [j \in Server |-> log[i].last + 1]
      BY <2>0
    <2>2. NetTypes'
      <3>1. SendHeartbeats(i, log[i], commit_index[i], nxt)
        BY <1>6, <2>1 DEF BecomeLeader
      <3> QED
        BY <3>1, SendTypes DEF TypeInv, LogTypes, CommitTypes
    <2>3. StateTypes' /\ LeaderTypes'
      BY <1>6, <2>1 DEF BecomeLeader, TypeInv, StateTypes, LeaderTypes, Role
    <2>4. election' \in [Server -> Election]
      BY <1>6, Idles DEF BecomeLeader, TypeInv, VoteTypes
    <2>5. won' \subseteq Victory
      BY <1>3, <1>6 DEF TypeInv, VoteTypes, BootTypes, Election, Victory
    <2> QED
      BY <1>4, <1>6, <2>2, <2>3, <2>4, <2>5 DEF TypeInv, VoteTypes, BootTypes
  <1>7. CASE /\ BecomeFollower(i, m.term) \/ UNCHANGED stateVars
             /\ election' = IF Counts(i, m)
                            THEN [election EXCEPT ![i].votes = election[i].votes \cup {m.from}]
                            ELSE election
             /\ UNCHANGED <<leaderVars, voteReq, appendNet, cast, won>>
    <2>1. StateTypes'
      BY <1>2, <1>7, FollowerTypes DEF TypeInv, stateVars, StateTypes
    <2>2. [election[i] EXCEPT !.votes = election[i].votes \cup {m.from}] \in Election
      BY <1>2, <1>3 DEF Election
    <2>3. election' \in [Server -> Election]
      BY <1>7, <2>2 DEF TypeInv, VoteTypes
    <2> QED
      BY <1>4, <1>7, <2>1, <2>3 DEF TypeInv, VoteTypes, leaderVars, appendNet, LeaderTypes,
           NetTypes, BootTypes
  <1> QED
    BY <1>5, <1>6, <1>7 DEF HandleVoteResponse

\* A restart.
LEMMA RestartTypes ==
  ASSUME TypeInv, NEW i \in Server, Restart(i)
  PROVE  TypeInv'
  <1>1. StateTypes'
    BY DEF Restart, TypeInv, StateTypes, StartupRole, Role
  <1>2. CommitTypes'
    BY Idles DEF Restart, TypeInv, CommitTypes
  <1>3. LeaderTypes' /\ BootTypes'
    BY DEF Restart, TypeInv, LeaderTypes, BootTypes
  <1>4. LogTypes'
    BY RecoverType DEF Restart, TypeInv, LogTypes
  <1>5. VoteTypes'
    BY Idles DEF Restart, TypeInv, VoteTypes, voteNet, histVars
  <1>6. ClientTypes'
    BY Idles DEF Restart, TypeInv, ClientTypes
  <1>7. NetTypes'
    BY DEF Restart, TypeInv, NetTypes, appendNet
  <1> QED
    BY <1>1, <1>2, <1>3, <1>4, <1>5, <1>6, <1>7 DEF TypeInv

\* Replication.
LEMMA HeartbeatStepTypes ==
  ASSUME TypeInv, NEW i \in Server, TickHeartbeat(i)
  PROVE  TypeInv'
  <1>1. NetTypes'
    <2>1. /\ log[i] \in LogType /\ commit_index[i] \in Nat /\ next_index[i] \in [Server -> Nat]
          /\ SendHeartbeats(i, log[i], commit_index[i], next_index[i])
      BY DEF TickHeartbeat, TypeInv, LogTypes, CommitTypes, LeaderTypes
    <2> QED
      BY <2>1, SendTypes
  <1> QED
    BY <1>1 DEF TickHeartbeat, TypeInv, stateVars, commitVars, leaderVars, clientVars, voteNet,
         histVars, StateTypes, CommitTypes, LeaderTypes, LogTypes, VoteTypes, BootTypes,
         ClientTypes

LEMMA RefuseTypes ==
  ASSUME TypeInv, NEW i \in Server, NEW m \in appendReq, RefuseAppendEntries(i, m)
  PROVE  TypeInv'
  <1>1. m \in AppendRequest
    BY DEF TypeInv, NetTypes
  <1>2. AppendReply(i, m, FALSE, 0, 0) \in AppendResponse
    BY <1>1 DEF AppendReply, AppendRequest, AppendResponse
  <1>3. NetTypes'
    BY <1>2 DEF RefuseAppendEntries, TypeInv, NetTypes
  <1> QED
    BY <1>3 DEF RefuseAppendEntries, TypeInv, stateVars, commitVars, leaderVars, clientVars,
         voteNet, histVars, StateTypes, CommitTypes, LeaderTypes, LogTypes, VoteTypes, BootTypes,
         ClientTypes

\* The walk back over a conflicting term ends somewhere from 0 to prev.
LEMMA ConflictType ==
  ASSUME NEW l \in LogType, NEW prev \in Nat
  PROVE  ConflictIndex(l, prev) \in 0..prev
  <1> DEFINE reach == {c \in 0..prev :
                         \A k \in c..(prev - 1) :
                           k >= l.first /\ TermOrZero(l, k) = TermOrZero(l, prev)}
  <1>1. prev \in reach
    OBVIOUS
  <1>2. ConflictIndex(l, prev) = CHOOSE c \in reach : \A d \in reach : c <= d
    BY DEF ConflictIndex
  <1>3. reach \subseteq 0..prev
    OBVIOUS
  <1>4. reach \in SUBSET Nat /\ reach # {}
    <2> HIDE DEF reach
    <2> QED
      BY <1>1, <1>3
  <1> HIDE DEF reach
  <1>5. \E c \in reach : \A d \in reach : c <= d
    BY <1>4, LeastExists
  <1> QED
    BY <1>2, <1>3, <1>5

\* A run of entries has as many entries as it has, at most MaxLog.
LEMMA CarriedFinite ==
  ASSUME NEW s \in Slice
  PROVE  IsFiniteSet(Carried(s)) /\ Cardinality(Carried(s)) \in Nat
  <1>1. IsFiniteSet(Index)
    BY MaxLogAssumption, FS_Interval DEF Index
  <1>2. Carried(s) \subseteq Index
    BY DEF Carried
  <1> QED
    BY <1>1, <1>2, FS_Subset, FS_CardinalityType

LEMMA AppendEntriesTypes ==
  ASSUME TypeInv, NEW i \in Server, NEW m \in appendReq, HandleAppendEntries(i, m)
  PROVE  TypeInv'
  <1>1. m \in AppendRequest
    BY DEF TypeInv, NetTypes
  <1>2. /\ m.from \in Server /\ m.boot \in Nat /\ m.term \in Nat /\ m.prev \in Nat
        /\ m.entries \in Slice /\ m.commit \in Nat /\ m.lastIndex \in Nat
    BY <1>1 DEF AppendRequest
  <1>3. PICK l \in LogType : l = log[i]
    BY DEF TypeInv, LogTypes
  <1> DEFINE ok == HasEntry(l, m.prev, m.prevTerm)
  <1>4. PICK new \in LogType : new = IF ok THEN LogAfterAppend(l, m) ELSE l
    BY <1>2, LogAfterAppendType
  <1> HIDE DEF ok
  <1>5. new.last \in Nat
    BY DEF LogType
  <1>6. /\ FollowLeader(i, m) /\ log' = [log EXCEPT ![i] = new]
        /\ commit_index' = IF ok /\ m.commit > commit_index[i]
                           THEN [commit_index EXCEPT ![i] = FollowerCommit(new, m)]
                           ELSE commit_index
        /\ appendResp' = appendResp \cup
             {IF ok
              THEN AppendReply(i, m, TRUE, m.prev + Cardinality(Carried(m.entries)), 0)
              ELSE AppendReply(i, m, FALSE, 0, ConflictIndex(l, m.prev))}
    BY <1>3, <1>4 DEF HandleAppendEntries, ok
  <1>7. StateTypes'
    BY <1>2, <1>6, FollowLeaderTypes DEF TypeInv
  <1>8. LogTypes'
    BY <1>6 DEF TypeInv, LogTypes
  <1>9. CommitTypes'
    <2>1. FollowerCommit(new, m) \in Nat
      BY <1>2, <1>5 DEF FollowerCommit
    <2> QED
      BY <1>6, <2>1 DEF HandleAppendEntries, TypeInv, CommitTypes
  <1>10. NetTypes'
    <2>1. \A b \in BOOLEAN, x \in Nat, y \in Nat : AppendReply(i, m, b, x, y) \in AppendResponse
      BY <1>2 DEF AppendReply, AppendResponse
    <2>2. m.prev + Cardinality(Carried(m.entries)) \in Nat /\ ConflictIndex(l, m.prev) \in Nat
      BY <1>2, CarriedFinite, ConflictType
    <2>3. appendResp' \subseteq AppendResponse
      BY <1>6, <2>1, <2>2 DEF TypeInv, NetTypes
    <2> QED
      BY <2>3 DEF HandleAppendEntries, TypeInv, NetTypes
  <1> QED
    BY <1>7, <1>8, <1>9, <1>10 DEF HandleAppendEntries, TypeInv, leaderVars, clientVars, voteNet,
         histVars, LeaderTypes, VoteTypes, BootTypes, ClientTypes

LEMMA AppendResponseTypes ==
  ASSUME TypeInv, NEW i \in Server, NEW m \in appendResp, HandleAppendResponse(i, m)
  PROVE  TypeInv'
  <1>1. m \in AppendResponse
    BY DEF TypeInv, NetTypes
  <1>2. m.from \in Server /\ m.match \in Nat /\ m.conflict \in Nat
    BY <1>1 DEF AppendResponse
  <1>3. match_index' \in [Server -> [Server -> Nat]]
    BY <1>2 DEF HandleAppendResponse, TypeInv, LeaderTypes
  <1>4. next_index' \in [Server -> [Server -> Nat]]
    <2>1. next_index[i][m.from] \in Nat
      BY <1>2 DEF TypeInv, LeaderTypes
    <2>2. PICK n \in Nat : n = IF m.success THEN m.match + 1
                               ELSE IF m.conflict > 0 THEN m.conflict
                               ELSE NextAfterReject(next_index[i][m.from])
      BY <1>2, <2>1 DEF NextAfterReject
    <2>3. next_index' = [next_index EXCEPT ![i][m.from] = n]
      BY <2>2 DEF HandleAppendResponse
    <2> QED
      BY <1>2, <2>3 DEF TypeInv, LeaderTypes
  <1>5. CommitTypes'
    <2>1. PICK c \in 0..MaxLog :
            commit_index' = IF c > commit_index[i]
                            THEN [commit_index EXCEPT ![i] = c] ELSE commit_index
      BY DEF HandleAppendResponse
    <2>2. c \in Nat
      BY MaxLogAssumption
    <2> QED
      BY <2>1, <2>2 DEF HandleAppendResponse, TypeInv, CommitTypes
  <1> QED
    BY <1>3, <1>4, <1>5 DEF HandleAppendResponse, TypeInv, stateVars, clientVars, voteNet,
         appendNet, histVars, StateTypes, LeaderTypes, LogTypes, VoteTypes, BootTypes,
         ClientTypes, NetTypes

LEMMA ProposeReadTypes ==
  ASSUME TypeInv, NEW i \in Server, NEW p \in Proposer, NEW d \in Data, ProposeRead(i, p, d)
  PROVE  TypeInv'
  <1>1. log[i].last \in 0..MaxLog /\ current_term[i] \in Nat
    <2>1. log[i] \in LogType
      BY DEF TypeInv, LogTypes
    <2> QED
      BY <2>1 DEF TypeInv, LogType, StateTypes
  <1>2. NextLogIndex(log[i]) \in Index
    BY <1>1, MaxLogAssumption DEF ProposeRead, NextLogIndex, Index
  <1>3. PICK q \in Proposal :
          q = [phase |-> "append", entry |-> [term |-> current_term[i], data |-> d],
               index |-> NextLogIndex(log[i])]
    <2>1. [term |-> current_term[i], data |-> d] \in Entry
      BY <1>1 DEF Entry
    <2>2. NextLogIndex(log[i]) \in Nat
      BY <1>2 DEF Index
    <2> QED
      BY <1>2, <2>1, <2>2 DEF Proposal
  <1>4. ClientTypes'
    BY <1>3 DEF ProposeRead, TypeInv, ClientTypes
  <1> QED
    BY <1>4 DEF ProposeRead, TypeInv, stateVars, commitVars, leaderVars, voteNet, appendNet,
         histVars, StateTypes, CommitTypes, LeaderTypes, LogTypes, VoteTypes, BootTypes, NetTypes

LEMMA SingleType ==
  ASSUME NEW n \in Index, NEW e \in Entry
  PROVE  Single(n, e) \in Slice
  BY DEF Single, Slice

LEMMA ProposeAppendTypes ==
  ASSUME TypeInv, NEW i \in Server, NEW p \in Proposer, ProposeAppend(i, p)
  PROVE  TypeInv'
  <1>1. PICK q \in Proposal : q = proposing[i][p]
    BY DEF TypeInv, ClientTypes
  <1>2. q.phase = "append" /\ q.entry \in Entry /\ q.index \in Index /\ q.index \in Nat
    BY <1>1 DEF ProposeAppend, Proposal
  <1>3. PICK l \in LogType : l = AppendSlice(log[i], Single(q.index, q.entry))
    BY <1>2, SingleType, AppendSliceType DEF TypeInv, LogTypes
  <1>4. PICK c \in Nat : c = IF Alone THEN q.index ELSE commit_index[i]
    BY <1>2 DEF TypeInv, CommitTypes
  <1>5. /\ log' = [log EXCEPT ![i] = l]
        /\ commit_index' = [commit_index EXCEPT ![i] = c]
        /\ SendHeartbeats(i, l, c, next_index[i]) \/ UNCHANGED appendNet
        /\ proposing' = [proposing EXCEPT ![i][p].phase = "wait"]
    BY <1>1, <1>3, <1>4 DEF ProposeAppend
  <1>6. NetTypes'
    BY <1>5, SendTypes DEF TypeInv, LeaderTypes, appendNet, NetTypes
  <1>7. ClientTypes'
    <2>1. [q EXCEPT !.phase = "wait"] \in Proposal
      BY <1>2 DEF Proposal
    <2>2. proposing' \in [Server -> [Proposer -> Proposal]]
      BY <1>1, <1>5, <2>1 DEF TypeInv, ClientTypes
    <2> QED
      BY <2>2 DEF ProposeAppend, TypeInv, ClientTypes
  <1>8. LogTypes' /\ CommitTypes'
    BY <1>5 DEF ProposeAppend, TypeInv, LogTypes, CommitTypes
  <1> QED
    BY <1>6, <1>7, <1>8 DEF ProposeAppend, TypeInv, stateVars, leaderVars, voteNet, histVars,
         StateTypes, LeaderTypes, VoteTypes, BootTypes

LEMMA ProposeEndTypes ==
  ASSUME TypeInv, NEW i \in Server, NEW p \in Proposer,
         ProposeAck(i, p) \/ ProposeTimeout(i, p)
  PROVE  TypeInv'
  <1>1. proposing' \in [Server -> [Proposer -> Proposal]]
    BY Idles DEF ProposeAck, ProposeTimeout, TypeInv, ClientTypes
  <1>2. acked' \subseteq [node : Server, index : Nat, entry : Entry]
    <2>1. PICK q \in Proposal : q = proposing[i][p]
      BY DEF TypeInv, ClientTypes
    <2>2. q.phase = "wait"
      BY <2>1 DEF ProposeAck, ProposeTimeout
    <2>3. q.index \in Nat /\ q.entry \in Entry
      BY <2>2 DEF Proposal
    <2>4. acked' \in {acked, acked \cup {[node |-> i, index |-> q.index, entry |-> q.entry]}}
      BY <2>1 DEF ProposeAck, ProposeTimeout
    <2> QED
      BY <2>3, <2>4 DEF TypeInv, ClientTypes
  <1> QED
    BY <1>1, <1>2 DEF ProposeAck, ProposeTimeout, TypeInv, stateVars, commitVars, leaderVars,
         voteNet, appendNet, histVars, StateTypes, CommitTypes, LeaderTypes, LogTypes, VoteTypes,
         BootTypes, ClientTypes, NetTypes

\* The position of the apply loop that this tick starts or continues.
Loop(i) == IF applying[i].busy THEN applying[i]
           ELSE [busy |-> TRUE, at |-> ApplyFrom(i), to |-> commit_index[i]]

LEMMA LoopType ==
  ASSUME TypeInv, NEW i \in Server
  PROVE  Loop(i) \in Applying
  <1>1. applying[i] \in Applying /\ last_applied[i] + 1 \in Nat /\ commit_index[i] \in Nat
    BY DEF TypeInv, CommitTypes
  <1> QED
    BY <1>1 DEF Loop, ApplyFrom, Applying

\* TickApply hands on one entry or ends the loop.
ApplyOne(i) ==
  /\ Loop(i).at <= Loop(i).to
  /\ applied' = IF Get(log[i], Loop(i).at) = NoEntry THEN applied
                ELSE [applied EXCEPT ![i] =
                        Append(@, [index |-> Loop(i).at, entry |-> Get(log[i], Loop(i).at)])]
  /\ applying' = [applying EXCEPT ![i] = [Loop(i) EXCEPT !.at = @ + 1]]
  /\ UNCHANGED <<last_applied, log>>

ApplyEnd(i) ==
  /\ Loop(i).at > Loop(i).to
  /\ last_applied' = [last_applied EXCEPT ![i] = Loop(i).to]
  /\ log' = [log EXCEPT ![i] = LogAfterTick(@, applied[i])]
  /\ applying' = [applying EXCEPT ![i] = NotApplying]
  /\ UNCHANGED applied

LEMMA TickCases ==
  ASSUME NEW i \in Server, TickApply(i)
  PROVE  /\ ApplyOne(i) \/ ApplyEnd(i)
         /\ UNCHANGED <<stateVars, commit_index, leaderVars, election, granting,
                        clientVars, boot, voteNet, appendNet, elections, cast, won>>
  BY DEF TickApply, ApplyOne, ApplyEnd, Loop

LEMMA TickTypes ==
  ASSUME TypeInv, NEW i \in Server, TickApply(i)
  PROVE  TypeInv'
  <1>1. PICK a \in Applying : a = Loop(i)
    BY LoopType
  <1>2. a.at \in Nat /\ a.to \in Nat
    BY DEF Applying
  <1>3. log[i] \in LogType /\ applied[i] \in Seq(AppliedEntry)
    BY DEF TypeInv, LogTypes, CommitTypes
  <1>4. LogTypes'
    <2>1. LogAfterTick(log[i], applied[i]) \in LogType
      BY <1>3, LogAfterTickType
    <2> QED
      BY <2>1, TickCases DEF ApplyOne, ApplyEnd, TypeInv, LogTypes
  <1>5. CommitTypes'
    <2>1. applied' \in [Server -> Seq(AppliedEntry)]
      <3>1. Get(log[i], a.at) # NoEntry =>
              [index |-> a.at, entry |-> Get(log[i], a.at)] \in AppliedEntry
        BY <1>2, <1>3, GetType DEF AppliedEntry
      <3>2. Get(log[i], a.at) # NoEntry =>
              Append(applied[i], [index |-> a.at, entry |-> Get(log[i], a.at)])
                \in Seq(AppliedEntry)
        BY <1>3, <3>1
      <3> QED
        BY <1>1, <3>2, TickCases DEF ApplyOne, ApplyEnd, TypeInv, CommitTypes
    <2>2. [a EXCEPT !.at = a.at + 1] \in Applying
      BY <1>2 DEF Applying
    <2>3. applying' \in [Server -> Applying]
      BY <1>1, <2>2, Idles, TickCases DEF ApplyOne, ApplyEnd, TypeInv, CommitTypes
    <2>4. last_applied' \in [Server -> Nat]
      BY <1>1, <1>2, TickCases DEF ApplyOne, ApplyEnd, TypeInv, CommitTypes
    <2> QED
      BY <2>1, <2>3, <2>4, TickCases DEF TypeInv, CommitTypes
  <1> QED
    BY <1>4, <1>5, TickCases DEF TypeInv, stateVars, leaderVars, clientVars, voteNet,
         appendNet, histVars, StateTypes, LeaderTypes, VoteTypes, BootTypes, ClientTypes,
         NetTypes

LEMMA InstallTypes ==
  ASSUME TypeInv, NEW i \in Server, NEW m \in snapReq, HandleInstallSnapshot(i, m)
  PROVE  TypeInv'
  <1>1. m \in SnapshotRequest
    BY DEF TypeInv, NetTypes
  <1>2. /\ m.from \in Server /\ m.boot \in Nat /\ m.term \in Nat /\ m.index \in Nat
        /\ m.snapTerm \in Nat /\ m.data \in Seq(AppliedEntry)
    BY <1>1 DEF SnapshotRequest
  <1>3. NetTypes'
    <2>1. [from |-> i, to |-> m.from, boot |-> m.boot, index |-> m.index] \in SnapshotResponse
      BY <1>2 DEF SnapshotResponse
    <2> QED
      BY <2>1 DEF HandleInstallSnapshot, TypeInv, NetTypes
  <1>4. PICK l \in LogType :
          l = TruncateBefore(SaveSnapshot(log[i], m.index, m.snapTerm, m.data), m.index + 1)
    <2>1. SaveSnapshot(log[i], m.index, m.snapTerm, m.data) \in LogType
      BY <1>2, SaveSnapshotType DEF TypeInv, LogTypes
    <2> QED
      BY <1>2, <2>1, TruncateBeforeType
  <1>5. CASE UNCHANGED <<stateVars, commit_index, last_applied, applied, log>>
    BY <1>3, <1>5 DEF HandleInstallSnapshot, TypeInv, stateVars, leaderVars, clientVars, voteNet,
         histVars, StateTypes, CommitTypes, LeaderTypes, LogTypes, VoteTypes, BootTypes,
         ClientTypes
  <1>6. CASE /\ FollowLeader(i, m)
             /\ applied' = [applied EXCEPT ![i] = m.data]
             /\ log' = [log EXCEPT ![i] = l]
             /\ commit_index' = [commit_index EXCEPT ![i] = m.index]
             /\ last_applied' = [last_applied EXCEPT ![i] = m.index]
    <2>1. StateTypes'
      BY <1>2, <1>6, FollowLeaderTypes DEF TypeInv
    <2>2. CommitTypes' /\ LogTypes'
      BY <1>2, <1>6 DEF HandleInstallSnapshot, TypeInv, CommitTypes, LogTypes
    <2> QED
      BY <1>3, <2>1, <2>2 DEF HandleInstallSnapshot, TypeInv, leaderVars, clientVars, voteNet,
           histVars, LeaderTypes, VoteTypes, BootTypes, ClientTypes
  <1> QED
    BY <1>4, <1>5, <1>6 DEF HandleInstallSnapshot

LEMMA SnapshotResponseTypes ==
  ASSUME TypeInv, NEW i \in Server, NEW m \in snapResp, HandleSnapshotResponse(i, m)
  PROVE  TypeInv'
  <1>1. m \in SnapshotResponse
    BY DEF TypeInv, NetTypes
  <1>2. m.from \in Server /\ m.index \in Nat /\ m.index + 1 \in Nat
    BY <1>1 DEF SnapshotResponse
  <1>3. LeaderTypes'
    BY <1>2 DEF HandleSnapshotResponse, TypeInv, LeaderTypes
  <1> QED
    BY <1>3 DEF HandleSnapshotResponse, TypeInv, stateVars, commitVars, clientVars, voteNet,
         appendNet, histVars, StateTypes, CommitTypes, LogTypes, VoteTypes, BootTypes,
         ClientTypes, NetTypes

LEMMA ReplicationTypes == TypeInv /\ ReplicationNext => TypeInv'
  BY HeartbeatStepTypes, RefuseTypes, AppendEntriesTypes, AppendResponseTypes, ProposeReadTypes,
     ProposeAppendTypes, ProposeEndTypes, TickTypes, InstallTypes, SnapshotResponseTypes
  DEF ReplicationNext

LEMMA StutterTypes == TypeInv /\ UNCHANGED vars => TypeInv'
  BY DEF vars, TypeInv, stateVars, commitVars, leaderVars, clientVars, voteNet, appendNet,
         histVars, StateTypes, CommitTypes, LeaderTypes, LogTypes, VoteTypes, BootTypes,
         ClientTypes, NetTypes

LEMMA NextTypes == TypeInv /\ [Next]_vars => TypeInv'
  BY TimeoutTypes, DeadlineTypes, RequestVoteTypes, RecordTypes, VoteResponseTypes, RestartTypes,
     ReplicationTypes, StutterTypes
  DEF Next, ElectionNext

\* A step touches the histories only for the node it is about.
LEMMA BackKept ==
  ASSUME Next
  PROVE  UNCHANGED <<firstBack, commitBack>> \/ \E i \in Server : NoteBack(i)
  <1>1. ASSUME NEW i \in Server,
               \/ ElectionTimeout(i)
               \/ ElectionDeadline(i)
               \/ \E m \in voteReq : HandleRequestVote(i, m)
               \/ \E g \in granting[i] : RecordVote(i, g)
               \/ \E m \in voteResp : HandleVoteResponse(i, m)
        PROVE  UNCHANGED <<firstBack, commitBack>>
    BY <1>1 DEF ElectionTimeout, ElectionDeadline, HandleRequestVote, RecordVote,
       HandleVoteResponse, histVars
  <1>2. ASSUME NEW i \in Server,
               \/ TickHeartbeat(i)
               \/ \E m \in appendReq : RefuseAppendEntries(i, m)
               \/ \E m \in appendResp : HandleAppendResponse(i, m)
               \/ \E p \in Proposer : \E d \in Data : ProposeRead(i, p, d)
               \/ \E p \in Proposer : ProposeAck(i, p)
               \/ \E p \in Proposer : ProposeTimeout(i, p)
               \/ \E m \in snapResp : HandleSnapshotResponse(i, m)
        PROVE  UNCHANGED <<firstBack, commitBack>>
    BY <1>2 DEF TickHeartbeat, RefuseAppendEntries, HandleAppendResponse, ProposeRead, ProposeAck,
       ProposeTimeout, HandleSnapshotResponse, histVars
  <1>3. ASSUME NEW i \in Server,
               \/ \E m \in appendReq : HandleAppendEntries(i, m)
               \/ \E p \in Proposer : ProposeAppend(i, p)
               \/ TickApply(i)
               \/ \E m \in snapReq : HandleInstallSnapshot(i, m)
               \/ Restart(i)
        PROVE  NoteBack(i)
    BY <1>3 DEF HandleAppendEntries, ProposeAppend, TickApply, HandleInstallSnapshot, Restart
  <1> QED
    BY <1>1, <1>2, <1>3 DEF Next, ElectionNext, ReplicationNext

LEMMA BackStep == BackTypes /\ [Next]_vars => BackTypes'
  BY BackKept DEF BackTypes, NoteBack, vars, histVars

\* Every field of every node and message has the type the code declares, for
\* any cluster, any log and any elections, restarts and delays: no index or
\* term underflows, and no entry is written outside the log.
THEOREM TypeCorrect == Spec => []TypeOK
  <1>1. Init => TypeInv /\ BackTypes
    BY TypeInit DEF Init, BackTypes
  <1>2. TypeInv /\ BackTypes /\ [Next]_vars => TypeInv' /\ BackTypes'
    BY NextTypes, BackStep
  <1> QED
    BY <1>1, <1>2, TypesImply, PTL DEF Spec

-----------------------------------------------------------------------------
(***************************************************************************)
(* Elections.  Every granted answer on its way, and every vote counted for *)
(* an election, has been recorded by its voter for that very election.     *)
(***************************************************************************)

Recorded ==
  /\ \A i \in Server : \A g \in granting[i] : g.from = i
  /\ \A m \in voteResp : m.granted /\ ~m.pre => m.from \in VotersFor(m.to, m.round)
  /\ \A i \in Server :
       election[i].phase = "vote" => election[i].votes \subseteq VotersFor(i, election[i].round)

VoteInv == TypeInv /\ Recorded /\ ElectedByMajority

\* Votes stay recorded.
LEMMA VotersStay ==
  ASSUME cast \subseteq cast', NEW c, NEW r
  PROVE  VotersFor(c, r) \subseteq VotersFor(c, r)'
  BY DEF VotersFor

LEMMA VotersFinite ==
  ASSUME TypeInv, NEW c, NEW r
  PROVE  VotersFor(c, r) \subseteq Server /\ IsFiniteSet(VotersFor(c, r))
         /\ Cardinality(VotersFor(c, r)) \in Nat
  <1>1. VotersFor(c, r) \subseteq Server
    BY DEF VotersFor, TypeInv, VoteTypes, Ballot
  <1>2. IsFiniteSet(VotersFor(c, r))
    BY <1>1, ServerAssumption, FS_Subset
  <1> QED
    BY <1>1, <1>2, FS_CardinalityType

LEMMA MajorityNat == Majority \in Nat
  <1>1. Cardinality(Server) \in Nat
    BY ServerAssumption, FS_CardinalityType
  <1> QED
    BY <1>1 DEF Majority

LEMMA MoreVoters ==
  ASSUME TypeInv, TypeInv', cast \subseteq cast', NEW c, NEW r,
         Cardinality(VotersFor(c, r)) >= Majority
  PROVE  Cardinality(VotersFor(c, r))' >= Majority
  <1>1. PICK S : S = VotersFor(c, r)
    OBVIOUS
  <1>2. PICK T : T = VotersFor(c, r)'
    OBVIOUS
  <1>3. S \subseteq T
    BY <1>1, <1>2, VotersStay
  <1>4. T \subseteq Server
    BY <1>2 DEF VotersFor, TypeInv, VoteTypes, Ballot
  <1>5. IsFiniteSet(T) /\ Cardinality(T) \in Nat /\ Cardinality(S) \in Nat
        /\ Cardinality(S) <= Cardinality(T)
    BY <1>3, <1>4, ServerAssumption, FS_Subset, FS_CardinalityType
  <1>6. Cardinality(S) >= Majority
    BY <1>1
  <1>7. Cardinality(VotersFor(c, r))' = Cardinality(T)
    BY <1>2
  <1> QED
    BY <1>5, <1>6, <1>7, MajorityNat

\* What has been won stays won, and what was elected stays elected, while
\* nobody becomes leader or restarts.
LEMMA ElectedStays ==
  ASSUME TypeInv, TypeInv', ElectedByMajority, cast \subseteq cast', won' = won, boot' = boot,
         \A i \in Server : role'[i] = "Leader" => role[i] = "Leader"
  PROVE  ElectedByMajority'
  <1>1. \A w \in won : Cardinality(VotersFor(w.candidate, w.round))' >= Majority
    BY MoreVoters DEF ElectedByMajority
  <1>2. \A w \in won' : Cardinality(VotersFor(w.candidate, w.round)') >= Majority
    BY <1>1
  <1>3. \A i \in Server : role'[i] = "Leader" /\ ~Alone =>
          \E w \in won' : w.candidate = i /\ w.boot = boot'[i]
    BY DEF ElectedByMajority
  <1> QED
    BY <1>2, <1>3 DEF ElectedByMajority, Alone

LEMMA VoteInit == Init => VoteInv
  <1> SUFFICES ASSUME Init PROVE VoteInv
    OBVIOUS
  <1>1. Recorded
    BY DEF Init, Recorded, NoElection
  <1>2. ElectedByMajority
    BY DEF Init, ElectedByMajority, StartupRole
  <1> QED
    BY <1>1, <1>2, TypeInit DEF VoteInv

\* A candidate votes for itself in the election it starts.
LEMMA RealElectionVotes ==
  ASSUME TypeInv, NEW i \in Server, NEW round, StartRealElection(i, round)
  PROVE  /\ cast \subseteq cast'
         /\ \A j \in Server : j # i => election'[j] = election[j]
         /\ \A j \in Server : role'[j] = "Leader" => role[j] = "Leader"
         /\ election'[i].votes \subseteq VotersFor(i, election[i].round)'
  <1>1. PICK t : t = current_term[i] + 1
    OBVIOUS
  <1>2. election' = [election EXCEPT ![i] = [phase |-> "vote", term |-> t, round |-> round,
                                             votes |-> {i}]]
    BY <1>1 DEF StartRealElection
  <1>3. cast' = cast \cup {[voter |-> i, term |-> t, candidate |-> i, round |-> round]}
    BY <1>1 DEF StartRealElection
  <1>4. election \in [Server -> Election]
    BY DEF TypeInv, VoteTypes
  <1>5. election'[i].votes = {i} /\ election'[i].round = round
    BY <1>2, <1>4
  <1>6. PICK v : v = [voter |-> i, term |-> t, candidate |-> i, round |-> round]
    OBVIOUS
  <1>7. i \in VotersFor(i, round)'
    <2>1. v \in cast' /\ v.voter = i /\ v.candidate = i /\ v.round = round
      BY <1>3, <1>6
    <2> QED
      BY <2>1 DEF VotersFor
  <1>8. \A j \in Server : role'[j] = "Leader" => role[j] = "Leader"
    BY DEF StartRealElection, TypeInv, StateTypes
  <1>9. \A j \in Server : j # i => election'[j] = election[j]
    BY <1>2, <1>4
  <1>10. cast \subseteq cast'
    BY <1>3
  <1>11. election'[i].votes \subseteq VotersFor(i, election[i].round)'
    BY <1>5, <1>7
  <1> QED
    BY <1>8, <1>9, <1>10, <1>11

\* Answers and counted votes stay recorded; only node i's election is new.
LEMMA RecordedStays ==
  ASSUME Recorded, cast \subseteq cast', granting' = granting, voteResp' \subseteq voteResp,
         NEW i \in Server,
         \A j \in Server : j # i => election'[j] = election[j],
         election'[i].phase = "vote" =>
           election'[i].votes \subseteq VotersFor(i, election[i].round)'
  PROVE  Recorded'
  <1>1. \A m \in voteResp' : m.granted /\ ~m.pre => m.from \in VotersFor(m.to, m.round)'
    BY VotersStay DEF Recorded
  <1>2. ASSUME NEW j \in Server, election'[j].phase = "vote"
        PROVE  election'[j].votes \subseteq VotersFor(j, election[j].round)'
    <2>1. CASE j # i
      <3>1. PICK e : e = election[j] /\ e = election'[j]
        BY <2>1
      <3>2. e.votes \subseteq VotersFor(j, e.round)
        BY <1>2, <3>1 DEF Recorded
      <3>3. e.votes \subseteq VotersFor(j, e.round)'
        BY <3>2, VotersStay
      <3> QED
        BY <3>1, <3>3
    <2> QED
      BY <1>2, <2>1
  <1>3. \A j \in Server : \A g \in granting'[j] : g.from = j
    BY DEF Recorded
  <1> QED
    BY <1>1, <1>2, <1>3 DEF Recorded

LEMMA TimeoutVotes ==
  ASSUME VoteInv, NEW i \in Server, ElectionTimeout(i)
  PROVE  VoteInv'
  <1>1. TypeInv'
    BY TimeoutTypes DEF VoteInv
  <1>2. /\ cast \subseteq cast' /\ won' = won /\ boot' = boot /\ granting' = granting
        /\ voteResp' = voteResp
    BY DEF ElectionTimeout, StartPreVote, StartRealElection
  <1>3. \A j \in Server : role'[j] = "Leader" => role[j] = "Leader"
    BY DEF ElectionTimeout, StartPreVote, StartRealElection, VoteInv, TypeInv, StateTypes
  <1>4. \A j \in Server : j # i => election'[j] = election[j]
    BY DEF ElectionTimeout, StartPreVote, StartRealElection, VoteInv, TypeInv, VoteTypes
  <1>5. election'[i].phase = "vote" =>
          election'[i].votes \subseteq VotersFor(i, election[i].round)'
    <2>1. CASE StartPreVote(i, elections + 1)
      BY <2>1 DEF StartPreVote, VoteInv, TypeInv, VoteTypes
    <2>2. CASE StartRealElection(i, elections + 1)
      BY <2>2, RealElectionVotes DEF VoteInv
    <2> QED
      BY <2>1, <2>2 DEF ElectionTimeout
  <1>6. Recorded'
    BY <1>2, <1>4, <1>5, RecordedStays DEF VoteInv
  <1> QED
    BY <1>1, <1>2, <1>3, <1>6, ElectedStays DEF VoteInv

\* Steps that neither cast nor count a vote.
LEMMA QuietVotes ==
  ASSUME VoteInv, TypeInv', UNCHANGED <<granting, voteResp, cast, won, boot>>,
         \A i \in Server : role'[i] = "Leader" => role[i] = "Leader",
         \A i \in Server : election'[i] \in {election[i], NoElection}
  PROVE  VoteInv'
  <1>1. \A i \in Server : election'[i].phase = "vote" => election'[i] = election[i]
    BY DEF NoElection
  <1>2. \A c, r : VotersFor(c, r)' = VotersFor(c, r)
    BY DEF VotersFor
  <1>3. Recorded'
    BY <1>1, <1>2 DEF VoteInv, Recorded
  <1> QED
    BY <1>3, ElectedStays DEF VoteInv

LEMMA RequestVotes ==
  ASSUME VoteInv, NEW i \in Server, NEW m \in voteReq, HandleRequestVote(i, m)
  PROVE  VoteInv'
  <1>1. TypeInv'
    BY RequestVoteTypes DEF VoteInv
  <1>2. cast' = cast /\ won' = won /\ boot' = boot /\ election' = election
    BY DEF HandleRequestVote, histVars
  <1>3. \A j \in Server : role'[j] = "Leader" => role[j] = "Leader"
    BY DEF HandleRequestVote, StepDownFor, BecomeFollower, stateVars, VoteInv, TypeInv, StateTypes
  <1> DEFINE granted == m.term >= current_term[i] /\ CanVote(i, m) /\ LogOk(i, m)
  <1>4. \/ /\ granting' = [granting EXCEPT ![i] = @ \cup {VoteReply(i, m, TRUE)}]
           /\ voteResp' = voteResp
        \/ /\ ~ (granted /\ ~m.pre)
           /\ voteResp' = voteResp \cup {VoteReply(i, m, granted)}
           /\ granting' = granting
    BY DEF HandleRequestVote
  <1> HIDE DEF granted
  <1>5. \A g \in BOOLEAN : /\ VoteReply(i, m, g).from = i /\ VoteReply(i, m, g).granted = g
                           /\ VoteReply(i, m, g).pre = m.pre
    BY DEF VoteReply
  <1>6. \A j \in Server : \A g \in granting'[j] : g.from = j
    <2>1. granting \in [Server -> SUBSET VoteResponse]
      BY DEF VoteInv, TypeInv, VoteTypes
    <2>2. granting' = granting
          \/ granting' = [granting EXCEPT ![i] = granting[i] \cup {VoteReply(i, m, TRUE)}]
      BY <1>4
    <2>3. \A j \in Server : \A g \in granting'[j] :
            g \in granting[j] \/ (j = i /\ g = VoteReply(i, m, TRUE))
      BY <2>1, <2>2
    <2> QED
      BY <1>5, <2>3 DEF VoteInv, Recorded
  <1>7. granted \in BOOLEAN
    BY DEF granted
  <1>8. \A r \in voteResp' : r.granted /\ ~r.pre => r \in voteResp
    BY <1>4, <1>5, <1>7
  <1>9. \A c, r : VotersFor(c, r)' = VotersFor(c, r)
    BY <1>2 DEF VotersFor
  <1>10. Recorded'
    BY <1>2, <1>6, <1>8, <1>9 DEF VoteInv, Recorded
  <1> QED
    BY <1>1, <1>2, <1>3, <1>10, ElectedStays DEF VoteInv

LEMMA RecordVotes ==
  ASSUME VoteInv, NEW i \in Server, NEW g \in granting[i], RecordVote(i, g)
  PROVE  VoteInv'
  <1>1. TypeInv'
    BY RecordTypes DEF VoteInv
  <1>2. /\ cast \subseteq cast' /\ won' = won /\ boot' = boot /\ election' = election
        /\ role' = role /\ voteResp' = voteResp \cup {g} /\ g.from = i
        /\ [voter |-> i, term |-> g.reqTerm, candidate |-> g.to, round |-> g.round] \in cast'
    BY DEF RecordVote, VoteInv, Recorded
  <1>3. i \in VotersFor(g.to, g.round)'
    BY <1>2 DEF VotersFor
  <1>4. \A j \in Server : \A h \in granting'[j] : h \in granting[j]
    BY DEF RecordVote, VoteInv, TypeInv, VoteTypes
  <1>5. \A m \in voteResp' : m.granted /\ ~m.pre => m.from \in VotersFor(m.to, m.round)'
    BY <1>2, <1>3, VotersStay DEF VoteInv, Recorded
  <1>6. Recorded'
    BY <1>2, <1>4, <1>5, VotersStay DEF VoteInv, Recorded
  <1> QED
    BY <1>1, <1>2, <1>6, ElectedStays DEF VoteInv

LEMMA ResponseVotes ==
  ASSUME VoteInv, NEW i \in Server, NEW m \in voteResp, HandleVoteResponse(i, m)
  PROVE  VoteInv'
  <1>1. TypeInv'
    BY VoteResponseTypes DEF VoteInv
  <1>2. /\ boot' = boot /\ granting' = granting /\ voteResp' \subseteq voteResp /\ m.to = i
    BY DEF HandleVoteResponse
  <1>3. CASE /\ StartRealElection(i, m.round)
             /\ UNCHANGED <<leaderVars, appendNet, won>>
    <2>1. /\ cast \subseteq cast' /\ won' = won
          /\ \A j \in Server : j # i => election'[j] = election[j]
          /\ \A j \in Server : role'[j] = "Leader" => role[j] = "Leader"
          /\ election'[i].votes \subseteq VotersFor(i, election[i].round)'
      BY <1>3, RealElectionVotes DEF VoteInv
    <2>3. Recorded'
      BY <1>2, <2>1, RecordedStays DEF VoteInv
    <2> QED
      BY <1>1, <1>2, <2>1, <2>3, ElectedStays DEF VoteInv
  <1>4. CASE /\ Counts(i, m) /\ Cardinality(election[i].votes \cup {m.from}) >= Majority
             /\ ~m.pre
             /\ BecomeLeader(i)
             /\ won' = won \cup
                  {[candidate |-> i, round |-> election[i].round, boot |-> boot[i]]}
             /\ UNCHANGED <<voteReq, cast>>
    <2>1. \A c, r : VotersFor(c, r)' = VotersFor(c, r)
      BY <1>4 DEF VotersFor
    <2>2. election[i].votes \cup {m.from} \subseteq VotersFor(i, election[i].round)
      BY <1>2, <1>4 DEF VoteInv, Recorded, Counts
    <2>3. Cardinality(VotersFor(i, election[i].round)) >= Majority
      <3>1. PICK S : S = election[i].votes \cup {m.from}
        OBVIOUS
      <3>2. PICK T : T = VotersFor(i, election[i].round)
        OBVIOUS
      <3>3. IsFiniteSet(T) /\ S \subseteq T
        BY <2>2, <3>1, <3>2, VotersFinite DEF VoteInv
      <3>4. Cardinality(S) <= Cardinality(T) /\ Cardinality(S) \in Nat /\ Cardinality(T) \in Nat
        BY <3>3, FS_Subset, FS_CardinalityType
      <3>5. Cardinality(S) >= Majority
        BY <1>4, <3>1
      <3> QED
        BY <3>2, <3>4, <3>5, MajorityNat
    <2>4. \A j \in Server : election'[j] \in {election[j], NoElection}
      BY <1>4 DEF BecomeLeader, VoteInv, TypeInv, VoteTypes
    <2>5. Recorded'
      <3>1. \A j \in Server : election'[j].phase = "vote" => election'[j] = election[j]
        BY <2>4 DEF NoElection
      <3> QED
        BY <1>2, <2>1, <3>1 DEF VoteInv, Recorded
    <2>6. \A w \in won' : Cardinality(VotersFor(w.candidate, w.round)) >= Majority
      BY <1>4, <2>3 DEF VoteInv, ElectedByMajority
    <2>7. \A w \in won' : Cardinality(VotersFor(w.candidate, w.round)') >= Majority
      BY <2>1, <2>6
    <2>8. \A j \in Server : role'[j] = "Leader" /\ ~Alone =>
            \E w \in won' : w.candidate = j /\ w.boot = boot'[j]
      <3>1. \A j \in Server : j # i => role'[j] = role[j]
        BY <1>4 DEF BecomeLeader, VoteInv, TypeInv, StateTypes
      <3>2. \E w \in won' : w.candidate = i /\ w.boot = boot'[i]
        <4>1. PICK w : w = [candidate |-> i, round |-> election[i].round, boot |-> boot[i]]
          OBVIOUS
        <4>2. w \in won' /\ w.candidate = i /\ w.boot = boot[i]
          BY <1>4, <4>1
        <4> QED
          BY <1>2, <4>2
      <3> QED
        BY <1>2, <1>4, <3>1, <3>2 DEF VoteInv, ElectedByMajority
    <2>9. ElectedByMajority'
      BY <2>7, <2>8 DEF ElectedByMajority, Alone
    <2> QED
      BY <1>1, <2>5, <2>9 DEF VoteInv
  <1>5. CASE /\ BecomeFollower(i, m.term) \/ UNCHANGED stateVars
             /\ election' = IF Counts(i, m)
                            THEN [election EXCEPT ![i].votes = election[i].votes \cup {m.from}]
                            ELSE election
             /\ UNCHANGED <<leaderVars, voteReq, appendNet, cast, won>>
    <2>1. \A c, r : VotersFor(c, r)' = VotersFor(c, r)
      BY <1>5 DEF VotersFor
    <2>2. \A j \in Server : role'[j] = "Leader" => role[j] = "Leader"
      BY <1>5 DEF BecomeFollower, stateVars, VoteInv, TypeInv, StateTypes
    <2>3. \A j \in Server : j # i => election'[j] = election[j]
      BY <1>5 DEF VoteInv, TypeInv, VoteTypes
    <2>4. election'[i].phase = "vote" =>
            election'[i].votes \subseteq VotersFor(i, election'[i].round)
      <3>1. CASE Counts(i, m)
        <4>1. /\ election'[i].phase = election[i].phase
              /\ election'[i].round = election[i].round
              /\ election'[i].votes = election[i].votes \cup {m.from}
          BY <1>5, <3>1 DEF VoteInv, TypeInv, VoteTypes, Election
        <4>2. election[i].phase = "vote" =>
                /\ m.from \in VotersFor(i, election[i].round)
                /\ election[i].votes \subseteq VotersFor(i, election[i].round)
          BY <1>2, <3>1 DEF VoteInv, Recorded, Counts
        <4> QED
          BY <4>1, <4>2
      <3>2. CASE ~Counts(i, m)
        BY <1>5, <3>2 DEF VoteInv, Recorded
      <3> QED
        BY <3>1, <3>2
    <2>5. Recorded'
      BY <1>2, <2>1, <2>3, <2>4 DEF VoteInv, Recorded
    <2> QED
      BY <1>1, <1>2, <1>5, <2>2, <2>5, ElectedStays DEF VoteInv
  <1> QED
    BY <1>3, <1>4, <1>5 DEF HandleVoteResponse

LEMMA RestartVotes ==
  ASSUME VoteInv, NEW i \in Server, Restart(i)
  PROVE  VoteInv'
  <1>1. TypeInv'
    BY RestartTypes DEF VoteInv
  <1>2. /\ UNCHANGED <<voteResp, cast, won>>
        /\ \A j \in Server : j # i => boot'[j] = boot[j] /\ role'[j] = role[j]
        /\ \A j \in Server : election'[j] \in {election[j], NoElection}
        /\ \A j \in Server : granting'[j] \subseteq granting[j]
        /\ role'[i] = StartupRole(i)
    BY DEF Restart, voteNet, histVars, VoteInv, TypeInv, VoteTypes, StateTypes, BootTypes
  <1>3. \A c, r : VotersFor(c, r)' = VotersFor(c, r)
    BY <1>2 DEF VotersFor
  <1>4. \A j \in Server : election'[j].phase = "vote" => election'[j] = election[j]
    BY <1>2 DEF NoElection
  <1>5. Recorded'
    BY <1>2, <1>3, <1>4 DEF VoteInv, Recorded
  <1>6. \A w \in won' : Cardinality(VotersFor(w.candidate, w.round)') >= Majority
    BY <1>2, <1>3 DEF VoteInv, ElectedByMajority
  <1>7. \A j \in Server : role'[j] = "Leader" /\ ~Alone =>
          \E w \in won' : w.candidate = j /\ w.boot = boot'[j]
    BY <1>2 DEF VoteInv, ElectedByMajority, StartupRole
  <1>8. ElectedByMajority'
    BY <1>6, <1>7 DEF ElectedByMajority, Alone
  <1> QED
    BY <1>1, <1>5, <1>8 DEF VoteInv

\* Replication makes nobody leader and touches no vote.
LEMMA ReplicationQuiet ==
  ASSUME TypeInv, ReplicationNext
  PROVE  /\ UNCHANGED <<election, granting, voteReq, voteResp, elections, cast, won, boot>>
         /\ \A i \in Server : role'[i] = "Leader" => role[i] = "Leader"
  <1>1. PICK i \in Server :
          \/ TickHeartbeat(i)
          \/ \E m \in appendReq : RefuseAppendEntries(i, m)
          \/ \E m \in appendReq : HandleAppendEntries(i, m)
          \/ \E m \in appendResp : HandleAppendResponse(i, m)
          \/ \E p \in Proposer : \E d \in Data : ProposeRead(i, p, d)
          \/ \E p \in Proposer : ProposeAppend(i, p)
          \/ \E p \in Proposer : ProposeAck(i, p)
          \/ \E p \in Proposer : ProposeTimeout(i, p)
          \/ TickApply(i)
          \/ \E m \in snapReq : HandleInstallSnapshot(i, m)
          \/ \E m \in snapResp : HandleSnapshotResponse(i, m)
    BY DEF ReplicationNext
  <1>2. UNCHANGED <<election, granting, voteReq, voteResp, elections, cast, won, boot>>
    BY <1>1 DEF TickHeartbeat, RefuseAppendEntries, HandleAppendEntries, HandleAppendResponse,
         ProposeRead, ProposeAppend, ProposeAck, ProposeTimeout, TickApply,
         HandleInstallSnapshot, HandleSnapshotResponse, voteNet, histVars
  <1>3. role' = role \/ \E m : FollowLeader(i, m)
    BY <1>1 DEF TickHeartbeat, RefuseAppendEntries, HandleAppendEntries, HandleAppendResponse,
         ProposeRead, ProposeAppend, ProposeAck, ProposeTimeout, TickApply,
         HandleInstallSnapshot, HandleSnapshotResponse, stateVars
  <1>4. \A j \in Server : role'[j] = "Leader" => role[j] = "Leader"
    BY <1>3 DEF FollowLeader, TypeInv, StateTypes
  <1> QED
    BY <1>2, <1>4

LEMMA NextVotes == VoteInv /\ [Next]_vars => VoteInv'
  <1> SUFFICES ASSUME VoteInv, [Next]_vars PROVE VoteInv'
    OBVIOUS
  <1>1. TypeInv'
    BY NextTypes DEF VoteInv
  <1>2. CASE UNCHANGED vars
    BY <1>1, <1>2, QuietVotes DEF vars, stateVars, voteNet, histVars
  <1>3. CASE ReplicationNext
    BY <1>1, <1>3, ReplicationQuiet, QuietVotes DEF VoteInv
  <1>4. CASE ElectionNext
    <2>1. ASSUME NEW i \in Server, ElectionDeadline(i) PROVE VoteInv'
      <3>1. /\ UNCHANGED <<granting, voteResp, cast, won, boot>> /\ role' = role
            /\ \A j \in Server : election'[j] \in {election[j], NoElection}
        BY <2>1 DEF ElectionDeadline, stateVars, voteNet, histVars, VoteInv, TypeInv, VoteTypes
      <3> QED
        BY <1>1, <3>1, QuietVotes
    <2> QED
      BY <1>4, <2>1, TimeoutVotes, RequestVotes, RecordVotes, ResponseVotes DEF ElectionNext
  <1>5. ASSUME NEW i \in Server, Restart(i) PROVE VoteInv'
    BY <1>5, RestartVotes
  <1> QED
    BY <1>2, <1>3, <1>4, <1>5 DEF Next

\* Who leads a cluster of several nodes has won an election since its process
\* started, with the recorded votes of a majority for that very election,
\* whatever is delayed, answered late or restarted in between.
THEOREM LeadersElected == Spec => []ElectedByMajority
  BY VoteInit, NextVotes, PTL DEF Spec, VoteInv
-----------------------------------------------------------------------------
(***************************************************************************)
(* What the operations on a log do to it, entry by entry.                  *)
(***************************************************************************)

\* A snapshot moves first_index past everything truncate_before would remove:
\* it removes nothing.
LEMMA SnapshotKeeps ==
  ASSUME NEW l \in LogType, NEW n \in Nat, NEW t, NEW d, NEW k,
         k = TruncateBefore(SaveSnapshot(l, n, t, d), n + 1)
  PROVE  /\ k.entries = l.entries /\ k.last = l.last /\ k.first = n + 1
         /\ k.snapIndex = n /\ k.data = d
  <1>1. PICK s : s = SaveSnapshot(l, n, t, d)
    OBVIOUS
  <1>2. /\ s.entries = l.entries /\ s.last = l.last /\ s.first = n + 1
        /\ s.snapIndex = n /\ s.data = d
    BY <1>1 DEF SaveSnapshot, LogType
  <1>3. TruncateBefore(s, n + 1) = s
    BY <1>2 DEF TruncateBefore
  <1> QED
    BY <1>1, <1>2, <1>3

LEMMA TickKeeps ==
  ASSUME NEW l \in LogType, NEW d, NEW k, k = LogAfterTick(l, d)
  PROVE  /\ k.entries = l.entries /\ k.last = l.last
         /\ \/ k = l
            \/ /\ k.first = k.snapIndex + 1 /\ k.data = d
               /\ k.snapIndex > l.snapIndex /\ k.snapIndex <= l.last
  <1>1. PICK n \in Nat : n = SnapshotIndex(l)
    BY SnapshotIndexType
  <1>2. PICK t : t = TermOrZero(l, n)
    OBVIOUS
  <1>3. CASE l.last - l.first > SnapshotThreshold /\ n > l.snapIndex
    <2>1. k = TruncateBefore(SaveSnapshot(l, n, t, d), n + 1)
      BY <1>1, <1>2, <1>3 DEF LogAfterTick
    <2> QED
      BY <1>1, <1>3, <2>1, SnapshotKeeps, SnapshotIndexType
  <1>4. CASE ~ (l.last - l.first > SnapshotThreshold /\ n > l.snapIndex)
    BY <1>1, <1>4 DEF LogAfterTick
  <1> QED
    BY <1>3, <1>4

LEMMA AppendSliceEntries ==
  ASSUME NEW l \in LogType, NEW s \in Slice, Carried(s) # {}, NEW k, k = AppendSlice(l, s)
  PROVE  /\ k.first = l.first /\ k.snapIndex = l.snapIndex /\ k.data = l.data
         /\ k.last = LastOf(s)
         /\ \A n \in Index : k.entries[n] = IF s[n] # NoEntry THEN s[n] ELSE l.entries[n]
  <1>1. PICK last : last = LastOf(s)
    OBVIOUS
  <1>2. k = [l EXCEPT !.entries = [n \in Index |-> IF s[n] # NoEntry THEN s[n] ELSE @[n]],
                      !.last = last, !.lastTerm = s[last].term]
    BY <1>1 DEF AppendSlice, LastOf
  <1> QED
    BY <1>1, <1>2 DEF LogType

LEMMA TruncateAfterEntries ==
  ASSUME NEW l \in LogType, NEW n \in Nat, NEW k, k = TruncateAfter(l, n)
  PROVE  /\ k.first = l.first /\ k.snapIndex = l.snapIndex /\ k.data = l.data
         /\ \A x \in Index : k.entries[x] = IF x > n /\ x <= l.last THEN NoEntry
                                            ELSE l.entries[x]
  <1>1. CASE n >= l.last
    <2>1. k = l
      BY <1>1 DEF TruncateAfter
    <2>2. \A x \in Index : ~ (x > n /\ x <= l.last)
      BY <1>1 DEF LogType, Index
    <2> QED
      BY <2>1, <2>2
  <1>2. CASE ~ (n >= l.last)
    <2>1. PICK kept : kept = [l EXCEPT !.entries = [m \in Index |->
                                 IF m > n /\ m <= l.last THEN NoEntry ELSE @[m]],
                                       !.last = n]
      OBVIOUS
    <2>2. k = IF Get(kept, n) = NoEntry THEN kept
              ELSE [kept EXCEPT !.lastTerm = Get(kept, n).term]
      BY <1>2, <2>1 DEF TruncateAfter
    <2>3. /\ kept.first = l.first /\ kept.snapIndex = l.snapIndex /\ kept.data = l.data
          /\ kept.entries = [m \in Index |->
               IF m > n /\ m <= l.last THEN NoEntry ELSE l.entries[m]]
          /\ kept = [entries |-> kept.entries, first |-> kept.first, last |-> kept.last,
                     lastTerm |-> kept.lastTerm, snapIndex |-> kept.snapIndex,
                     snapTerm |-> kept.snapTerm, data |-> kept.data]
      BY <2>1 DEF LogType
    <2>4. /\ k.first = kept.first /\ k.snapIndex = kept.snapIndex /\ k.data = kept.data
          /\ k.entries = kept.entries
      BY <2>2, <2>3
    <2> QED
      BY <2>3, <2>4
  <1> QED
    BY <1>1, <1>2

\* The log after the entries of an AppendEntries request.
LEMMA AppendKeeps ==
  ASSUME NEW l \in LogType, NEW m, m.entries \in Slice, NEW k, k = LogAfterAppend(l, m)
  PROVE  /\ k.first = l.first /\ k.snapIndex = l.snapIndex /\ k.data = l.data
         /\ Carried(m.entries) = {} => k = l
         /\ Carried(m.entries) # {} =>
              /\ k.last = LastOf(m.entries)
              /\ \A n \in Index :
                   k.entries[n] = IF m.entries[n] # NoEntry THEN m.entries[n]
                                  ELSE IF n >= FirstOf(m.entries) /\ n <= l.last THEN NoEntry
                                  ELSE l.entries[n]
  <1>1. CASE Carried(m.entries) = {}
    BY <1>1 DEF LogAfterAppend
  <1>2. CASE Carried(m.entries) # {}
    <2>1. PICK f \in Index : f = FirstOf(m.entries)
      BY <1>2, CarriedEnds, CarriedEntry
    <2>2. f - 1 \in Nat /\ l.last \in Nat
      BY DEF Index, LogType
    <2>3. PICK c \in LogType : c = IF f <= l.last THEN TruncateAfter(l, f - 1) ELSE l
      BY <2>2, TruncateAfterType
    <2>4. /\ c.first = l.first /\ c.snapIndex = l.snapIndex /\ c.data = l.data
          /\ \A n \in Index : c.entries[n] = IF n > f - 1 /\ n <= l.last THEN NoEntry
                                             ELSE l.entries[n]
      <3>1. CASE f <= l.last
        BY <2>2, <2>3, <3>1, TruncateAfterEntries
      <3>2. CASE ~ (f <= l.last)
        <4>1. \A n \in Index : ~ (n > f - 1 /\ n <= l.last)
          BY <2>2, <3>2 DEF Index
        <4> QED
          BY <2>3, <3>2, <4>1
      <3> QED
        BY <3>1, <3>2
    <2>5. k = AppendSlice(c, m.entries)
      BY <1>2, <2>1, <2>3 DEF LogAfterAppend, FirstOf
    <2>6. /\ k.first = c.first /\ k.snapIndex = c.snapIndex /\ k.data = c.data
          /\ k.last = LastOf(m.entries)
          /\ \A n \in Index : k.entries[n] = IF m.entries[n] # NoEntry THEN m.entries[n]
                                             ELSE c.entries[n]
      BY <1>2, <2>5, AppendSliceEntries
    <2>7. \A n \in Index : (n > f - 1) <=> (n >= f)
      BY DEF Index
    <2> QED
      BY <1>2, <2>1, <2>4, <2>6, <2>7
  <1> QED
    BY <1>1, <1>2

\* The log after a proposal.
LEMMA ProposedLog ==
  ASSUME NEW l \in LogType, NEW x \in Index, NEW e \in Entry, NEW k,
         k = AppendSlice(l, Single(x, e))
  PROVE  /\ k.first = l.first /\ k.snapIndex = l.snapIndex /\ k.data = l.data /\ k.last = x
         /\ \A n \in Index : k.entries[n] = IF n = x THEN e ELSE l.entries[n]
  <1>1. e # NoEntry
    BY NoEntryAssumption
  <1>2. PICK s \in Slice : s = Single(x, e)
    BY SingleType
  <1>3. \A n \in Index : s[n] = IF n = x THEN e ELSE NoEntry
    BY <1>2 DEF Single
  <1>4. Carried(s) = {x}
    BY <1>1, <1>3 DEF Carried
  <1>5. LastOf(s) = x
    BY <1>4, CarriedEnds
  <1> QED
    BY <1>1, <1>2, <1>3, <1>4, <1>5, AppendSliceEntries

\* The fields of the requests send_heartbeats sends.
LEMMA AppendRequestFields ==
  ASSUME NEW i, NEW l, NEW c, NEW nxt, NEW m \in AppendRequests(i, l, c, nxt)
  PROVE  /\ m.from = i /\ m.to \in Peers(i) /\ ~NeedsSnapshot(l, nxt, m.to)
         /\ m.prev = Prev(nxt, m.to) /\ m.commit = c /\ m.lastIndex = l.last
         /\ m.entries = GetRange(l, nxt[m.to], nxt[m.to] + MaxEntries)
  BY DEF AppendRequests

LEMMA SnapshotRequestFields ==
  ASSUME NEW i, NEW l, NEW nxt, NEW m \in SnapshotRequests(i, l, nxt)
  PROVE  /\ m.from = i /\ m.to \in Peers(i) /\ m.index = l.snapIndex /\ m.data = l.data
         /\ l.data # NoSnapshot
  BY DEF SnapshotRequests, NeedsSnapshot

-----------------------------------------------------------------------------
(***************************************************************************)
(* The reign of one leader: every entry anywhere is the leader's.          *)
(***************************************************************************)

\* No two proposals are under way at once.
OneProposer == \A p, q \in Proposer : p = q

\* Only the leader leads, proposes and is answered.
Throne ==
  /\ \A i \in Server : role[i] = "Leader" => i = Lead
  /\ \A i \in Peers(Lead) : \A p \in Proposer : proposing[i][p] = NoProposal
  /\ \A m \in appendReq \cup snapReq : m.from = Lead /\ m.to # Lead
  /\ \A m \in appendResp \cup snapResp : m.to = Lead

\* The leader stores exactly the indices up to last_index, and a proposal under
\* way takes the next one.
LeadLog ==
  /\ \A n \in Index : log[Lead].entries[n] # NoEntry <=> n <= log[Lead].last
  /\ \A p \in Proposer : proposing[Lead][p].phase = "append" =>
       proposing[Lead][p].index = log[Lead].last + 1

\* What a state machine received, or a snapshot holds, are the leader's entries.
Own(s) == \A k \in DOMAIN s : s[k].entry = log[Lead].entries[s[k].index]

\* Every entry outside the leader's log is a copy of one inside it.
FromLeader ==
  /\ \A i \in Server : \A n \in Index :
       log[i].entries[n] # NoEntry => log[i].entries[n] = log[Lead].entries[n]
  /\ \A m \in appendReq : \A n \in Index :
       m.entries[n] # NoEntry => m.entries[n] = log[Lead].entries[n]
  /\ \A i \in Server : Own(applied[i])
  /\ log[Lead].data # NoSnapshot => Own(log[Lead].data)
  /\ \A m \in snapReq : Own(m.data)
  /\ \A p \in Proposer : proposing[Lead][p].phase = "wait" =>
       log[Lead].entries[proposing[Lead][p].index] = proposing[Lead][p].entry
  /\ \A a \in acked : a.index \in Index
  /\ AckedInLog

ReignInv == TypeInv /\ Throne /\ LeadLog /\ FromLeader

\* No entry of the leader's log is replaced or removed.
LeadGrows ==
  \A n \in Index : log[Lead].entries[n] # NoEntry
    => log'[Lead].entries[n] = log[Lead].entries[n]

LEMMA ReignTypes ==
  ASSUME TypeInv
  PROVE  /\ \A i \in Server : log[i] \in LogType /\ applied[i] \in Seq(AppliedEntry)
         /\ \A m \in appendReq : m \in AppendRequest /\ m.entries \in Slice
                                 /\ m.prev \in Nat /\ m.commit \in Nat /\ m.lastIndex \in Nat
         /\ \A m \in appendResp : m \in AppendResponse /\ m.match \in Nat /\ m.conflict \in Nat
                                  /\ m.lastIndex \in Nat /\ m.from \in Server
         /\ \A m \in snapReq : m \in SnapshotRequest /\ m.data \in Seq(AppliedEntry)
                               /\ m.index \in Nat
         /\ \A m \in snapResp : m \in SnapshotResponse /\ m.index \in Nat /\ m.from \in Server
         /\ \A i \in Server : \A p \in Proposer : proposing[i][p] \in Proposal
  <1>1. \A i \in Server : log[i] \in LogType /\ applied[i] \in Seq(AppliedEntry)
    BY DEF TypeInv, LogTypes, CommitTypes
  <1>2. \A m \in AppendRequest : m.entries \in Slice /\ m.prev \in Nat /\ m.commit \in Nat
                                 /\ m.lastIndex \in Nat
    BY DEF AppendRequest
  <1>3. \A m \in AppendResponse : m.match \in Nat /\ m.conflict \in Nat /\ m.lastIndex \in Nat
                                  /\ m.from \in Server
    BY DEF AppendResponse
  <1>4. \A m \in SnapshotRequest : m.data \in Seq(AppliedEntry) /\ m.index \in Nat
    BY DEF SnapshotRequest
  <1>5. \A m \in SnapshotResponse : m.index \in Nat /\ m.from \in Server
    BY DEF SnapshotResponse
  <1>6. \A i \in Server : \A p \in Proposer : proposing[i][p] \in Proposal
    BY DEF TypeInv, ClientTypes
  <1>7. /\ appendReq \subseteq AppendRequest /\ appendResp \subseteq AppendResponse
        /\ snapReq \subseteq SnapshotRequest /\ snapResp \subseteq SnapshotResponse
    BY DEF TypeInv, NetTypes
  <1> QED
    BY <1>1, <1>2, <1>3, <1>4, <1>5, <1>6, <1>7

LEMMA OwnStays ==
  ASSUME LeadGrows, NEW s \in Seq(AppliedEntry), Own(s)
  PROVE  Own(s)'
  <1>1. ASSUME NEW k \in DOMAIN s
        PROVE  s[k].entry = log'[Lead].entries[s[k].index]
    <2>1. s[k] \in AppliedEntry
      OBVIOUS
    <2>2. s[k].index \in Index /\ s[k].entry \in Entry
      BY <2>1 DEF AppliedEntry
    <2>3. s[k].entry = log[Lead].entries[s[k].index]
      BY DEF Own
    <2> QED
      BY <2>2, <2>3, NoEntryAssumption DEF LeadGrows
  <1> QED
    BY <1>1 DEF Own

\* While the leader's log grows, a step keeps every copy a copy if the ones it
\* makes are taken from the leader's log or from copies.
LEMMA CopiesStay ==
  ASSUME ReignInv, TypeInv', LeadGrows,
         \A i \in Server : \A n \in Index : log'[i].entries[n] # NoEntry =>
           log'[i].entries[n] \in {log[Lead].entries[n], log'[Lead].entries[n]},
         \A m \in appendReq' : m \in appendReq \/ \A n \in Index :
           m.entries[n] # NoEntry => m.entries[n] = log'[Lead].entries[n],
         \A i \in Server : applied'[i] = applied[i] \/ Own(applied[i])',
         log'[Lead].data \in {log[Lead].data, applied[Lead]},
         \A m \in snapReq' : m \in snapReq \/ (m.data = log[Lead].data /\ m.data # NoSnapshot),
         \A p \in Proposer : proposing'[Lead][p].phase = "wait" =>
           \/ proposing'[Lead][p] = proposing[Lead][p]
           \/ log'[Lead].entries[proposing'[Lead][p].index] = proposing'[Lead][p].entry,
         \A a \in acked' : a \in acked \/ (a.index \in Index
                             /\ log'[Lead].entries[a.index] = a.entry)
  PROVE  FromLeader'
  <1>1. \A i \in Server : \A n \in Index : log'[i].entries[n] # NoEntry =>
          log'[i].entries[n] = log'[Lead].entries[n]
    BY DEF LeadGrows
  <1>2. \A m \in appendReq' : \A n \in Index : m.entries[n] # NoEntry =>
          m.entries[n] = log'[Lead].entries[n]
    BY DEF LeadGrows, ReignInv, FromLeader
  <1>3. \A i \in Server : Own(applied[i])'
    <2> SUFFICES ASSUME NEW i \in Server, applied'[i] = applied[i] PROVE Own(applied[i])'
      OBVIOUS
    <2>1. PICK s \in Seq(AppliedEntry) : s = applied[i]
      BY ReignTypes DEF ReignInv
    <2>2. Own(s)'
      BY <2>1, OwnStays DEF ReignInv, FromLeader
    <2> QED
      BY <2>1, <2>2 DEF Own
  <1>4. log'[Lead].data # NoSnapshot => Own(log[Lead].data)'
    <2> SUFFICES ASSUME log'[Lead].data # NoSnapshot PROVE Own(log[Lead].data)'
      OBVIOUS
    <2>1. PICK s : s = log'[Lead].data
      OBVIOUS
    <2>2. log[Lead] \in LogType /\ applied[Lead] \in Seq(AppliedEntry)
      BY ReignTypes, LeadAssumption DEF ReignInv
    <2>3. log[Lead].data \in Seq(AppliedEntry) \cup {NoSnapshot}
      BY <2>2 DEF LogType
    <2>4. s \in Seq(AppliedEntry)
      BY <2>1, <2>2, <2>3
    <2>5. Own(s)
      BY <2>1, LeadAssumption DEF ReignInv, FromLeader
    <2>6. Own(s)'
      BY <2>4, <2>5, OwnStays
    <2> QED
      BY <2>1, <2>6 DEF Own
  <1>5. \A m \in snapReq' : Own(m.data)'
    <2> SUFFICES ASSUME NEW m \in snapReq' PROVE Own(m.data)'
      OBVIOUS
    <2>1. m.data \in Seq(AppliedEntry)
      <3>1. m \in SnapshotRequest
        BY DEF TypeInv, NetTypes
      <3> QED
        BY <3>1 DEF SnapshotRequest
    <2>2. Own(m.data)
      BY DEF ReignInv, FromLeader
    <2> QED
      BY <2>1, <2>2, OwnStays
  <1>6. \A p \in Proposer : proposing'[Lead][p].phase = "wait" =>
          log'[Lead].entries[proposing'[Lead][p].index] = proposing'[Lead][p].entry
    <2> SUFFICES ASSUME NEW p \in Proposer, proposing'[Lead][p].phase = "wait",
                        proposing'[Lead][p] = proposing[Lead][p]
                 PROVE  log'[Lead].entries[proposing'[Lead][p].index] = proposing'[Lead][p].entry
      OBVIOUS
    <2>1. PICK q \in Proposal : q = proposing[Lead][p]
      BY ReignTypes, LeadAssumption DEF ReignInv
    <2>2. q.index \in Index /\ q.entry \in Entry
      BY <2>1 DEF Proposal
    <2>3. log[Lead].entries[q.index] = q.entry
      BY <2>1 DEF ReignInv, FromLeader
    <2> QED
      BY <2>1, <2>2, <2>3, NoEntryAssumption DEF LeadGrows
  <1>7. \A a \in acked' : a.index \in Index /\ log'[Lead].entries[a.index] = a.entry
    <2> SUFFICES ASSUME NEW a \in acked
                 PROVE  a.index \in Index /\ log'[Lead].entries[a.index] = a.entry
      OBVIOUS
    <2>1. a.entry \in Entry
      BY DEF ReignInv, TypeInv, ClientTypes
    <2>2. a.index \in Index /\ log[Lead].entries[a.index] = a.entry
      BY DEF ReignInv, FromLeader, AckedInLog
    <2> QED
      BY <2>1, <2>2, NoEntryAssumption DEF LeadGrows
  <1> QED
    BY <1>1, <1>2, <1>3, <1>4, <1>5, <1>6, <1>7 DEF FromLeader, AckedInLog

\* A range that is read holds entries of the log.
LEMMA RangeReads ==
  ASSUME NEW l, NEW a, NEW b, NEW n \in Index, GetRange(l, a, b)[n] # NoEntry
  PROVE  /\ GetRange(l, a, b)[n] = l.entries[n]
         /\ n >= a /\ n < b /\ n <= l.last /\ n >= l.first
  BY DEF GetRange, Get

\* What the leader sends is its own.
LEMMA LeaderSends ==
  ASSUME NEW l, NEW c, NEW nxt, SendHeartbeats(Lead, l, c, nxt)
  PROVE  /\ \A m \in appendReq' : m \in appendReq \/
              /\ m.from = Lead /\ m.to # Lead
              /\ \A n \in Index : m.entries[n] # NoEntry => m.entries[n] = l.entries[n]
         /\ \A m \in snapReq' : m \in snapReq \/
              /\ m.from = Lead /\ m.to # Lead /\ m.data = l.data /\ m.data # NoSnapshot
         /\ UNCHANGED <<appendResp, snapResp>>
  <1>1. ASSUME NEW m \in AppendRequests(Lead, l, c, nxt)
        PROVE  /\ m.from = Lead /\ m.to # Lead
               /\ \A n \in Index : m.entries[n] # NoEntry => m.entries[n] = l.entries[n]
    BY AppendRequestFields, RangeReads DEF Peers
  <1>2. ASSUME NEW m \in SnapshotRequests(Lead, l, nxt)
        PROVE  m.from = Lead /\ m.to # Lead /\ m.data = l.data /\ m.data # NoSnapshot
    BY SnapshotRequestFields DEF Peers
  <1> QED
    BY <1>1, <1>2 DEF SendHeartbeats

\* Steps that leave logs, state machines and proposals alone.
LEMMA QuietReign ==
  ASSUME ReignInv, TypeInv', UNCHANGED <<log, applied, proposing, acked>>,
         \A i \in Server : role'[i] = "Leader" => role[i] = "Leader",
         \A m \in appendReq' : m \in appendReq \/
           /\ m.from = Lead /\ m.to # Lead
           /\ \A n \in Index : m.entries[n] # NoEntry => m.entries[n] = log[Lead].entries[n],
         \A m \in snapReq' : m \in snapReq \/
           /\ m.from = Lead /\ m.to # Lead /\ m.data = log[Lead].data /\ m.data # NoSnapshot,
         \A m \in appendResp' : m \in appendResp \/ m.to = Lead,
         \A m \in snapResp' : m \in snapResp \/ m.to = Lead
  PROVE  ReignInv' /\ LeadGrows
  <1>1. LeadGrows
    BY DEF LeadGrows
  <1>2. Throne'
    BY DEF ReignInv, Throne
  <1>3. LeadLog'
    BY DEF ReignInv, LeadLog
  <1>4. FromLeader'
    BY <1>1, LeadAssumption, CopiesStay DEF ReignInv, FromLeader
  <1> QED
    BY <1>1, <1>2, <1>3, <1>4 DEF ReignInv

LEMMA HeartbeatReign ==
  ASSUME ReignInv, TypeInv', NEW i \in Server, TickHeartbeat(i)
  PROVE  ReignInv' /\ LeadGrows
  <1>1. i = Lead
    BY DEF TickHeartbeat, ReignInv, Throne
  <1>2. SendHeartbeats(Lead, log[Lead], commit_index[Lead], next_index[Lead])
    BY <1>1 DEF TickHeartbeat
  <1>3. UNCHANGED <<log, applied, proposing, acked, role>>
    BY DEF TickHeartbeat, commitVars, clientVars, stateVars
  <1> QED
    BY <1>2, <1>3, LeaderSends, QuietReign

LEMMA RefuseReign ==
  ASSUME ReignInv, TypeInv', NEW i \in Server, NEW m \in appendReq, RefuseAppendEntries(i, m)
  PROVE  ReignInv' /\ LeadGrows
  <1>1. AppendReply(i, m, FALSE, 0, 0).to = Lead
    BY DEF AppendReply, ReignInv, Throne
  <1>2. UNCHANGED <<log, applied, proposing, acked, role, appendReq, snapReq, snapResp>>
        /\ appendResp' = appendResp \cup {AppendReply(i, m, FALSE, 0, 0)}
    BY DEF RefuseAppendEntries, commitVars, clientVars, stateVars
  <1> QED
    BY <1>1, <1>2, QuietReign

LEMMA ResponseReign ==
  ASSUME ReignInv, TypeInv', NEW i \in Server,
         \/ \E m \in appendResp : HandleAppendResponse(i, m)
         \/ \E m \in snapResp : HandleSnapshotResponse(i, m)
  PROVE  ReignInv' /\ LeadGrows
  <1>1. UNCHANGED <<log, applied, proposing, acked, role, appendReq, appendResp, snapReq,
                    snapResp>>
    BY DEF HandleAppendResponse, HandleSnapshotResponse, commitVars, clientVars, stateVars,
           appendNet
  <1> QED
    BY <1>1, QuietReign

\* What handle_append_entries does, with the new log named.
LEMMA AppendEffect ==
  ASSUME TypeInv, NEW i \in Server, NEW m \in appendReq, HandleAppendEntries(i, m)
  PROVE  /\ m.to = i
         /\ \A j \in Server : j # i => log'[j] = log[j] /\ commit_index'[j] = commit_index[j]
         /\ \/ log'[i] = log[i] /\ commit_index'[i] = commit_index[i]
            \/ /\ HasEntry(log[i], m.prev, m.prevTerm)
               /\ log'[i] = LogAfterAppend(log[i], m)
               /\ commit_index'[i] \in {commit_index[i], FollowerCommit(log'[i], m)}
         /\ \E s \in BOOLEAN, x, c \in Nat :
              /\ appendResp' = appendResp \cup {AppendReply(i, m, s, x, c)}
              /\ x \in {0, m.prev + Cardinality(Carried(m.entries))} /\ c <= m.prev
         /\ \A j \in Server : role'[j] = "Leader" => role[j] = "Leader"
         /\ UNCHANGED <<last_applied, applied, applying, next_index, match_index, proposing,
                        acked, appendReq, snapReq, snapResp>>
  <1>1. PICK l \in LogType : l = log[i]
    BY ReignTypes
  <1>2. m.prev \in Nat /\ m.entries \in Slice
    BY ReignTypes
  <1> DEFINE ok == HasEntry(l, m.prev, m.prevTerm)
  <1>3. PICK new : new = IF ok THEN LogAfterAppend(l, m) ELSE l
    OBVIOUS
  <1>4. ok \in BOOLEAN
    BY DEF HasEntry
  <1> HIDE DEF ok
  <1>5. PICK n \in Nat : n = m.prev + Cardinality(Carried(m.entries))
    BY <1>2, CarriedFinite
  <1>6. PICK c \in Nat : c = ConflictIndex(l, m.prev) /\ c <= m.prev
    BY <1>2, ConflictType
  <1>7. /\ FollowLeader(i, m) /\ log' = [log EXCEPT ![i] = new] /\ m.to = i
        /\ commit_index' = IF ok /\ m.commit > commit_index[i]
                           THEN [commit_index EXCEPT ![i] = FollowerCommit(new, m)]
                           ELSE commit_index
        /\ appendResp' = appendResp \cup {IF ok THEN AppendReply(i, m, TRUE, n, 0)
                                          ELSE AppendReply(i, m, FALSE, 0, c)}
    BY <1>1, <1>3, <1>5, <1>6 DEF HandleAppendEntries, ok
  <1>8. log \in [Server -> LogType] /\ commit_index \in [Server -> Nat]
    BY DEF TypeInv, LogTypes, CommitTypes
  <1>9. \A j \in Server : j # i => log'[j] = log[j] /\ commit_index'[j] = commit_index[j]
    BY <1>7, <1>8
  <1>10. log'[i] = new
    BY <1>7, <1>8
  <1>11. ASSUME ok
         PROVE  /\ HasEntry(log[i], m.prev, m.prevTerm)
                /\ log'[i] = LogAfterAppend(log[i], m)
                /\ commit_index'[i] \in {commit_index[i], FollowerCommit(log'[i], m)}
    <2>1. commit_index'[i] \in {commit_index[i], FollowerCommit(new, m)}
      BY <1>7, <1>8, <1>11
    <2>2. HasEntry(log[i], m.prev, m.prevTerm) /\ log'[i] = LogAfterAppend(log[i], m)
      BY <1>1, <1>3, <1>10, <1>11 DEF ok
    <2> QED
      BY <1>10, <2>1, <2>2
  <1>12. ASSUME ~ok PROVE log'[i] = log[i] /\ commit_index'[i] = commit_index[i]
    BY <1>1, <1>3, <1>7, <1>10, <1>12
  <1>13. \E s \in BOOLEAN, x, y \in Nat :
           /\ appendResp' = appendResp \cup {AppendReply(i, m, s, x, y)}
           /\ x \in {0, m.prev + Cardinality(Carried(m.entries))} /\ y <= m.prev
    <2>1. CASE ok
      <3>1. appendResp' = appendResp \cup {AppendReply(i, m, TRUE, n, 0)} /\ 0 <= m.prev
        BY <1>2, <1>7, <2>1
      <3> QED
        BY <1>5, <3>1
    <2>2. CASE ~ok
      <3>1. appendResp' = appendResp \cup {AppendReply(i, m, FALSE, 0, c)}
        BY <1>7, <2>2
      <3> QED
        BY <1>6, <3>1
    <2> QED
      BY <2>1, <2>2
  <1>14. \A j \in Server : role'[j] = "Leader" => role[j] = "Leader"
    BY <1>7 DEF FollowLeader, TypeInv, StateTypes
  <1>15. UNCHANGED <<last_applied, applied, applying, next_index, match_index, proposing,
                     acked, appendReq, snapReq, snapResp>>
    BY DEF HandleAppendEntries, leaderVars, clientVars
  <1>16. m.to = i
    BY <1>7
  <1>17. \/ log'[i] = log[i] /\ commit_index'[i] = commit_index[i]
         \/ /\ HasEntry(log[i], m.prev, m.prevTerm)
            /\ log'[i] = LogAfterAppend(log[i], m)
            /\ commit_index'[i] \in {commit_index[i], FollowerCommit(log'[i], m)}
    BY <1>11, <1>12
  <1> QED
    BY <1>9, <1>13, <1>14, <1>15, <1>16, <1>17

LEMMA AppendEntriesReign ==
  ASSUME ReignInv, TypeInv', NEW i \in Server, NEW m \in appendReq, HandleAppendEntries(i, m)
  PROVE  ReignInv' /\ LeadGrows
  <1>1. m.to = i /\ i # Lead /\ m.from = Lead
    BY AppendEffect DEF ReignInv, Throne
  <1>2. log'[Lead] = log[Lead]
    BY <1>1, AppendEffect, LeadAssumption DEF ReignInv
  <1>3. UNCHANGED <<applied, proposing, acked, appendReq, snapReq, snapResp>>
        /\ \A j \in Server : role'[j] = "Leader" => role[j] = "Leader"
    BY AppendEffect DEF ReignInv
  <1>4. \A r \in appendResp' : r \in appendResp \/ r.to = Lead
    <2>1. PICK s, x, c : appendResp' = appendResp \cup {AppendReply(i, m, s, x, c)}
      BY AppendEffect DEF ReignInv
    <2>2. AppendReply(i, m, s, x, c).to = Lead
      BY <1>1 DEF AppendReply
    <2> QED
      BY <2>1, <2>2
  <1>5. LeadGrows
    BY <1>2 DEF LeadGrows
  <1>6. Throne'
    BY <1>3, <1>4 DEF ReignInv, Throne
  <1>7. LeadLog'
    BY <1>2, <1>3 DEF ReignInv, LeadLog
  <1>8. ASSUME NEW j \in Server, NEW n \in Index, log'[j].entries[n] # NoEntry
        PROVE  log'[j].entries[n] = log[Lead].entries[n]
    <2>1. CASE log'[j] = log[j]
      BY <1>8, <2>1 DEF ReignInv, FromLeader
    <2>2. CASE j = i /\ log'[i] = LogAfterAppend(log[i], m)
      <3>1. log[i] \in LogType /\ m.entries \in Slice
        BY ReignTypes DEF ReignInv
      <3>2. log'[i].entries[n] \in {log[i].entries[n], m.entries[n], NoEntry}
        BY <2>2, <3>1, AppendKeeps
      <3> QED
        BY <1>8, <2>2, <3>2 DEF ReignInv, FromLeader
    <2> QED
      BY <2>1, <2>2, AppendEffect DEF ReignInv
  <1>9. FromLeader'
    BY <1>2, <1>3, <1>5, <1>8, CopiesStay
  <1> QED
    BY <1>5, <1>6, <1>7, <1>9 DEF ReignInv

\* A client task is at work only at the leader.
LEMMA ProposerIsLead ==
  ASSUME ReignInv, NEW i \in Server, NEW p \in Proposer, proposing[i][p].phase # "idle"
  PROVE  i = Lead
  BY DEF ReignInv, Throne, NoProposal, Peers

LEMMA ProposeReadReign ==
  ASSUME ReignInv, TypeInv', NEW i \in Server, NEW p \in Proposer, NEW d \in Data,
         ProposeRead(i, p, d)
  PROVE  ReignInv' /\ LeadGrows
  <1>1. i = Lead
    BY DEF ProposeRead, ReignInv, Throne
  <1>2. PICK q : /\ q.phase = "append" /\ q.index = log[Lead].last + 1
                 /\ proposing' = [proposing EXCEPT ![Lead][p] = q]
    <2>1. PICK q : q = [phase |-> "append", entry |-> [term |-> current_term[i], data |-> d],
                        index |-> NextLogIndex(log[i])]
      OBVIOUS
    <2>2. q.phase = "append" /\ q.index = log[Lead].last + 1
      BY <1>1, <2>1 DEF NextLogIndex
    <2>3. proposing' = [proposing EXCEPT ![Lead][p] = q]
      BY <1>1, <2>1 DEF ProposeRead
    <2> QED
      BY <2>2, <2>3
  <1>3. proposing \in [Server -> [Proposer -> Proposal]]
    BY DEF ReignInv, TypeInv, ClientTypes
  <1>4. /\ \A j \in Peers(Lead) : proposing'[j] = proposing[j]
        /\ \A r \in Proposer : r # p => proposing'[Lead][r] = proposing[Lead][r]
        /\ proposing'[Lead][p] = q
    BY <1>2, <1>3, LeadAssumption DEF Peers
  <1>5. UNCHANGED <<log, applied, acked, role, appendReq, appendResp, snapReq, snapResp>>
    BY DEF ProposeRead, commitVars, stateVars, appendNet
  <1>6. LeadGrows
    BY <1>5 DEF LeadGrows
  <1>7. Throne'
    BY <1>4, <1>5 DEF ReignInv, Throne
  <1>8. LeadLog'
    BY <1>2, <1>4, <1>5 DEF ReignInv, LeadLog
  <1>9. FromLeader'
    <2>1. \A r \in Proposer : proposing'[Lead][r].phase = "wait" =>
            proposing'[Lead][r] = proposing[Lead][r]
      BY <1>2, <1>4
    <2>2. \A j \in Server : \A n \in Index : log[j].entries[n] # NoEntry =>
            log[j].entries[n] = log[Lead].entries[n]
      BY DEF ReignInv, FromLeader
    <2> QED
      BY <1>5, <1>6, <2>1, <2>2, CopiesStay
  <1> QED
    BY <1>6, <1>7, <1>8, <1>9 DEF ReignInv

\* What propose's second half does.
LEMMA ProposeEffect ==
  ASSUME ReignInv, NEW i \in Server, NEW p \in Proposer, ProposeAppend(i, p)
  PROVE  /\ i = Lead /\ proposing[Lead][p].phase = "append"
         /\ proposing[Lead][p].index \in Index /\ proposing[Lead][p].entry \in Entry
         /\ proposing[Lead][p].index = log[Lead].last + 1
         /\ log'[Lead] = AppendSlice(log[Lead],
                           Single(proposing[Lead][p].index, proposing[Lead][p].entry))
         /\ \A j \in Server : j # Lead => log'[j] = log[j] /\ commit_index'[j] = commit_index[j]
         /\ commit_index'[Lead] = IF Alone THEN proposing[Lead][p].index ELSE commit_index[Lead]
         /\ \/ SendHeartbeats(Lead, log'[Lead], commit_index'[Lead], next_index[Lead])
            \/ UNCHANGED <<appendReq, appendResp, snapReq, snapResp>>
         /\ \A j \in Peers(Lead) : proposing'[j] = proposing[j]
         /\ \A r \in Proposer : r # p => proposing'[Lead][r] = proposing[Lead][r]
         /\ /\ proposing'[Lead][p].phase = "wait"
            /\ proposing'[Lead][p].index = proposing[Lead][p].index
            /\ proposing'[Lead][p].entry = proposing[Lead][p].entry
         /\ UNCHANGED <<role, last_applied, applied, applying, next_index, match_index, acked>>
  <1>1. proposing[i][p].phase = "append"
    BY DEF ProposeAppend
  <1>2. i = Lead
    BY <1>1, ProposerIsLead
  <1>3. PICK q \in Proposal : q = proposing[Lead][p]
    BY ReignTypes, LeadAssumption DEF ReignInv
  <1>4. q.phase = "append" /\ q.entry \in Entry /\ q.index \in Index
    BY <1>1, <1>2, <1>3 DEF Proposal
  <1>5. PICK l : l = AppendSlice(log[Lead], Single(q.index, q.entry))
    OBVIOUS
  <1>6. PICK c : c = IF Alone THEN q.index ELSE commit_index[Lead]
    OBVIOUS
  <1>7. /\ log' = [log EXCEPT ![Lead] = l]
        /\ commit_index' = [commit_index EXCEPT ![Lead] = c]
        /\ SendHeartbeats(Lead, l, c, next_index[Lead]) \/ UNCHANGED appendNet
        /\ proposing' = [proposing EXCEPT ![Lead][p].phase = "wait"]
    BY <1>2, <1>3, <1>5, <1>6 DEF ProposeAppend
  <1>8. log \in [Server -> LogType] /\ commit_index \in [Server -> Nat]
        /\ proposing \in [Server -> [Proposer -> Proposal]]
    BY DEF ReignInv, TypeInv, LogTypes, CommitTypes, ClientTypes
  <1>9. log'[Lead] = l /\ commit_index'[Lead] = c
        /\ \A j \in Server : j # Lead => log'[j] = log[j] /\ commit_index'[j] = commit_index[j]
    BY <1>7, <1>8, LeadAssumption
  <1>10. proposing'[Lead][p] = [q EXCEPT !.phase = "wait"]
    BY <1>3, <1>7, <1>8, LeadAssumption
  <1>11. [q EXCEPT !.phase = "wait"].phase = "wait"
         /\ [q EXCEPT !.phase = "wait"].index = q.index
         /\ [q EXCEPT !.phase = "wait"].entry = q.entry
    BY DEF Proposal
  <1>12. /\ \A j \in Peers(Lead) : proposing'[j] = proposing[j]
         /\ \A r \in Proposer : r # p => proposing'[Lead][r] = proposing[Lead][r]
    BY <1>7, <1>8, LeadAssumption DEF Peers
  <1>13. UNCHANGED <<role, last_applied, applied, applying, next_index, match_index, acked>>
    BY DEF ProposeAppend, stateVars, leaderVars
  <1>14. q.index = log[Lead].last + 1
    BY <1>3, <1>4 DEF ReignInv, LeadLog
  <1>15. \/ SendHeartbeats(Lead, log'[Lead], commit_index'[Lead], next_index[Lead])
         \/ UNCHANGED <<appendReq, appendResp, snapReq, snapResp>>
    BY <1>7, <1>9 DEF appendNet
  <1> QED
    BY <1>2, <1>3, <1>4, <1>5, <1>6, <1>9, <1>10, <1>11, <1>12, <1>13, <1>14, <1>15

LEMMA ProposeAppendReign ==
  ASSUME ReignInv, OneProposer, TypeInv', NEW i \in Server, NEW p \in Proposer,
         ProposeAppend(i, p)
  PROVE  ReignInv' /\ LeadGrows
  <1>1. PICK q \in Proposal : q = proposing[Lead][p]
    BY ReignTypes, LeadAssumption DEF ReignInv
  <1>2. PICK l \in LogType : l = log[Lead]
    BY ReignTypes, LeadAssumption DEF ReignInv
  <1>3. PICK k : k = log'[Lead]
    OBVIOUS
  <1>4. /\ q.index \in Index /\ q.entry \in Entry /\ q.index = l.last + 1
        /\ k = AppendSlice(l, Single(q.index, q.entry))
    BY <1>1, <1>2, <1>3, ProposeEffect
  <1>5. /\ k.data = l.data /\ k.last = l.last + 1
        /\ \A n \in Index : k.entries[n] = IF n = l.last + 1 THEN q.entry ELSE l.entries[n]
    BY <1>4, ProposedLog
  <1>6. \A n \in Index : l.entries[n] # NoEntry <=> n <= l.last
    BY <1>2 DEF ReignInv, LeadLog
  <1>7. l.last \in Nat /\ q.entry # NoEntry
    BY <1>4, NoEntryAssumption DEF LogType
  <1>8. LeadGrows
    <2>1. \A n \in Index : n <= l.last => n # l.last + 1
      BY <1>7 DEF Index
    <2> QED
      BY <1>2, <1>3, <1>5, <1>6, <2>1 DEF LeadGrows
  <1>9. /\ \A m \in appendReq' : m \in appendReq \/
             /\ m.from = Lead /\ m.to # Lead
             /\ \A n \in Index : m.entries[n] # NoEntry => m.entries[n] = k.entries[n]
        /\ \A m \in snapReq' : m \in snapReq \/
             /\ m.from = Lead /\ m.to # Lead /\ m.data = k.data /\ m.data # NoSnapshot
        /\ UNCHANGED <<appendResp, snapResp>>
    <2>1. CASE SendHeartbeats(Lead, log'[Lead], commit_index'[Lead], next_index[Lead])
      BY <1>3, <2>1, LeaderSends
    <2> QED
      BY <2>1, ProposeEffect
  <1>10. Throne'
    BY <1>9, ProposeEffect DEF ReignInv, Throne
  <1>11. LeadLog'
    <2>1. \A n \in Index : k.entries[n] # NoEntry <=> n <= k.last
      <3>1. \A n \in Index : n <= l.last + 1 <=> n = l.last + 1 \/ n <= l.last
        BY <1>7 DEF Index
      <3> QED
        BY <1>5, <1>6, <1>7, <3>1
    <2>2. \A r \in Proposer : proposing'[Lead][r].phase # "append"
      BY ProposeEffect DEF OneProposer
    <2> QED
      BY <1>3, <2>1, <2>2 DEF LeadLog
  <1>12. FromLeader'
    <2>1. \A j \in Server : \A n \in Index : log'[j].entries[n] # NoEntry =>
            log'[j].entries[n] \in {log[Lead].entries[n], log'[Lead].entries[n]}
      BY ProposeEffect DEF ReignInv, FromLeader
    <2>2. \A r \in Proposer : proposing'[Lead][r].phase = "wait" =>
            \/ proposing'[Lead][r] = proposing[Lead][r]
            \/ log'[Lead].entries[proposing'[Lead][r].index] = proposing'[Lead][r].entry
      <3>1. /\ proposing'[Lead][p].index = q.index /\ proposing'[Lead][p].entry = q.entry
            /\ \A r \in Proposer : r # p => proposing'[Lead][r] = proposing[Lead][r]
        BY <1>1, ProposeEffect
      <3>2. k.entries[q.index] = q.entry
        BY <1>4, <1>5
      <3> QED
        BY <1>3, <3>1, <3>2
    <2>3. applied' = applied /\ acked' = acked
      BY ProposeEffect
    <2>4. \A m \in appendReq' : m \in appendReq \/ \A n \in Index :
            m.entries[n] # NoEntry => m.entries[n] = log'[Lead].entries[n]
      BY <1>3, <1>9
    <2>5. \A m \in snapReq' : m \in snapReq \/ (m.data = log[Lead].data /\ m.data # NoSnapshot)
      BY <1>2, <1>5, <1>9
    <2>6. log'[Lead].data = log[Lead].data
      BY <1>2, <1>3, <1>5
    <2> QED
      BY <1>8, <2>1, <2>2, <2>3, <2>4, <2>5, <2>6, CopiesStay
  <1> QED
    BY <1>8, <1>10, <1>11, <1>12 DEF ReignInv

LEMMA ProposeEndReign ==
  ASSUME ReignInv, TypeInv', NEW i \in Server, NEW p \in Proposer,
         ProposeAck(i, p) \/ ProposeTimeout(i, p)
  PROVE  ReignInv' /\ LeadGrows
  <1>1. proposing[i][p].phase = "wait"
    BY DEF ProposeAck, ProposeTimeout
  <1>2. i = Lead
    BY <1>1, ProposerIsLead
  <1>3. PICK q \in Proposal : q = proposing[Lead][p]
    BY ReignTypes, LeadAssumption DEF ReignInv
  <1>4. q.index \in Index /\ q.entry \in Entry /\ log[Lead].entries[q.index] = q.entry
    BY <1>1, <1>2, <1>3 DEF Proposal, ReignInv, FromLeader
  <1>5. /\ proposing' = [proposing EXCEPT ![Lead][p] = NoProposal]
        /\ acked' \in {acked, acked \cup {[node |-> Lead, index |-> q.index, entry |-> q.entry]}}
    BY <1>2, <1>3 DEF ProposeAck, ProposeTimeout
  <1>6. proposing \in [Server -> [Proposer -> Proposal]]
    BY DEF ReignInv, TypeInv, ClientTypes
  <1>7. /\ \A j \in Peers(Lead) : proposing'[j] = proposing[j]
        /\ \A r \in Proposer : r # p => proposing'[Lead][r] = proposing[Lead][r]
        /\ proposing'[Lead][p] = NoProposal
    BY <1>5, <1>6, LeadAssumption DEF Peers
  <1>8. UNCHANGED <<log, applied, role, appendReq, appendResp, snapReq, snapResp>>
    BY DEF ProposeAck, ProposeTimeout, commitVars, stateVars, appendNet
  <1>9. LeadGrows
    BY <1>8 DEF LeadGrows
  <1>10. Throne'
    BY <1>7, <1>8 DEF ReignInv, Throne
  <1>11. LeadLog'
    BY <1>7, <1>8 DEF ReignInv, LeadLog, NoProposal
  <1>12. FromLeader'
    <2>1. \A r \in Proposer : proposing'[Lead][r].phase = "wait" =>
            proposing'[Lead][r] = proposing[Lead][r]
      BY <1>7 DEF NoProposal
    <2>2. \A j \in Server : \A n \in Index : log[j].entries[n] # NoEntry =>
            log[j].entries[n] = log[Lead].entries[n]
      BY DEF ReignInv, FromLeader
    <2>3. \A a \in acked' : a \in acked \/ (a.index \in Index
                              /\ log'[Lead].entries[a.index] = a.entry)
      BY <1>4, <1>5, <1>8
    <2> QED
      BY <1>8, <1>9, <2>1, <2>2, <2>3, CopiesStay
  <1> QED
    BY <1>9, <1>10, <1>11, <1>12 DEF ReignInv

\* What one step of the apply loop does.
LEMMA TickEffect ==
  ASSUME TypeInv, NEW i \in Server, TickApply(i)
  PROVE  /\ \A j \in Server : j # i =>
              /\ log'[j] = log[j] /\ applied'[j] = applied[j] /\ applying'[j] = applying[j]
              /\ last_applied'[j] = last_applied[j]
         /\ \/ /\ log'[i] = log[i] /\ last_applied'[i] = last_applied[i]
               /\ Loop(i).at <= Loop(i).to
               /\ applied'[i] =
                    IF Get(log[i], Loop(i).at) = NoEntry THEN applied[i]
                    ELSE Append(applied[i],
                           [index |-> Loop(i).at, entry |-> Get(log[i], Loop(i).at)])
               /\ applying'[i].busy /\ applying'[i].at = Loop(i).at + 1
               /\ applying'[i].to = Loop(i).to
            \/ /\ log'[i] = LogAfterTick(log[i], applied[i]) /\ applied'[i] = applied[i]
               /\ Loop(i).at > Loop(i).to
               /\ last_applied'[i] = Loop(i).to /\ ~applying'[i].busy
         /\ UNCHANGED <<role, commit_index, next_index, match_index, proposing, acked,
                        appendReq, appendResp, snapReq, snapResp>>
  <1>1. UNCHANGED <<role, commit_index, next_index, match_index, proposing, acked,
                    appendReq, appendResp, snapReq, snapResp>>
    BY TickCases DEF stateVars, leaderVars, clientVars, appendNet
  <1>2. /\ log \in [Server -> LogType] /\ applied \in [Server -> Seq(AppliedEntry)]
        /\ applying \in [Server -> Applying] /\ last_applied \in [Server -> Nat]
    BY DEF TypeInv, LogTypes, CommitTypes
  <1>3. PICK a \in Applying : a = Loop(i)
    BY LoopType
  <1>4. /\ a.busy = Loop(i).busy /\ [a EXCEPT !.at = a.at + 1].at = a.at + 1
        /\ [a EXCEPT !.at = a.at + 1].to = a.to /\ [a EXCEPT !.at = a.at + 1].busy = a.busy
    BY <1>3 DEF Applying
  <1>5. a.busy
    BY <1>3 DEF Loop
  <1>6. CASE ApplyOne(i)
    <2>1. PICK e : e = Get(log[i], a.at)
      OBVIOUS
    <2>2. /\ a.at <= a.to
          /\ applied' = IF e = NoEntry THEN applied
                        ELSE [applied EXCEPT ![i] =
                                Append(applied[i], [index |-> a.at, entry |-> e])]
          /\ applying' = [applying EXCEPT ![i] = [a EXCEPT !.at = a.at + 1]]
          /\ UNCHANGED <<last_applied, log>>
      BY <1>3, <1>6, <2>1 DEF ApplyOne
    <2>3. applying'[i] = [a EXCEPT !.at = a.at + 1]
      BY <1>2, <2>2
    <2>4. \A j \in Server : j # i => applied'[j] = applied[j] /\ applying'[j] = applying[j]
      BY <1>2, <2>2
    <2>5. applied'[i] = IF e = NoEntry THEN applied[i]
                        ELSE Append(applied[i], [index |-> a.at, entry |-> e])
      BY <1>2, <2>2
    <2> QED
      BY <1>1, <1>3, <1>4, <1>5, <2>1, <2>2, <2>3, <2>4, <2>5
  <1>7. CASE ApplyEnd(i)
    <2>1. /\ a.at > a.to
          /\ last_applied' = [last_applied EXCEPT ![i] = a.to]
          /\ log' = [log EXCEPT ![i] = LogAfterTick(log[i], applied[i])]
          /\ applying' = [applying EXCEPT ![i] = NotApplying]
          /\ applied' = applied
      BY <1>3, <1>7 DEF ApplyEnd
    <2>2. last_applied'[i] = a.to /\ log'[i] = LogAfterTick(log[i], applied[i])
          /\ applying'[i] = NotApplying
      BY <1>2, <2>1
    <2>3. ~NotApplying.busy
      BY DEF NotApplying
    <2>4. \A j \in Server : j # i =>
            /\ log'[j] = log[j] /\ applied'[j] = applied[j] /\ applying'[j] = applying[j]
            /\ last_applied'[j] = last_applied[j]
      BY <1>2, <2>1
    <2> QED
      BY <1>1, <1>3, <2>1, <2>2, <2>3, <2>4
  <1> QED
    BY <1>6, <1>7, TickCases

LEMMA TickReign ==
  ASSUME ReignInv, TypeInv', NEW i \in Server, TickApply(i)
  PROVE  ReignInv' /\ LeadGrows
  <1>1. \A j \in Server : log'[j].entries = log[j].entries /\ log'[j].last = log[j].last
    <2> SUFFICES ASSUME NEW j \in Server
                 PROVE  log'[j].entries = log[j].entries /\ log'[j].last = log[j].last
      OBVIOUS
    <2>1. log'[j] = log[j] \/ log'[j] = LogAfterTick(log[j], applied[j])
      BY TickEffect DEF ReignInv
    <2>2. log[j] \in LogType
      BY ReignTypes DEF ReignInv
    <2> QED
      BY <2>1, <2>2, TickKeeps
  <1>2. UNCHANGED <<role, proposing, acked, appendReq, appendResp, snapReq, snapResp>>
    BY TickEffect DEF ReignInv
  <1>3. LeadGrows
    BY <1>1, LeadAssumption DEF LeadGrows
  <1>4. Throne'
    BY <1>2 DEF ReignInv, Throne
  <1>5. LeadLog'
    BY <1>1, <1>2, LeadAssumption DEF ReignInv, LeadLog
  <1>6. log'[Lead].data \in {log[Lead].data, applied[Lead]}
    <2>1. log'[Lead] = log[Lead] \/ log'[Lead] = LogAfterTick(log[Lead], applied[Lead])
      BY TickEffect, LeadAssumption DEF ReignInv
    <2>2. log[Lead] \in LogType
      BY ReignTypes, LeadAssumption DEF ReignInv
    <2> QED
      BY <2>1, <2>2, TickKeeps
  <1>7. ASSUME NEW j \in Server, applied'[j] # applied[j] PROVE Own(applied[j])'
    <2>1. PICK s \in Seq(AppliedEntry) : s = applied[j]
      BY ReignTypes DEF ReignInv
    <2>2. PICK n \in Nat : n = Loop(i).at
      BY LoopType DEF ReignInv, Applying
    <2>3. PICK e : e = Get(log[i], n) /\ e # NoEntry
      BY <1>7, <2>2, TickEffect DEF ReignInv
    <2>4. applied'[j] = Append(s, [index |-> n, entry |-> e])
      BY <1>7, <2>1, <2>2, <2>3, TickEffect DEF ReignInv
    <2>5. n \in Index /\ e = log[Lead].entries[n]
      <3>1. log[i] \in LogType
        BY ReignTypes DEF ReignInv
      <3>2. n \in Index /\ e = log[i].entries[n]
        BY <2>3, <3>1, GetType
      <3> QED
        BY <2>3, <3>2 DEF ReignInv, FromLeader
    <2>6. e = log'[Lead].entries[n]
      BY <2>3, <2>5, <1>3 DEF LeadGrows
    <2>7. Own(s)'
      BY <1>3, <2>1, OwnStays DEF ReignInv, FromLeader
    <2>8. \A k \in DOMAIN Append(s, [index |-> n, entry |-> e]) :
            Append(s, [index |-> n, entry |-> e])[k].entry =
              log'[Lead].entries[Append(s, [index |-> n, entry |-> e])[k].index]
      <3>1. PICK x : x = [index |-> n, entry |-> e]
        OBVIOUS
      <3>2. x = [index |-> n, entry |-> e] /\ x.index = n /\ x.entry = e
        BY <3>1
      <3>3. ASSUME NEW k \in DOMAIN Append(s, x)
            PROVE  (k \in DOMAIN s /\ Append(s, x)[k] = s[k]) \/ Append(s, x)[k] = x
        <4>1. k \in 1..(Len(s) + 1)
          OBVIOUS
        <4> QED
          BY <4>1
      <3>4. \A k \in DOMAIN s : s[k].entry = log'[Lead].entries[s[k].index]
        BY <2>7 DEF Own
      <3> QED
        BY <2>6, <3>2, <3>3, <3>4
    <2> QED
      BY <2>4, <2>8 DEF Own
  <1>8. FromLeader'
    <2>1. \A j \in Server : \A n \in Index : log'[j].entries[n] # NoEntry =>
            log'[j].entries[n] = log[Lead].entries[n]
      BY <1>1 DEF ReignInv, FromLeader
    <2> QED
      BY <1>2, <1>3, <1>6, <1>7, <2>1, CopiesStay
  <1> QED
    BY <1>3, <1>4, <1>5, <1>8 DEF ReignInv

\* What handle_install_snapshot does.
LEMMA InstallEffect ==
  ASSUME TypeInv, NEW i \in Server, NEW m \in snapReq, HandleInstallSnapshot(i, m)
  PROVE  /\ m.to = i
         /\ \A j \in Server : j # i =>
              /\ log'[j] = log[j] /\ applied'[j] = applied[j]
              /\ commit_index'[j] = commit_index[j] /\ last_applied'[j] = last_applied[j]
         /\ \/ /\ log'[i] = log[i] /\ applied'[i] = applied[i]
               /\ commit_index'[i] = commit_index[i] /\ last_applied'[i] = last_applied[i]
            \/ /\ log'[i] = TruncateBefore(SaveSnapshot(log[i], m.index, m.snapTerm, m.data),
                                           m.index + 1)
               /\ applied'[i] = m.data
               /\ commit_index'[i] = m.index /\ last_applied'[i] = m.index
         /\ \E r : r.to = m.from /\ r.index = m.index /\ snapResp' = snapResp \cup {r}
         /\ \A j \in Server : role'[j] = "Leader" => role[j] = "Leader"
         /\ UNCHANGED <<applying, next_index, match_index, proposing, acked, appendReq,
                        appendResp, snapReq>>
  <1>1. UNCHANGED <<applying, next_index, match_index, proposing, acked, appendReq,
                    appendResp, snapReq>> /\ m.to = i
    BY DEF HandleInstallSnapshot, leaderVars, clientVars
  <1>2. \E r : r.to = m.from /\ r.index = m.index /\ snapResp' = snapResp \cup {r}
    <2>1. PICK r : r = [from |-> i, to |-> m.from, boot |-> m.boot, index |-> m.index]
      OBVIOUS
    <2>2. r.to = m.from /\ r.index = m.index /\ snapResp' = snapResp \cup {r}
      BY <2>1 DEF HandleInstallSnapshot
    <2> QED
      BY <2>2
  <1>3. \A j \in Server : role'[j] = "Leader" => role[j] = "Leader"
    BY DEF HandleInstallSnapshot, FollowLeader, stateVars, TypeInv, StateTypes
  <1>4. /\ log \in [Server -> LogType] /\ applied \in [Server -> Seq(AppliedEntry)]
        /\ commit_index \in [Server -> Nat] /\ last_applied \in [Server -> Nat]
    BY DEF TypeInv, LogTypes, CommitTypes
  <1>5. CASE UNCHANGED <<commit_index, last_applied, applied, log>>
    BY <1>1, <1>2, <1>3, <1>5
  <1>6. CASE /\ applied' = [applied EXCEPT ![i] = m.data]
             /\ log' = [log EXCEPT ![i] =
                  TruncateBefore(SaveSnapshot(log[i], m.index, m.snapTerm, m.data), m.index + 1)]
             /\ commit_index' = [commit_index EXCEPT ![i] = m.index]
             /\ last_applied' = [last_applied EXCEPT ![i] = m.index]
    <2>1. PICK k : k = TruncateBefore(SaveSnapshot(log[i], m.index, m.snapTerm, m.data),
                                      m.index + 1)
      OBVIOUS
    <2>2. log' = [log EXCEPT ![i] = k]
      BY <1>6, <2>1
    <2>3. log'[i] = k /\ applied'[i] = m.data /\ commit_index'[i] = m.index
          /\ last_applied'[i] = m.index
      BY <1>4, <1>6, <2>2
    <2>4. \A j \in Server : j # i =>
              /\ log'[j] = log[j] /\ applied'[j] = applied[j]
              /\ commit_index'[j] = commit_index[j] /\ last_applied'[j] = last_applied[j]
      BY <1>4, <1>6, <2>2
    <2> QED
      BY <1>1, <1>2, <1>3, <2>1, <2>3, <2>4
  <1> QED
    BY <1>5, <1>6 DEF HandleInstallSnapshot

LEMMA InstallReign ==
  ASSUME ReignInv, TypeInv', NEW i \in Server, NEW m \in snapReq, HandleInstallSnapshot(i, m)
  PROVE  ReignInv' /\ LeadGrows
  <1>1. m.to = i /\ i # Lead /\ m.from = Lead
    BY InstallEffect DEF ReignInv, Throne
  <1>2. log'[Lead] = log[Lead]
    BY <1>1, InstallEffect, LeadAssumption DEF ReignInv
  <1>3. UNCHANGED <<proposing, acked, appendReq, appendResp, snapReq>>
        /\ \A j \in Server : role'[j] = "Leader" => role[j] = "Leader"
    BY InstallEffect DEF ReignInv
  <1>4. \A r \in snapResp' : r \in snapResp \/ r.to = Lead
    BY <1>1, InstallEffect DEF ReignInv
  <1>5. LeadGrows
    BY <1>2 DEF LeadGrows
  <1>6. Throne'
    BY <1>3, <1>4 DEF ReignInv, Throne
  <1>7. LeadLog'
    BY <1>2, <1>3 DEF ReignInv, LeadLog
  <1>8. \A j \in Server : log'[j].entries = log[j].entries
    BY InstallEffect, SnapshotKeeps, ReignTypes DEF ReignInv
  <1>9. ASSUME NEW j \in Server, applied'[j] # applied[j] PROVE Own(applied[j])'
    <2>1. applied'[j] = m.data /\ m.data \in Seq(AppliedEntry)
      BY <1>9, InstallEffect, ReignTypes DEF ReignInv
    <2>2. Own(m.data)'
      BY <1>5, <2>1, OwnStays DEF ReignInv, FromLeader
    <2> QED
      BY <2>1, <2>2 DEF Own
  <1>10. FromLeader'
    <2>1. \A j \in Server : \A n \in Index : log'[j].entries[n] # NoEntry =>
            log'[j].entries[n] = log[Lead].entries[n]
      BY <1>8 DEF ReignInv, FromLeader
    <2> QED
      BY <1>2, <1>3, <1>5, <1>9, <2>1, CopiesStay
  <1> QED
    BY <1>5, <1>6, <1>7, <1>10 DEF ReignInv

LEMMA ReignStep == ReignInv /\ OneProposer /\ ReplicationNext => ReignInv' /\ LeadGrows
  <1> SUFFICES ASSUME ReignInv, OneProposer, ReplicationNext PROVE ReignInv' /\ LeadGrows
    OBVIOUS
  <1>1. TypeInv'
    BY ReplicationTypes DEF ReignInv
  <1> QED
    BY <1>1, HeartbeatReign, RefuseReign, AppendEntriesReign, ResponseReign, ProposeReadReign,
       ProposeAppendReign, ProposeEndReign, TickReign, InstallReign
    DEF ReplicationNext

LEMMA ReignStutter == ReignInv /\ UNCHANGED vars => ReignInv' /\ LeadGrows
  <1> SUFFICES ASSUME ReignInv, UNCHANGED vars PROVE ReignInv' /\ LeadGrows
    OBVIOUS
  <1>1. TypeInv'
    BY StutterTypes DEF ReignInv
  <1>2. UNCHANGED <<log, applied, proposing, acked, role, appendReq, appendResp, snapReq,
                    snapResp>>
    BY DEF vars, stateVars, commitVars, clientVars, appendNet
  <1> QED
    BY <1>1, <1>2, QuietReign

LEMMA EmptyRange ==
  ASSUME NEW a, NEW b, NEW n \in Index
  PROVE  GetRange(EmptyLog, a, b)[n] = NoEntry
  BY DEF GetRange, Get, EmptyLog, EmptySlice

LEMMA ReignTypeInit == ReignInit => TypeInv
  <1> SUFFICES ASSUME ReignInit PROVE TypeInv
    OBVIOUS
  <1>1. StateTypes
    BY LeadAssumption DEF ReignInit, StateTypes, Role, ReignTerm
  <1>2. CommitTypes
    BY Idles DEF ReignInit, CommitTypes
  <1>3. LeaderTypes /\ LogTypes /\ BootTypes
    BY EmptyLogType DEF ReignInit, LeaderTypes, LogTypes, BootTypes
  <1>4. VoteTypes
    <2>1. cast \subseteq Ballot
      BY LeadAssumption DEF ReignInit, Ballot
    <2>2. won \subseteq Victory
      BY LeadAssumption DEF ReignInit, Victory
    <2> QED
      BY <2>1, <2>2, Idles DEF ReignInit, VoteTypes
  <1>5. ClientTypes
    BY Idles DEF ReignInit, ClientTypes
  <1>6. NetTypes
    <2>1. next_index[Lead] \in [Server -> Nat]
      BY <1>3, LeadAssumption DEF LeaderTypes
    <2>2. AppendRequests(Lead, EmptyLog, 0, next_index[Lead]) \subseteq AppendRequest
      BY <1>1, <1>3, <2>1, LeadAssumption, EmptyLogType, HeartbeatTypes
    <2> QED
      BY <2>2 DEF ReignInit, NetTypes
  <1> QED
    BY <1>1, <1>2, <1>3, <1>4, <1>5, <1>6 DEF TypeInv

LEMMA ReignStart == ReignInit => ReignInv
  <1> SUFFICES ASSUME ReignInit PROVE ReignInv
    OBVIOUS
  <1>1. \A m \in appendReq : /\ m.from = Lead /\ m.to # Lead
                             /\ \A n \in Index : m.entries[n] = NoEntry
    <2>1. appendReq = AppendRequests(Lead, EmptyLog, 0, next_index[Lead])
      BY DEF ReignInit
    <2> QED
      BY <2>1, AppendRequestFields, EmptyRange DEF Peers
  <1>2. Throne
    BY <1>1 DEF ReignInit, Throne, Peers
  <1>3. \A i \in Server : /\ log[i].last = 0 /\ log[i].data = NoSnapshot /\ applied[i] = <<>>
                          /\ \A n \in Index : log[i].entries[n] = NoEntry
    BY DEF ReignInit, EmptyLog, EmptySlice
  <1>4. \A p \in Proposer : proposing[Lead][p].phase = "idle"
    BY LeadAssumption DEF ReignInit, NoProposal
  <1>5. LeadLog
    BY <1>3, <1>4, LeadAssumption DEF LeadLog, Index
  <1>6. FromLeader
    <2>1. acked = {} /\ snapReq = {}
      BY DEF ReignInit
    <2>2. \A i \in Server : Own(applied[i])
      BY <1>3 DEF Own
    <2> QED
      BY <1>1, <1>3, <1>4, <2>1, <2>2, LeadAssumption DEF FromLeader, AckedInLog
  <1> QED
    BY <1>2, <1>5, <1>6, ReignTypeInit DEF ReignInv

LEMMA ReignInvariant == OneProposer /\ ReignSpec => []ReignInv
  <1>1. ReignInit => ReignInv
    BY ReignStart
  <1>2. OneProposer /\ ReignInv /\ [ReplicationNext]_vars => ReignInv'
    BY ReignStep, ReignStutter
  <1>3. OneProposer => []OneProposer
    <2>1. OneProposer => OneProposer'
      BY DEF OneProposer
    <2> QED
      BY <2>1, PTL
  <1> QED
    BY <1>1, <1>2, <1>3, PTL DEF ReignSpec

\* Two nodes that can read an entry of the same index read the same one, for
\* any cluster, log, batch size, snapshot threshold and delay of messages, as
\* long as proposals do not overlap: truncating and appending whatever arrives,
\* handle_append_entries never stores anything but the leader's entries.
THEOREM LogsAgree == OneProposer /\ ReignSpec => []LogAgreement
  <1>1. ReignInv => LogAgreement
    <2> SUFFICES ASSUME ReignInv, NEW i \in Server, NEW j \in Server, NEW n \in Index,
                        Get(log[i], n) # NoEntry, Get(log[j], n) # NoEntry
                 PROVE  Get(log[i], n) = Get(log[j], n)
      BY DEF LogAgreement
    <2>1. Get(log[i], n) = log[i].entries[n] /\ Get(log[j], n) = log[j].entries[n]
      BY DEF Get
    <2> QED
      BY <2>1 DEF ReignInv, FromLeader
  <1> QED
    BY <1>1, ReignInvariant, PTL

-----------------------------------------------------------------------------
(***************************************************************************)
(* How far the indices reach.                                              *)
(***************************************************************************)

\* Snapshot and first index go together, and nothing is stored above last_index.
LogShape ==
  /\ \A i \in Server : log[i].first = log[i].snapIndex + 1
  /\ \A i \in Server : \A n \in Index : log[i].entries[n] # NoEntry => n <= log[i].last
  /\ log[Lead].snapIndex <= log[Lead].last
  /\ log[Lead].data = NoSnapshot => log[Lead].snapIndex = 0

\* No message and no counter of the leader points beyond its log.
WithinLog ==
  /\ \A m \in appendReq : /\ m.prev <= log[Lead].last
                          /\ m.lastIndex <= log[Lead].last
                          /\ m.commit <= commit_index[Lead]
                          /\ \A n \in Carried(m.entries) : n > m.prev
  /\ \A m \in appendResp : /\ m.match <= log[Lead].last
                           /\ m.lastIndex <= log[Lead].last
                           /\ m.conflict <= log[Lead].last
  /\ \A m \in snapReq : m.index <= log[Lead].snapIndex
  /\ \A m \in snapResp : m.index <= log[Lead].snapIndex
  /\ \A j \in Server : /\ match_index[Lead][j] <= log[Lead].last
                       /\ next_index[Lead][j] <= log[Lead].last + 1

CommitInv == LogShape /\ WithinLog /\ CommitBehindLeader

\* The leader's last, snapshot and commit index never go back.
LeadAdvances ==
  /\ log'[Lead].last >= log[Lead].last
  /\ log'[Lead].snapIndex >= log[Lead].snapIndex
  /\ commit_index'[Lead] >= commit_index[Lead]

LEMMA IndexTypes ==
  ASSUME TypeInv
  PROVE  /\ \A i \in Server : /\ log[i].last \in Nat /\ log[i].first \in Nat
                              /\ log[i].snapIndex \in Nat /\ commit_index[i] \in Nat
                              /\ log[i].last \in 0..MaxLog
         /\ \A i, j \in Server : next_index[i][j] \in Nat /\ match_index[i][j] \in Nat
  <1>1. \A i \in Server : log[i] \in LogType /\ commit_index[i] \in Nat
    BY DEF TypeInv, LogTypes, CommitTypes
  <1>2. \A i \in Server : log[i].last \in 0..MaxLog /\ log[i].last \in Nat
                          /\ log[i].first \in Nat /\ log[i].snapIndex \in Nat
    BY <1>1 DEF LogType
  <1>3. \A i, j \in Server : next_index[i][j] \in Nat /\ match_index[i][j] \in Nat
    BY DEF TypeInv, LeaderTypes
  <1> QED
    BY <1>1, <1>2, <1>3

LEMMA NextIndexTypes ==
  ASSUME TypeInv'
  PROVE  /\ \A i \in Server : /\ log'[i].last \in Nat /\ log'[i].snapIndex \in Nat
                              /\ log'[i].first \in Nat /\ commit_index'[i] \in Nat
         /\ \A i, j \in Server : next_index'[i][j] \in Nat /\ match_index'[i][j] \in Nat
  <1>1. \A i \in Server : log'[i] \in LogType /\ commit_index'[i] \in Nat
    BY DEF TypeInv, LogTypes, CommitTypes
  <1>2. \A i \in Server : log'[i].last \in Nat /\ log'[i].snapIndex \in Nat
                          /\ log'[i].first \in Nat
    BY <1>1 DEF LogType
  <1>3. \A i, j \in Server : next_index'[i][j] \in Nat /\ match_index'[i][j] \in Nat
    BY DEF TypeInv, LeaderTypes
  <1> QED
    BY <1>1, <1>2, <1>3

\* A step keeps everything within the leader's log if its indices only advance
\* and what is new stays within it.
LEMMA BoundsStay ==
  ASSUME TypeInv, TypeInv', CommitInv, LogShape', LeadAdvances,
         \A m \in appendReq' : m \in appendReq \/
           /\ m.prev <= log'[Lead].last /\ m.lastIndex <= log'[Lead].last
           /\ m.commit <= commit_index'[Lead]
           /\ \A n \in Carried(m.entries) : n > m.prev,
         \A m \in appendResp' : m \in appendResp \/
           /\ m.match <= log'[Lead].last /\ m.lastIndex <= log'[Lead].last
           /\ m.conflict <= log'[Lead].last,
         \A m \in snapReq' : m \in snapReq \/ m.index <= log'[Lead].snapIndex,
         \A m \in snapResp' : m \in snapResp \/ m.index <= log'[Lead].snapIndex,
         \A j \in Server : /\ \/ match_index'[Lead][j] = match_index[Lead][j]
                              \/ match_index'[Lead][j] <= log[Lead].last
                           /\ \/ next_index'[Lead][j] = next_index[Lead][j]
                              \/ next_index'[Lead][j] <= log[Lead].last + 1,
         commit_index'[Lead] <= log'[Lead].last,
         \A i \in Server : \/ commit_index'[i] = commit_index[i]
                           \/ commit_index'[i] <= commit_index'[Lead]
                           \/ commit_index'[i] <= log'[Lead].snapIndex
  PROVE  CommitInv'
  <1>1. PICK L \in Nat : L = log[Lead].last
    BY IndexTypes, LeadAssumption
  <1>2. PICK L1 \in Nat : L1 = log'[Lead].last /\ L <= L1
    BY <1>1, IndexTypes, NextIndexTypes, LeadAssumption DEF LeadAdvances
  <1>3. PICK S \in Nat : S = log[Lead].snapIndex
    BY IndexTypes, LeadAssumption
  <1>4. PICK S1 \in Nat : S1 = log'[Lead].snapIndex /\ S <= S1
    BY <1>3, IndexTypes, NextIndexTypes, LeadAssumption DEF LeadAdvances
  <1>5. PICK C \in Nat : C = commit_index[Lead]
    BY IndexTypes, LeadAssumption
  <1>6. PICK C1 \in Nat : C1 = commit_index'[Lead] /\ C <= C1
    BY <1>5, IndexTypes, NextIndexTypes, LeadAssumption DEF LeadAdvances
  <1>7. ASSUME NEW m \in appendReq'
        PROVE  /\ m.prev <= L1 /\ m.lastIndex <= L1 /\ m.commit <= C1
               /\ \A n \in Carried(m.entries) : n > m.prev
    <2>1. CASE m \in appendReq
      <3>1. m.prev \in Nat /\ m.lastIndex \in Nat /\ m.commit \in Nat
        BY <2>1, ReignTypes
      <3>2. /\ m.prev <= L /\ m.lastIndex <= L /\ m.commit <= C
            /\ \A n \in Carried(m.entries) : n > m.prev
        BY <1>1, <1>5, <2>1 DEF CommitInv, WithinLog
      <3> QED
        BY <1>2, <1>6, <3>1, <3>2
    <2> QED
      BY <1>2, <1>6, <1>7, <2>1
  <1>8. ASSUME NEW m \in appendResp'
        PROVE  m.match <= L1 /\ m.lastIndex <= L1 /\ m.conflict <= L1
    <2>1. CASE m \in appendResp
      <3>1. m.match \in Nat /\ m.lastIndex \in Nat /\ m.conflict \in Nat
        BY <2>1, ReignTypes
      <3>2. m.match <= L /\ m.lastIndex <= L /\ m.conflict <= L
        BY <1>1, <2>1 DEF CommitInv, WithinLog
      <3> QED
        BY <1>2, <3>1, <3>2
    <2> QED
      BY <1>2, <1>8, <2>1
  <1>9. ASSUME NEW m \in snapReq' PROVE m.index <= S1
    <2>1. CASE m \in snapReq
      <3>1. m.index \in Nat /\ m.index <= S
        BY <1>3, <2>1, ReignTypes DEF CommitInv, WithinLog
      <3> QED
        BY <1>4, <3>1
    <2> QED
      BY <1>4, <1>9, <2>1
  <1>10. ASSUME NEW m \in snapResp' PROVE m.index <= S1
    <2>1. CASE m \in snapResp
      <3>1. m.index \in Nat /\ m.index <= S
        BY <1>3, <2>1, ReignTypes DEF CommitInv, WithinLog
      <3> QED
        BY <1>4, <3>1
    <2> QED
      BY <1>4, <1>10, <2>1
  <1>11. ASSUME NEW j \in Server
         PROVE  match_index'[Lead][j] <= L1 /\ next_index'[Lead][j] <= L1 + 1
    <2>1. match_index'[Lead][j] \in Nat /\ next_index'[Lead][j] \in Nat
      BY NextIndexTypes, LeadAssumption
    <2>2. match_index'[Lead][j] <= L /\ next_index'[Lead][j] <= L + 1
      BY <1>1 DEF CommitInv, WithinLog
    <2> QED
      BY <1>2, <2>1, <2>2
  <1>12. WithinLog'
    BY <1>2, <1>4, <1>6, <1>7, <1>8, <1>9, <1>10, <1>11 DEF WithinLog
  <1>13. ASSUME NEW i \in Server
         PROVE  commit_index'[i] <= C1 \/ commit_index'[i] < log'[Lead].first
    <2>1. PICK c \in Nat : c = commit_index'[i]
      BY NextIndexTypes
    <2>2. log'[Lead].first = S1 + 1 /\ log[Lead].first = S + 1
      BY <1>3, <1>4, LeadAssumption DEF LogShape, CommitInv
    <2>3. commit_index'[i] = commit_index[i] => c <= C \/ c < S + 1
      BY <1>5, <2>1, <2>2 DEF CommitInv, CommitBehindLeader
    <2>4. c <= C \/ c < S + 1 \/ c <= C1 \/ c <= S1
      BY <1>4, <1>6, <2>1, <2>3
    <2> QED
      BY <1>4, <1>6, <2>1, <2>2, <2>4
  <1>14. CommitBehindLeader'
    BY <1>6, <1>13 DEF CommitBehindLeader
  <1> QED
    BY <1>12, <1>14 DEF CommitInv

\* Requests the leader sends stay within the log it reads them from.
LEMMA SendsWithin ==
  ASSUME NEW l \in LogType, NEW c, NEW nxt \in [Server -> Nat], NEW L \in Nat,
         L = l.last, \A j \in Server : nxt[j] <= L + 1, SendHeartbeats(Lead, l, c, nxt)
  PROVE  /\ \A m \in appendReq' : m \in appendReq \/
              /\ m.prev <= L /\ m.lastIndex <= L /\ m.commit = c
              /\ \A n \in Carried(m.entries) : n > m.prev
         /\ \A m \in snapReq' : m \in snapReq \/ m.index = l.snapIndex
         /\ UNCHANGED <<appendResp, snapResp>>
  <1>1. ASSUME NEW m \in AppendRequests(Lead, l, c, nxt)
        PROVE  /\ m.prev <= L /\ m.lastIndex <= L /\ m.commit = c
               /\ \A n \in Carried(m.entries) : n > m.prev
    <2>1. m.to \in Server /\ m.prev = Prev(nxt, m.to) /\ m.commit = c /\ m.lastIndex = L
          /\ m.entries = GetRange(l, nxt[m.to], nxt[m.to] + MaxEntries)
      BY AppendRequestFields DEF Peers
    <2>2. PICK x \in Nat : x = nxt[m.to] /\ x <= L + 1
      BY <2>1
    <2>3. m.prev = IF x > 0 THEN x - 1 ELSE 0
      BY <2>1, <2>2 DEF Prev
    <2>4. ASSUME NEW n \in Carried(m.entries) PROVE n > m.prev
      <3>1. n \in Index /\ n >= x
        BY <2>1, <2>2, RangeReads DEF Carried
      <3> QED
        BY <2>2, <2>3, <3>1 DEF Index
    <2> QED
      BY <2>1, <2>2, <2>3, <2>4
  <1>2. ASSUME NEW m \in SnapshotRequests(Lead, l, nxt) PROVE m.index = l.snapIndex
    BY SnapshotRequestFields
  <1> QED
    BY <1>1, <1>2 DEF SendHeartbeats

\* Steps that move no log and no commit index.
LEMMA QuietBounds ==
  ASSUME TypeInv, TypeInv', CommitInv, UNCHANGED <<log, commit_index>>,
         \A m \in appendReq' : m \in appendReq \/
           /\ m.prev <= log[Lead].last /\ m.lastIndex <= log[Lead].last
           /\ m.commit <= commit_index[Lead]
           /\ \A n \in Carried(m.entries) : n > m.prev,
         \A m \in appendResp' : m \in appendResp \/
           /\ m.match <= log[Lead].last /\ m.lastIndex <= log[Lead].last
           /\ m.conflict <= log[Lead].last,
         \A m \in snapReq' : m \in snapReq \/ m.index <= log[Lead].snapIndex,
         \A m \in snapResp' : m \in snapResp \/ m.index <= log[Lead].snapIndex,
         \A j \in Server : /\ \/ match_index'[Lead][j] = match_index[Lead][j]
                              \/ match_index'[Lead][j] <= log[Lead].last
                           /\ \/ next_index'[Lead][j] = next_index[Lead][j]
                              \/ next_index'[Lead][j] <= log[Lead].last + 1
  PROVE  CommitInv' /\ LeadAdvances
  <1>1. LeadAdvances
    BY IndexTypes, LeadAssumption DEF LeadAdvances
  <1>2. LogShape'
    BY DEF CommitInv, LogShape
  <1>3. commit_index'[Lead] <= log'[Lead].last
    BY DEF CommitInv, CommitBehindLeader
  <1>4. CommitInv'
    BY <1>1, <1>2, <1>3, BoundsStay
  <1> QED
    BY <1>1, <1>4

LEMMA HeartbeatBounds ==
  ASSUME ReignInv, CommitInv, TypeInv', NEW i \in Server, TickHeartbeat(i)
  PROVE  CommitInv' /\ LeadAdvances
  <1>1. i = Lead
    BY DEF TickHeartbeat, ReignInv, Throne
  <1>2. SendHeartbeats(Lead, log[Lead], commit_index[Lead], next_index[Lead])
    BY <1>1 DEF TickHeartbeat
  <1>3. UNCHANGED <<log, commit_index, next_index, match_index>>
    BY DEF TickHeartbeat, commitVars, leaderVars
  <1>4. PICK l \in LogType : l = log[Lead]
    BY ReignTypes, LeadAssumption DEF ReignInv
  <1>5. PICK nxt \in [Server -> Nat] : nxt = next_index[Lead]
    BY LeadAssumption DEF ReignInv, TypeInv, LeaderTypes
  <1>6. PICK L \in Nat : L = l.last
    BY DEF LogType
  <1>7. \A j \in Server : nxt[j] <= L + 1
    BY <1>4, <1>5, <1>6 DEF CommitInv, WithinLog
  <1>8. PICK c \in Nat : c = commit_index[Lead]
    BY IndexTypes, LeadAssumption DEF ReignInv
  <1>9. SendHeartbeats(Lead, l, c, nxt)
    BY <1>2, <1>4, <1>5, <1>8
  <1>10. /\ \A m \in appendReq' : m \in appendReq \/
              /\ m.prev <= L /\ m.lastIndex <= L /\ m.commit <= c
              /\ \A n \in Carried(m.entries) : n > m.prev
         /\ \A m \in snapReq' : m \in snapReq \/ m.index <= l.snapIndex
         /\ UNCHANGED <<appendResp, snapResp>>
    <2>1. l.snapIndex \in Nat
      BY DEF LogType
    <2> QED
      BY <1>6, <1>7, <1>9, <2>1, SendsWithin
  <1> QED
    BY <1>3, <1>4, <1>6, <1>8, <1>10, QuietBounds DEF ReignInv

LEMMA RefuseBounds ==
  ASSUME ReignInv, CommitInv, TypeInv', NEW i \in Server, NEW m \in appendReq,
         RefuseAppendEntries(i, m)
  PROVE  CommitInv' /\ LeadAdvances
  <1>1. PICK r : r = AppendReply(i, m, FALSE, 0, 0)
    OBVIOUS
  <1>2. r.match = 0 /\ r.conflict = 0 /\ r.lastIndex = m.lastIndex
    BY <1>1 DEF AppendReply
  <1>3. m.lastIndex <= log[Lead].last /\ 0 <= log[Lead].last
    BY IndexTypes, LeadAssumption DEF CommitInv, WithinLog, ReignInv
  <1>4. UNCHANGED <<log, commit_index, next_index, match_index, appendReq, snapReq, snapResp>>
        /\ appendResp' = appendResp \cup {r}
    BY <1>1 DEF RefuseAppendEntries, commitVars, leaderVars
  <1> QED
    BY <1>2, <1>3, <1>4, QuietBounds DEF ReignInv

\* Entries that follow a, none above b, are at most b - a.
LEMMA CarriedBound ==
  ASSUME NEW S, NEW a \in Nat, NEW b \in Nat, a <= b, S \subseteq (a + 1)..b
  PROVE  a + Cardinality(S) <= b
  <1>1. IsFiniteSet((a + 1)..b)
        /\ Cardinality((a + 1)..b) = IF a + 1 > b THEN 0 ELSE b - (a + 1) + 1
    BY FS_Interval
  <1>2. Cardinality(S) <= Cardinality((a + 1)..b) /\ Cardinality(S) \in Nat
    BY <1>1, FS_Subset, FS_CardinalityType
  <1> QED
    BY <1>1, <1>2

\* What an AppendEntries request carries is within the leader's log.
LEMMA CarriedWithin ==
  ASSUME ReignInv, CommitInv, NEW m \in appendReq
  PROVE  \A n \in Carried(m.entries) : n \in Index /\ n > m.prev /\ n <= log[Lead].last
  <1>1. \A n \in Carried(m.entries) : n \in Index /\ m.entries[n] # NoEntry
    BY DEF Carried
  <1>2. \A n \in Carried(m.entries) : log[Lead].entries[n] # NoEntry
    BY <1>1 DEF ReignInv, FromLeader
  <1> QED
    BY <1>1, <1>2 DEF ReignInv, LeadLog, CommitInv, WithinLog

LEMMA AppendEntriesBounds ==
  ASSUME ReignInv, CommitInv, TypeInv', NEW i \in Server, NEW m \in appendReq,
         HandleAppendEntries(i, m)
  PROVE  CommitInv' /\ LeadAdvances
  <1>1. m.to = i /\ i # Lead
    BY AppendEffect DEF ReignInv, Throne
  <1>2. log'[Lead] = log[Lead] /\ commit_index'[Lead] = commit_index[Lead]
    BY <1>1, AppendEffect, LeadAssumption DEF ReignInv
  <1>3. UNCHANGED <<next_index, match_index, appendReq, snapReq, snapResp>>
    BY AppendEffect DEF ReignInv
  <1>4. LeadAdvances
    BY <1>2, IndexTypes, LeadAssumption DEF LeadAdvances, ReignInv
  <1>5. PICK l \in LogType : l = log[i]
    BY ReignTypes DEF ReignInv
  <1>6. m.entries \in Slice /\ m.prev \in Nat /\ m.commit \in Nat /\ m.lastIndex \in Nat
    BY ReignTypes DEF ReignInv
  <1>7. PICK L \in Nat : L = log[Lead].last
    BY IndexTypes, LeadAssumption DEF ReignInv
  <1>8. PICK k : k = log'[i]
    OBVIOUS
  <1>9. k = l \/ k = LogAfterAppend(l, m)
    BY <1>5, <1>8, AppendEffect DEF ReignInv
  <1>10. /\ k.first = l.first /\ k.snapIndex = l.snapIndex
         /\ \A n \in Index : k.entries[n] # NoEntry => n <= k.last
    <2>1. CASE k = l
      BY <1>5, <2>1 DEF CommitInv, LogShape
    <2>2. CASE k = LogAfterAppend(l, m) /\ Carried(m.entries) # {}
      <3>1. /\ k.first = l.first /\ k.snapIndex = l.snapIndex /\ k.last = LastOf(m.entries)
            /\ \A n \in Index :
                 k.entries[n] = IF m.entries[n] # NoEntry THEN m.entries[n]
                                ELSE IF n >= FirstOf(m.entries) /\ n <= l.last THEN NoEntry
                                ELSE l.entries[n]
        BY <1>6, <2>2, AppendKeeps
      <3>2. /\ FirstOf(m.entries) \in Index /\ LastOf(m.entries) \in Index
            /\ FirstOf(m.entries) <= LastOf(m.entries)
            /\ \A n \in Carried(m.entries) : n <= LastOf(m.entries)
        BY <1>6, <2>2, CarriedEnds, CarriedEntry
      <3>3. ASSUME NEW n \in Index, k.entries[n] # NoEntry PROVE n <= k.last
        <4>1. CASE m.entries[n] # NoEntry
          BY <3>1, <3>2, <4>1 DEF Carried
        <4>2. CASE m.entries[n] = NoEntry
          <5>1. l.entries[n] # NoEntry /\ ~ (n >= FirstOf(m.entries) /\ n <= l.last)
            BY <3>1, <3>3, <4>2
          <5>2. n <= l.last
            BY <1>5, <5>1 DEF CommitInv, LogShape
          <5> QED
            BY <3>1, <3>2, <5>1, <5>2 DEF Index
        <4> QED
          BY <4>1, <4>2
      <3> QED
        BY <3>1, <3>3
    <2>3. CASE k = LogAfterAppend(l, m) /\ Carried(m.entries) = {}
      <3>1. k = l
        BY <1>6, <2>3, AppendKeeps
      <3> QED
        BY <2>1, <3>1
    <2> QED
      BY <1>9, <2>1, <2>2, <2>3
  <1>11. LogShape'
    <2>1. \A j \in Server : j # i => log'[j] = log[j]
      BY AppendEffect DEF ReignInv
    <2>2. \A j \in Server : log[j].first = log[j].snapIndex + 1
      BY DEF CommitInv, LogShape
    <2>3. \A j \in Server : log'[j].first = log'[j].snapIndex + 1
      BY <1>5, <1>8, <1>10, <2>1, <2>2
    <2>4. \A j \in Server : \A n \in Index : log[j].entries[n] # NoEntry => n <= log[j].last
      BY DEF CommitInv, LogShape
    <2>5. \A j \in Server : \A n \in Index : log'[j].entries[n] # NoEntry => n <= log'[j].last
      BY <1>8, <1>10, <2>1, <2>4
    <2> QED
      BY <1>2, <2>3, <2>5 DEF CommitInv, LogShape
  <1>12. \A r \in appendResp' : r \in appendResp \/
           (r.match <= L /\ r.lastIndex <= L /\ r.conflict <= L)
    <2>1. PICK s \in BOOLEAN, x \in Nat, c \in Nat :
            /\ appendResp' = appendResp \cup {AppendReply(i, m, s, x, c)}
            /\ x \in {0, m.prev + Cardinality(Carried(m.entries))} /\ c <= m.prev
      BY AppendEffect DEF ReignInv
    <2>2. m.prev <= L /\ m.lastIndex <= L
      BY <1>7 DEF CommitInv, WithinLog
    <2>3. m.prev + Cardinality(Carried(m.entries)) <= L
      <3>1. \A n \in Carried(m.entries) : n \in Nat /\ n > m.prev /\ n <= L
        BY <1>7, CarriedWithin DEF Index
      <3>2. Carried(m.entries) \subseteq (m.prev + 1)..L
        BY <1>6, <3>1
      <3> QED
        BY <1>6, <2>2, <3>2, CarriedBound
    <2>4. x <= L /\ c <= L
      BY <1>6, <2>1, <2>2, <2>3
    <2>5. PICK r : r = AppendReply(i, m, s, x, c)
      OBVIOUS
    <2>6. r.match = x /\ r.lastIndex = m.lastIndex /\ r.conflict = c
      BY <2>5 DEF AppendReply
    <2>7. r.match <= L /\ r.lastIndex <= L /\ r.conflict <= L
      BY <2>2, <2>4, <2>6
    <2>8. \A q \in appendResp' : q \in appendResp \/ q = r
      BY <2>1, <2>5
    <2> QED
      BY <2>7, <2>8
  <1>13. \A j \in Server : commit_index'[j] = commit_index[j]
                           \/ commit_index'[j] <= commit_index'[Lead]
    <2>1. m.commit <= commit_index[Lead] /\ commit_index[Lead] \in Nat
      BY IndexTypes, LeadAssumption DEF CommitInv, WithinLog, ReignInv
    <2>2. log'[i].last \in Nat
      BY NextIndexTypes
    <2>3. FollowerCommit(log'[i], m) <= m.commit
      BY <1>6, <2>2 DEF FollowerCommit
    <2>4. FollowerCommit(log'[i], m) \in Nat
      BY <1>6, <2>2 DEF FollowerCommit
    <2>5. FollowerCommit(log'[i], m) <= commit_index'[Lead]
      BY <1>2, <1>6, <2>1, <2>3, <2>4
    <2> QED
      BY <2>5, AppendEffect DEF ReignInv
  <1>14. commit_index'[Lead] <= log'[Lead].last
    BY <1>2 DEF CommitInv, CommitBehindLeader
  <1>15. CommitInv'
    BY <1>2, <1>3, <1>4, <1>7, <1>11, <1>12, <1>13, <1>14, BoundsStay DEF ReignInv
  <1> QED
    BY <1>4, <1>15

LEMMA AppendResponseBounds ==
  ASSUME ReignInv, CommitInv, TypeInv', NEW i \in Server, NEW m \in appendResp,
         HandleAppendResponse(i, m)
  PROVE  CommitInv' /\ LeadAdvances
  <1>1. i = Lead
    BY DEF HandleAppendResponse, ReignInv, Throne
  <1>2. PICK L \in Nat : L = log[Lead].last
    BY IndexTypes, LeadAssumption DEF ReignInv
  <1>3. /\ m.match \in Nat /\ m.conflict \in Nat /\ m.lastIndex \in Nat /\ m.from \in Server
        /\ m.match <= L /\ m.lastIndex <= L /\ m.conflict <= L
    BY <1>2, ReignTypes DEF ReignInv, CommitInv, WithinLog
  <1>4. \A j \in Server : /\ match_index[Lead][j] \in Nat /\ match_index[Lead][j] <= L
                          /\ next_index[Lead][j] \in Nat /\ next_index[Lead][j] <= L + 1
    BY <1>2, IndexTypes, LeadAssumption DEF ReignInv, CommitInv, WithinLog
  <1>5. UNCHANGED <<log, appendReq, appendResp, snapReq, snapResp>>
    BY DEF HandleAppendResponse, appendNet
  <1>6. /\ match_index \in [Server -> [Server -> Nat]]
        /\ next_index \in [Server -> [Server -> Nat]] /\ commit_index \in [Server -> Nat]
    BY DEF ReignInv, TypeInv, LeaderTypes, CommitTypes
  <1>7. \A j \in Server : match_index'[Lead][j] \in Nat /\ match_index'[Lead][j] <= L
    <2>1. match_index' = match_index
          \/ match_index' = [match_index EXCEPT ![Lead][m.from] = m.match]
      BY <1>1 DEF HandleAppendResponse
    <2> QED
      BY <1>3, <1>4, <1>6, <2>1, LeadAssumption
  <1>8. \A j \in Server : next_index'[Lead][j] <= L + 1
    <2>1. PICK x \in Nat : x = IF m.success THEN m.match + 1
                               ELSE IF m.conflict > 0 THEN m.conflict
                               ELSE NextAfterReject(next_index[Lead][m.from])
      BY <1>3, <1>4 DEF NextAfterReject
    <2>2. NextAfterReject(next_index[Lead][m.from]) <= L + 1
      BY <1>3, <1>4 DEF NextAfterReject
    <2>3. x <= L + 1
      BY <1>3, <2>1, <2>2
    <2>4. next_index' = [next_index EXCEPT ![Lead][m.from] = x]
      BY <1>1, <2>1 DEF HandleAppendResponse
    <2> QED
      BY <1>3, <1>4, <1>6, <2>3, <2>4, LeadAssumption
  <1>9. PICK c \in 0..MaxLog :
          /\ IsMajorityMatch(Lead, match_index'[Lead], m.lastIndex, c)
          /\ commit_index' = IF c > commit_index[Lead]
                             THEN [commit_index EXCEPT ![Lead] = c] ELSE commit_index
    BY <1>1 DEF HandleAppendResponse
  <1>10. c <= L /\ c \in Nat
    <2>1. \E j \in Server : c = IF j = Lead THEN m.lastIndex ELSE match_index'[Lead][j]
      BY <1>9 DEF IsMajorityMatch
    <2> QED
      BY <1>3, <1>7, <2>1
  <1>11. /\ commit_index'[Lead] >= commit_index[Lead] /\ commit_index'[Lead] <= L
         /\ \A j \in Server : j # Lead => commit_index'[j] = commit_index[j]
    <2>1. commit_index[Lead] \in Nat /\ commit_index[Lead] <= L
      BY <1>2, <1>6, LeadAssumption DEF CommitInv, CommitBehindLeader
    <2>2. CASE c > commit_index[Lead]
      BY <1>6, <1>9, <1>10, <2>1, <2>2, LeadAssumption
    <2>3. CASE ~ (c > commit_index[Lead])
      BY <1>9, <2>1, <2>3
    <2> QED
      BY <2>2, <2>3
  <1>12. LeadAdvances
    BY <1>5, <1>11, IndexTypes, LeadAssumption DEF LeadAdvances, ReignInv
  <1>13. LogShape'
    BY <1>5 DEF CommitInv, LogShape
  <1>14. \A j \in Server : commit_index'[j] = commit_index[j]
                           \/ commit_index'[j] <= commit_index'[Lead]
    BY <1>11, NextIndexTypes
  <1>15. CommitInv'
    BY <1>2, <1>5, <1>7, <1>8, <1>11, <1>12, <1>13, <1>14, BoundsStay DEF ReignInv
  <1> QED
    BY <1>12, <1>15

LEMMA SnapshotResponseBounds ==
  ASSUME ReignInv, CommitInv, TypeInv', NEW i \in Server, NEW m \in snapResp,
         HandleSnapshotResponse(i, m)
  PROVE  CommitInv' /\ LeadAdvances
  <1>1. i = Lead
    BY DEF HandleSnapshotResponse, ReignInv, Throne
  <1>2. PICK L \in Nat : L = log[Lead].last
    BY IndexTypes, LeadAssumption DEF ReignInv
  <1>3. m.index \in Nat /\ m.from \in Server /\ m.index <= L
    <2>1. m.index \in Nat /\ m.from \in Server /\ m.index <= log[Lead].snapIndex
      BY ReignTypes DEF ReignInv, CommitInv, WithinLog
    <2>2. log[Lead].snapIndex \in Nat /\ log[Lead].snapIndex <= L
      BY <1>2, IndexTypes, LeadAssumption DEF ReignInv, CommitInv, LogShape
    <2> QED
      BY <2>1, <2>2
  <1>4. UNCHANGED <<log, commit_index, appendReq, appendResp, snapReq, snapResp>>
    BY DEF HandleSnapshotResponse, commitVars, appendNet
  <1>5. /\ match_index \in [Server -> [Server -> Nat]]
        /\ next_index \in [Server -> [Server -> Nat]]
    BY DEF ReignInv, TypeInv, LeaderTypes
  <1>6. /\ match_index' = [match_index EXCEPT ![Lead][m.from] = m.index]
        /\ next_index' = [next_index EXCEPT ![Lead][m.from] = m.index + 1]
    BY <1>1 DEF HandleSnapshotResponse
  <1>7. \A j \in Server :
          /\ match_index'[Lead][j] = match_index[Lead][j] \/ match_index'[Lead][j] <= L
          /\ next_index'[Lead][j] = next_index[Lead][j] \/ next_index'[Lead][j] <= L + 1
    <2>1. m.index + 1 <= L + 1
      BY <1>3
    <2> QED
      BY <1>3, <1>5, <1>6, <2>1, LeadAssumption
  <1> QED
    BY <1>2, <1>4, <1>7, QuietBounds DEF ReignInv

LEMMA ProposeBounds ==
  ASSUME ReignInv, CommitInv, TypeInv', NEW i \in Server, NEW p \in Proposer,
         ProposeAppend(i, p)
  PROVE  CommitInv' /\ LeadAdvances
  <1>1. PICK l \in LogType : l = log[Lead]
    BY ReignTypes, LeadAssumption DEF ReignInv
  <1>2. PICK q \in Proposal : q = proposing[Lead][p]
    BY ReignTypes, LeadAssumption DEF ReignInv
  <1>3. PICK k \in LogType : k = log'[Lead]
    BY LeadAssumption DEF TypeInv, LogTypes
  <1>4. /\ q.index \in Index /\ q.entry \in Entry /\ q.index = l.last + 1
        /\ k = AppendSlice(l, Single(q.index, q.entry))
    BY <1>1, <1>2, <1>3, ProposeEffect
  <1>5. PICK L \in Nat : L = l.last
    BY DEF LogType
  <1>6. /\ k.first = l.first /\ k.snapIndex = l.snapIndex /\ k.data = l.data /\ k.last = L + 1
        /\ \A n \in Index : k.entries[n] = IF n = L + 1 THEN q.entry ELSE l.entries[n]
    BY <1>4, <1>5, ProposedLog
  <1>7. PICK c \in Nat : c = commit_index'[Lead]
    BY NextIndexTypes, LeadAssumption
  <1>8. c >= commit_index[Lead] /\ c <= L + 1
    <2>1. commit_index[Lead] \in Nat /\ commit_index[Lead] <= L
      BY <1>1, <1>5, IndexTypes, LeadAssumption DEF CommitInv, CommitBehindLeader, ReignInv
    <2>2. c = L + 1 \/ c = commit_index[Lead]
      BY <1>2, <1>4, <1>5, <1>7, ProposeEffect
    <2> QED
      BY <2>1, <2>2
  <1>9. LeadAdvances
    <2>1. l.snapIndex \in Nat
      BY DEF LogType
    <2> QED
      BY <1>1, <1>3, <1>5, <1>6, <1>7, <1>8, <2>1 DEF LeadAdvances
  <1>10. LogShape'
    <2>1. \A j \in Server : j # Lead => log'[j] = log[j]
      BY ProposeEffect
    <2>2. /\ l.first = l.snapIndex + 1 /\ l.snapIndex <= L
          /\ l.data = NoSnapshot => l.snapIndex = 0
          /\ \A n \in Index : l.entries[n] # NoEntry => n <= L
      BY <1>1, <1>5, LeadAssumption DEF CommitInv, LogShape
    <2>3. l.snapIndex \in Nat
      BY DEF LogType
    <2>4. k.snapIndex <= k.last
      BY <1>6, <2>2, <2>3
    <2>5. \A n \in Index : k.entries[n] # NoEntry => n <= k.last
      <3>1. \A n \in Index : n <= L => n <= L + 1
        BY DEF Index
      <3> QED
        BY <1>6, <2>2, <3>1
    <2>6. \A j \in Server : log'[j].first = log'[j].snapIndex + 1
      BY <1>3, <1>6, <2>1, <2>2 DEF CommitInv, LogShape
    <2>7. \A j \in Server : \A n \in Index : log'[j].entries[n] # NoEntry => n <= log'[j].last
      BY <1>3, <2>1, <2>5 DEF CommitInv, LogShape
    <2>8. k.data = NoSnapshot => k.snapIndex = 0
      BY <1>6, <2>2
    <2> QED
      BY <1>3, <2>4, <2>6, <2>7, <2>8 DEF LogShape
  <1>11. /\ \A m \in appendReq' : m \in appendReq \/
              /\ m.prev <= k.last /\ m.lastIndex <= k.last /\ m.commit <= c
              /\ \A n \in Carried(m.entries) : n > m.prev
         /\ \A m \in snapReq' : m \in snapReq \/ m.index <= k.snapIndex
         /\ UNCHANGED <<appendResp, snapResp>>
    <2>1. CASE SendHeartbeats(Lead, log'[Lead], commit_index'[Lead], next_index[Lead])
      <3>1. PICK nxt \in [Server -> Nat] : nxt = next_index[Lead]
        BY LeadAssumption DEF ReignInv, TypeInv, LeaderTypes
      <3>2. PICK K \in Nat : K = L + 1
        OBVIOUS
      <3>3. \A j \in Server : nxt[j] <= L + 1
        BY <1>1, <1>5, <3>1 DEF CommitInv, WithinLog
      <3>4. \A j \in Server : nxt[j] <= K + 1
        BY <3>2, <3>3
      <3>5. SendHeartbeats(Lead, k, c, nxt) /\ K = k.last
        BY <1>3, <1>6, <1>7, <2>1, <3>1, <3>2
      <3>6. k.snapIndex \in Nat
        BY DEF LogType
      <3> QED
        BY <3>4, <3>5, <3>6, SendsWithin
    <2>2. CASE UNCHANGED <<appendReq, appendResp, snapReq, snapResp>>
      BY <2>2
    <2> QED
      BY <2>1, <2>2, ProposeEffect
  <1>12. UNCHANGED <<next_index, match_index>>
         /\ \A j \in Server : commit_index'[j] = commit_index[j]
                              \/ commit_index'[j] <= commit_index'[Lead]
    <2>1. \A j \in Server : j # Lead => commit_index'[j] = commit_index[j]
      BY ProposeEffect
    <2> QED
      BY <1>7, <2>1, ProposeEffect
  <1>13. c <= k.last
    BY <1>6, <1>8
  <1>14. CommitInv'
    BY <1>3, <1>7, <1>9, <1>10, <1>11, <1>12, <1>13, BoundsStay DEF ReignInv
  <1> QED
    BY <1>9, <1>14

LEMMA TickBounds ==
  ASSUME ReignInv, CommitInv, TypeInv', NEW i \in Server, TickApply(i)
  PROVE  CommitInv' /\ LeadAdvances
  <1>1. UNCHANGED <<commit_index, next_index, match_index, appendReq, appendResp, snapReq,
                    snapResp>>
    BY TickEffect DEF ReignInv
  <1>2. ASSUME NEW j \in Server
        PROVE  /\ log'[j].entries = log[j].entries /\ log'[j].last = log[j].last
               /\ log'[j].first = log'[j].snapIndex + 1
               /\ log'[j].snapIndex >= log[j].snapIndex
               /\ \/ log'[j].snapIndex = log[j].snapIndex /\ log'[j].data = log[j].data
                  \/ log'[j].snapIndex <= log[j].last /\ log'[j].data = applied[j]
    <2>1. PICK l \in LogType : l = log[j]
      BY ReignTypes DEF ReignInv
    <2>2. PICK k : k = log'[j]
      OBVIOUS
    <2>3. k = l \/ k = LogAfterTick(l, applied[j])
      BY <2>1, <2>2, TickEffect DEF ReignInv
    <2>4. l.first = l.snapIndex + 1 /\ l.snapIndex \in Nat
      BY <2>1, IndexTypes DEF CommitInv, LogShape, ReignInv
    <2>5. k.snapIndex \in Nat
      BY <2>2, NextIndexTypes
    <2>6. /\ k.entries = l.entries /\ k.last = l.last
          /\ \/ k = l
             \/ /\ k.first = k.snapIndex + 1 /\ k.data = applied[j]
                /\ k.snapIndex > l.snapIndex /\ k.snapIndex <= l.last
      BY <2>3, TickKeeps
    <2> QED
      BY <2>1, <2>2, <2>4, <2>5, <2>6
  <1>3. LeadAdvances
    BY <1>1, <1>2, IndexTypes, LeadAssumption DEF LeadAdvances, ReignInv
  <1>4. LogShape'
    <2>1. applied[Lead] # NoSnapshot
      BY ReignTypes, LeadAssumption, NoSnapshotAssumption DEF ReignInv
    <2>2. log'[Lead].data = NoSnapshot => log'[Lead].snapIndex = 0
      BY <1>2, <2>1, LeadAssumption DEF CommitInv, LogShape
    <2>3. log'[Lead].snapIndex <= log'[Lead].last
      BY <1>2, LeadAssumption DEF CommitInv, LogShape
    <2>4. \A j \in Server : \A n \in Index : log'[j].entries[n] # NoEntry => n <= log'[j].last
      BY <1>2 DEF CommitInv, LogShape
    <2> QED
      BY <1>2, <2>2, <2>3, <2>4 DEF LogShape
  <1>5. commit_index'[Lead] <= log'[Lead].last
    BY <1>1, <1>2, LeadAssumption DEF CommitInv, CommitBehindLeader
  <1>6. CommitInv'
    BY <1>1, <1>3, <1>4, <1>5, BoundsStay DEF ReignInv
  <1> QED
    BY <1>3, <1>6

LEMMA InstallBounds ==
  ASSUME ReignInv, CommitInv, TypeInv', NEW i \in Server, NEW m \in snapReq,
         HandleInstallSnapshot(i, m)
  PROVE  CommitInv' /\ LeadAdvances
  <1>1. m.to = i /\ i # Lead
    BY InstallEffect DEF ReignInv, Throne
  <1>2. log'[Lead] = log[Lead] /\ commit_index'[Lead] = commit_index[Lead]
    BY <1>1, InstallEffect, LeadAssumption DEF ReignInv
  <1>3. UNCHANGED <<next_index, match_index, appendReq, appendResp, snapReq>>
    BY InstallEffect DEF ReignInv
  <1>4. LeadAdvances
    BY <1>2, IndexTypes, LeadAssumption DEF LeadAdvances, ReignInv
  <1>5. m.index \in Nat /\ m.index <= log[Lead].snapIndex
    BY ReignTypes DEF ReignInv, CommitInv, WithinLog
  <1>6. ASSUME NEW j \in Server
        PROVE  /\ log'[j].entries = log[j].entries /\ log'[j].last = log[j].last
               /\ log'[j].first = log'[j].snapIndex + 1
    <2>1. PICK l \in LogType : l = log[j]
      BY ReignTypes DEF ReignInv
    <2>2. log'[j] = l \/ log'[j] = TruncateBefore(SaveSnapshot(l, m.index, m.snapTerm, m.data),
                                                  m.index + 1)
      BY <2>1, InstallEffect DEF ReignInv
    <2>3. l.first = l.snapIndex + 1
      BY <2>1 DEF CommitInv, LogShape
    <2> QED
      BY <1>5, <2>1, <2>2, <2>3, SnapshotKeeps
  <1>7. LogShape'
    BY <1>2, <1>6 DEF CommitInv, LogShape
  <1>8. \A r \in snapResp' : r \in snapResp \/ r.index <= log'[Lead].snapIndex
    BY <1>2, <1>5, InstallEffect DEF ReignInv
  <1>9. \A j \in Server : commit_index'[j] = commit_index[j]
                          \/ commit_index'[j] <= log'[Lead].snapIndex
    BY <1>2, <1>5, InstallEffect DEF ReignInv
  <1>10. commit_index'[Lead] <= log'[Lead].last
    BY <1>2 DEF CommitInv, CommitBehindLeader
  <1>11. CommitInv'
    BY <1>2, <1>3, <1>4, <1>7, <1>8, <1>9, <1>10, BoundsStay DEF ReignInv
  <1> QED
    BY <1>4, <1>11

LEMMA BoundsStep == ReignInv /\ CommitInv /\ ReplicationNext => CommitInv' /\ LeadAdvances
  <1> SUFFICES ASSUME ReignInv, CommitInv, ReplicationNext PROVE CommitInv' /\ LeadAdvances
    OBVIOUS
  <1>1. TypeInv'
    BY ReplicationTypes DEF ReignInv
  <1>2. ASSUME NEW i \in Server, NEW p \in Proposer,
               (\E d \in Data : ProposeRead(i, p, d)) \/ ProposeAck(i, p) \/ ProposeTimeout(i, p)
        PROVE  CommitInv' /\ LeadAdvances
    <2>1. UNCHANGED <<log, commit_index, next_index, match_index, appendReq, appendResp,
                      snapReq, snapResp>>
      BY <1>2 DEF ProposeRead, ProposeAck, ProposeTimeout, commitVars, leaderVars, appendNet
    <2> QED
      BY <1>1, <2>1, QuietBounds DEF ReignInv
  <1> QED
    BY <1>1, <1>2, HeartbeatBounds, RefuseBounds, AppendEntriesBounds, AppendResponseBounds,
       ProposeBounds, TickBounds, InstallBounds, SnapshotResponseBounds
    DEF ReplicationNext

LEMMA BoundsStutter == ReignInv /\ CommitInv /\ UNCHANGED vars => CommitInv'
  <1> SUFFICES ASSUME ReignInv, CommitInv, UNCHANGED vars PROVE CommitInv'
    OBVIOUS
  <1>1. TypeInv'
    BY StutterTypes DEF ReignInv
  <1>2. UNCHANGED <<log, commit_index, next_index, match_index, appendReq, appendResp,
                    snapReq, snapResp>>
    BY DEF vars, commitVars, leaderVars, appendNet
  <1> QED
    BY <1>1, <1>2, QuietBounds DEF ReignInv

LEMMA BoundsStart == ReignInit => CommitInv
  <1> SUFFICES ASSUME ReignInit PROVE CommitInv
    OBVIOUS
  <1>1. \A i \in Server : /\ log[i].first = 1 /\ log[i].last = 0 /\ log[i].snapIndex = 0
                          /\ commit_index[i] = 0
                          /\ \A n \in Index : log[i].entries[n] = NoEntry
    BY DEF ReignInit, EmptyLog, EmptySlice
  <1>2. LogShape
    BY <1>1, LeadAssumption DEF LogShape
  <1>3. CommitBehindLeader
    BY <1>1, LeadAssumption DEF CommitBehindLeader
  <1>4. appendResp = {} /\ snapReq = {} /\ snapResp = {}
    BY DEF ReignInit
  <1>5. \A j \in Server : match_index[Lead][j] = 0 /\ next_index[Lead][j] = 1
    BY LeadAssumption DEF ReignInit
  <1>6. ASSUME NEW m \in appendReq
        PROVE  /\ m.prev = 0 /\ m.lastIndex = 0 /\ m.commit = 0
               /\ \A n \in Carried(m.entries) : n > m.prev
    <2>1. PICK nxt : nxt = next_index[Lead]
      OBVIOUS
    <2>2. m \in AppendRequests(Lead, EmptyLog, 0, nxt)
      BY <1>6, <2>1 DEF ReignInit
    <2>3. m.to \in Server /\ m.prev = Prev(nxt, m.to) /\ m.commit = 0 /\ m.lastIndex = EmptyLog.last
      BY <2>2, AppendRequestFields DEF Peers
    <2>4. nxt[m.to] = 1
      BY <1>5, <2>1, <2>3
    <2>5. m.prev = 0
      BY <2>3, <2>4 DEF Prev
    <2>6. m.lastIndex = 0
      BY <2>3 DEF EmptyLog
    <2> QED
      BY <2>3, <2>5, <2>6 DEF Carried, Index
  <1>7. WithinLog
    BY <1>1, <1>4, <1>5, <1>6, LeadAssumption DEF WithinLog
  <1> QED
    BY <1>2, <1>3, <1>7 DEF CommitInv

LEMMA BoundsInvariant == OneProposer /\ ReignSpec => []CommitInv
  <1>1. ReignInit => CommitInv
    BY BoundsStart
  <1>2. ReignInv /\ CommitInv /\ [ReplicationNext]_vars => CommitInv'
    BY BoundsStep, BoundsStutter
  <1> QED
    BY <1>1, <1>2, ReignInvariant, PTL DEF ReignSpec

\* The leader commits only what it has, and no follower takes anything for
\* committed that the leader has not committed or put under its snapshot,
\* whatever late responses do to match_index and next_index: for any cluster,
\* log, batch size, snapshot threshold and delay of messages, as long as
\* proposals do not overlap.
THEOREM CommitsFollow == OneProposer /\ ReignSpec => []CommitBehindLeader
  <1>1. CommitInv => CommitBehindLeader
    BY DEF CommitInv
  <1> QED
    BY <1>1, BoundsInvariant, PTL

-----------------------------------------------------------------------------
(***************************************************************************)
(* Holes.                                                                  *)
(***************************************************************************)

\* An AppendEntries request carries the entries that follow prev, without a gap.
Contiguous ==
  \A m \in appendReq : \A n \in Carried(m.entries) :
    \A k \in (m.prev + 1)..n : m.entries[k] # NoEntry

HolesInv == Contiguous /\ NoHoles

\* Every index from first_index to last_index is stored.
Full(l) == \A n \in l.first..l.last : l.entries[n] # NoEntry

LEMMA FullReads ==
  ASSUME NEW l \in LogType, l.first = l.snapIndex + 1
  PROVE  Full(l) <=> \A n \in l.first..l.last : Get(l, n) # NoEntry
  <1>1. l.first \in Nat /\ l.first >= 1 /\ l.last \in Nat /\ l.last <= MaxLog
    BY DEF LogType
  <1>2. \A n \in l.first..l.last : n \in Index /\ n >= l.first
    BY <1>1, MaxLogAssumption DEF Index
  <1>3. \A n \in l.first..l.last : Get(l, n) = l.entries[n]
    BY <1>2 DEF Get
  <1> QED
    BY <1>3 DEF Full

\* handle_append_entries closes the gap to what it accepts, whether it matched
\* an entry, the snapshot or the beginning of the log.
LEMMA AppendFull ==
  ASSUME NEW l \in LogType, NEW m \in AppendRequest, l.first = l.snapIndex + 1, Full(l),
         \A n \in Index : l.entries[n] # NoEntry => n <= l.last,
         \A n \in Carried(m.entries) : n > m.prev,
         \A n \in Carried(m.entries) : \A k \in (m.prev + 1)..n : m.entries[k] # NoEntry,
         HasEntry(l, m.prev, m.prevTerm)
  PROVE  Full(LogAfterAppend(l, m))
  <1>1. m.entries \in Slice /\ m.prev \in Nat /\ m.prevTerm \in Nat
    BY DEF AppendRequest
  <1>2. l.first \in Nat /\ l.first >= 1 /\ l.last \in Nat
    BY DEF LogType
  <1>3. PICK k : k = LogAfterAppend(l, m)
    OBVIOUS
  <1>4. CASE Carried(m.entries) = {}
    <2>1. k = l
      BY <1>1, <1>3, <1>4, AppendKeeps
    <2> QED
      BY <1>3, <2>1
  <1>5. CASE Carried(m.entries) # {}
    <2>1. PICK f \in Index : f = FirstOf(m.entries) /\ f \in Carried(m.entries)
                             /\ \A n \in Carried(m.entries) : f <= n
      BY <1>1, <1>5, CarriedEnds, CarriedEntry
    <2>2. PICK e \in Index : e = LastOf(m.entries) /\ e \in Carried(m.entries)
      BY <1>1, <1>5, CarriedEnds, CarriedEntry
    <2>3. /\ k.first = l.first /\ k.last = e
          /\ \A n \in Index : k.entries[n] = IF m.entries[n] # NoEntry THEN m.entries[n]
                                             ELSE IF n >= f /\ n <= l.last THEN NoEntry
                                             ELSE l.entries[n]
      BY <1>1, <1>3, <1>5, <2>1, <2>2, AppendKeeps
    <2>4. \A n \in (m.prev + 1)..e : m.entries[n] # NoEntry
      BY <2>2
    <2>5. f > m.prev
      BY <2>1
    <2>6. ASSUME NEW n \in l.first..e PROVE k.entries[n] # NoEntry
      <3>1. n \in Index /\ n \in Nat /\ n <= e
        BY <1>2, MaxLogAssumption DEF Index
      <3>2. CASE n > m.prev
        <4>1. n \in (m.prev + 1)..e
          BY <1>1, <3>1, <3>2 DEF Index
        <4>2. m.entries[n] # NoEntry
          BY <2>4, <4>1
        <4> QED
          BY <2>3, <3>1, <4>2
      <3>3. CASE n <= m.prev
        <4>1. m.prev >= l.first /\ m.prev # 0
          BY <1>1, <1>2, <3>1, <3>3
        <4>2. Get(l, m.prev) # NoEntry
          BY <1>1, <1>2, <4>1 DEF HasEntry, TermAt, NoTerm
        <4>3. m.prev \in Index /\ l.entries[m.prev] # NoEntry
          BY <4>2 DEF Get
        <4>4. m.prev <= l.last
          BY <4>3
        <4>5. n \in l.first..l.last
          BY <1>1, <1>2, <3>1, <3>3, <4>4
        <4>6. l.entries[n] # NoEntry
          BY <4>5 DEF Full
        <4>7. ~ (n >= f)
          BY <1>1, <2>5, <3>1, <3>3 DEF Index
        <4> QED
          BY <2>3, <3>1, <4>6, <4>7
      <3> QED
        BY <1>1, <3>1, <3>2, <3>3
    <2> QED
      BY <1>3, <2>3, <2>6 DEF Full
  <1> QED
    BY <1>4, <1>5

\* What a step can do to a log: nothing to the stored entries, an accepted
\* AppendEntries, or a proposal at the leader.
LEMMA LogChanges ==
  ASSUME ReignInv, ReplicationNext, NEW j \in Server, j # Lead
  PROVE  \/ log'[j].entries = log[j].entries /\ log'[j].last = log[j].last
         \/ \E m \in appendReq : /\ HasEntry(log[j], m.prev, m.prevTerm)
                                 /\ log'[j] = LogAfterAppend(log[j], m)
  <1>1. PICK i \in Server :
          \/ TickHeartbeat(i)
          \/ \E m \in appendReq : RefuseAppendEntries(i, m)
          \/ \E m \in appendReq : HandleAppendEntries(i, m)
          \/ \E m \in appendResp : HandleAppendResponse(i, m)
          \/ \E p \in Proposer : \E d \in Data : ProposeRead(i, p, d)
          \/ \E p \in Proposer : ProposeAppend(i, p)
          \/ \E p \in Proposer : ProposeAck(i, p)
          \/ \E p \in Proposer : ProposeTimeout(i, p)
          \/ TickApply(i)
          \/ \E m \in snapReq : HandleInstallSnapshot(i, m)
          \/ \E m \in snapResp : HandleSnapshotResponse(i, m)
    BY DEF ReplicationNext
  <1>2. log[j] \in LogType
    BY ReignTypes DEF ReignInv
  <1>3. CASE log' = log
    BY <1>3
  <1>4. ASSUME NEW m \in appendReq, HandleAppendEntries(i, m)
        PROVE  \/ log'[j] = log[j]
               \/ /\ HasEntry(log[j], m.prev, m.prevTerm)
                  /\ log'[j] = LogAfterAppend(log[j], m)
    BY <1>4, AppendEffect DEF ReignInv
  <1>5. ASSUME NEW p \in Proposer, ProposeAppend(i, p) PROVE log'[j] = log[j]
    BY <1>5, ProposeEffect
  <1>6. CASE TickApply(i)
    <2>1. log'[j] = log[j] \/ log'[j] = LogAfterTick(log[j], applied[j])
      BY <1>6, TickEffect DEF ReignInv
    <2> QED
      BY <1>2, <2>1, TickKeeps
  <1>7. ASSUME NEW m \in snapReq, HandleInstallSnapshot(i, m)
        PROVE  log'[j].entries = log[j].entries /\ log'[j].last = log[j].last
    <2>1. log'[j] = log[j] \/ log'[j] = TruncateBefore(
                                SaveSnapshot(log[j], m.index, m.snapTerm, m.data), m.index + 1)
      BY <1>7, InstallEffect DEF ReignInv
    <2>2. m.index \in Nat
      BY ReignTypes DEF ReignInv
    <2> QED
      BY <1>2, <2>1, <2>2, SnapshotKeeps
  <1>8. CASE \/ TickHeartbeat(i)
             \/ \E m \in appendReq : RefuseAppendEntries(i, m)
             \/ \E m \in appendResp : HandleAppendResponse(i, m)
             \/ \E p \in Proposer : \E d \in Data : ProposeRead(i, p, d)
             \/ \E p \in Proposer : ProposeAck(i, p) \/ ProposeTimeout(i, p)
             \/ \E m \in snapResp : HandleSnapshotResponse(i, m)
    BY <1>3, <1>8 DEF TickHeartbeat, RefuseAppendEntries, HandleAppendResponse, ProposeRead,
       ProposeAck, ProposeTimeout, HandleSnapshotResponse
  <1> QED
    BY <1>1, <1>4, <1>5, <1>6, <1>7, <1>8

\* The leader's own log has no holes.
LEMMA LeadFull ==
  ASSUME ReignInv, CommitInv
  PROVE  Full(log[Lead])
  <1>1. PICK l \in LogType : l = log[Lead]
    BY ReignTypes, LeadAssumption DEF ReignInv
  <1>2. l.first = l.snapIndex + 1
    BY <1>1, LeadAssumption DEF CommitInv, LogShape
  <1>3. l.first \in Nat /\ l.first >= 1 /\ l.last \in Nat /\ l.last <= MaxLog
    BY <1>2 DEF LogType
  <1>4. \A n \in l.first..l.last : n \in Index /\ n <= l.last
    BY <1>3, MaxLogAssumption DEF Index
  <1>5. \A n \in l.first..l.last : l.entries[n] # NoEntry
    BY <1>1, <1>4 DEF ReignInv, LeadLog
  <1> QED
    BY <1>1, <1>5 DEF Full

\* The histories say of every node whether its first or commit index went back.
LEMMA Histories ==
  ASSUME TypeInv, ReplicationNext, NEW j \in Server
  PROVE  /\ j \in firstBack' <=> (j \in firstBack \/ log'[j].first < log[j].first)
         /\ j \in commitBack' <=> (j \in commitBack \/ commit_index'[j] < commit_index[j])
  <1> DEFINE Noted == /\ j \in firstBack' <=> (j \in firstBack \/ log'[j].first < log[j].first)
                      /\ j \in commitBack' <=>
                           (j \in commitBack \/ commit_index'[j] < commit_index[j])
  <1>1. log[j].first \in Nat /\ commit_index[j] \in Nat
    BY IndexTypes
  <1>2. ~(log[j].first < log[j].first) /\ ~(commit_index[j] < commit_index[j])
    BY <1>1
  <1>3. ASSUME NEW i \in Server, NoteBack(i),
               i # j => log'[j] = log[j] /\ commit_index'[j] = commit_index[j]
        PROVE  Noted
    <2>1. CASE i = j
      BY <1>3, <2>1 DEF NoteBack
    <2>2. CASE i # j
      <3>1. (j \in firstBack' <=> j \in firstBack) /\ (j \in commitBack' <=> j \in commitBack)
        BY <1>3, <2>2 DEF NoteBack
      <3> QED
        BY <1>2, <1>3, <2>2, <3>1
    <2> QED
      BY <2>1, <2>2
  <1>4. ASSUME NEW i \in Server, NEW m \in appendReq, HandleAppendEntries(i, m) PROVE Noted
    <2>1. NoteBack(i)
      BY <1>4 DEF HandleAppendEntries
    <2> QED
      BY <1>3, <1>4, <2>1, AppendEffect
  <1>5. ASSUME NEW i \in Server, NEW p \in Proposer, ProposeAppend(i, p) PROVE Noted
    <2>1. NoteBack(i) /\ (i # j => log'[j] = log[j] /\ commit_index'[j] = commit_index[j])
      BY <1>5 DEF ProposeAppend, TypeInv, LogTypes, CommitTypes
    <2> QED
      BY <1>3, <2>1
  <1>6. ASSUME NEW i \in Server, TickApply(i) PROVE Noted
    <2>1. NoteBack(i)
      BY <1>6 DEF TickApply
    <2> QED
      BY <1>3, <1>6, <2>1, TickEffect
  <1>7. ASSUME NEW i \in Server, NEW m \in snapReq, HandleInstallSnapshot(i, m) PROVE Noted
    <2>1. NoteBack(i)
      BY <1>7 DEF HandleInstallSnapshot
    <2> QED
      BY <1>3, <1>7, <2>1, InstallEffect
  <1>8. ASSUME NEW i \in Server, NEW m \in appendResp, HandleAppendResponse(i, m) PROVE Noted
    <2>1. UNCHANGED <<log, firstBack, commitBack>>
      BY <1>8 DEF HandleAppendResponse, histVars
    <2>2. PICK c \in 0..MaxLog : commit_index' = IF c > commit_index[i]
                                                 THEN [commit_index EXCEPT ![i] = c]
                                                 ELSE commit_index
      BY <1>8 DEF HandleAppendResponse
    <2>3. ~(commit_index'[j] < commit_index[j])
      <3>1. commit_index'[j] = commit_index[j] \/ (commit_index'[j] = c /\ c > commit_index[j])
        BY <2>2 DEF TypeInv, CommitTypes
      <3>2. c \in Nat
        BY MaxLogAssumption
      <3> QED
        BY <1>1, <3>1, <3>2
    <2> QED
      BY <1>2, <2>1, <2>3
  <1>9. ASSUME NEW i \in Server,
               \/ TickHeartbeat(i)
               \/ \E m \in appendReq : RefuseAppendEntries(i, m)
               \/ \E p \in Proposer : \E d \in Data : ProposeRead(i, p, d)
               \/ \E p \in Proposer : ProposeAck(i, p)
               \/ \E p \in Proposer : ProposeTimeout(i, p)
               \/ \E m \in snapResp : HandleSnapshotResponse(i, m)
        PROVE  Noted
    <2>1. UNCHANGED <<log, commit_index, firstBack, commitBack>>
      BY <1>9 DEF TickHeartbeat, RefuseAppendEntries, ProposeRead, ProposeAck, ProposeTimeout,
         HandleSnapshotResponse, commitVars, histVars
    <2> QED
      BY <1>2, <2>1
  <1> QED
    BY <1>4, <1>5, <1>6, <1>7, <1>8, <1>9 DEF ReplicationNext

LEMMA HolesStep == 
  ASSUME ReignInv, CommitInv, HolesInv, ReplicationNext, ReignInv', CommitInv'
  PROVE  NoHoles'
  <1>1. ASSUME NEW j \in Server, j \notin firstBack'
        PROVE  Full(log'[j])
    <2>1. j \notin firstBack /\ ~ (log'[j].first < log[j].first)
      BY <1>1, Histories DEF ReignInv
    <2>2. PICK l \in LogType : l = log[j]
      BY ReignTypes DEF ReignInv
    <2>3. PICK k \in LogType : k = log'[j]
      BY DEF ReignInv, TypeInv, LogTypes
    <2>4. l.first = l.snapIndex + 1 /\ l.first \in Nat /\ k.first \in Nat
          /\ l.last \in Nat /\ k.last \in Nat
      BY <2>2 DEF CommitInv, LogShape, LogType
    <2>5. Full(l)
      BY <2>1, <2>2, <2>4, FullReads DEF HolesInv, NoHoles
    <2>6. CASE k.entries = l.entries /\ k.last = l.last
      <3>1. \A n \in k.first..k.last : n \in l.first..l.last
        BY <2>1, <2>2, <2>3, <2>4, <2>6
      <3> QED
        BY <2>3, <2>5, <2>6, <3>1 DEF Full
    <2>7. ASSUME NEW m \in appendReq, HasEntry(l, m.prev, m.prevTerm), k = LogAfterAppend(l, m)
          PROVE  Full(k)
      <3>1. m \in AppendRequest
        BY ReignTypes DEF ReignInv
      <3>2. \A n \in Index : l.entries[n] # NoEntry => n <= l.last
        BY <2>2 DEF CommitInv, LogShape
      <3>3. \A n \in Carried(m.entries) : n > m.prev
        BY DEF CommitInv, WithinLog
      <3>4. \A n \in Carried(m.entries) : \A x \in (m.prev + 1)..n : m.entries[x] # NoEntry
        BY DEF HolesInv, Contiguous
      <3> QED
        BY <2>4, <2>5, <2>7, <3>1, <3>2, <3>3, <3>4, AppendFull
    <2>8. CASE j # Lead
      BY <2>2, <2>3, <2>6, <2>7, <2>8, LogChanges
    <2>9. Full(log[Lead])'
      BY LeadFull, PTL
    <2>10. CASE j = Lead
      BY <2>9, <2>10 DEF Full
    <2> QED
      BY <2>8, <2>10
  <1>2. ASSUME NEW j \in Server, j \notin firstBack'
        PROVE  \A n \in log'[j].first..log'[j].last : Get(log'[j], n) # NoEntry
    <2>1. PICK k \in LogType : k = log'[j]
      BY DEF ReignInv, TypeInv, LogTypes
    <2>2. k.first = k.snapIndex + 1
      BY <2>1 DEF CommitInv, LogShape
    <2> QED
      BY <1>1, <1>2, <2>1, <2>2, FullReads
  <1> QED
    BY <1>2 DEF NoHoles

\* The leader sends the entries that follow prev: when the entries from
\* next_index on are not all there it sends the snapshot.
LEMMA SendsContiguous ==
  ASSUME NEW l \in LogType, NEW c, NEW nxt \in [Server -> Nat],
         \A n \in Index : l.entries[n] # NoEntry <=> n <= l.last,
         l.first = l.snapIndex + 1, l.data = NoSnapshot => l.snapIndex = 0,
         NEW m \in AppendRequests(Lead, l, c, nxt), NEW n \in Carried(m.entries),
         NEW k \in (m.prev + 1)..n
  PROVE  m.entries[k] # NoEntry
  <1>1. /\ m.to \in Server /\ m.prev = Prev(nxt, m.to) /\ ~NeedsSnapshot(l, nxt, m.to)
        /\ m.entries = GetRange(l, nxt[m.to], nxt[m.to] + MaxEntries)
    BY AppendRequestFields DEF Peers
  <1>2. PICK x \in Nat : x = nxt[m.to]
    BY <1>1
  <1>3. PICK y \in Nat : y = x + MaxEntries
    BY ConfigAssumption
  <1>4. m.entries = GetRange(l, x, y)
    BY <1>1, <1>2, <1>3
  <1>5. m.prev = IF x > 0 THEN x - 1 ELSE 0
    BY <1>1, <1>2 DEF Prev
  <1>6. n \in Index /\ n >= x /\ n < y /\ n <= l.last /\ n >= l.first
    BY <1>4, RangeReads DEF Carried
  <1>7. l.first \in Nat /\ l.last \in Nat /\ l.snapIndex \in Nat
    BY DEF LogType
  <1>8. x >= l.first \/ l.first = 1
    <2>1. x >= l.first \/ l.data = NoSnapshot
      BY <1>1, <1>2, <1>7 DEF NeedsSnapshot
    <2> QED
      BY <1>7, <2>1
  <1>9. k \in Index /\ k >= x /\ k < y /\ k <= l.last /\ k >= l.first
    <2>1. k \in Int /\ k >= m.prev + 1 /\ k <= n /\ n \in 1..MaxLog
      BY <1>2, <1>5, <1>6 DEF Index
    <2>2. k >= 1 /\ k >= x
      BY <1>5, <2>1
    <2> QED
      BY <1>3, <1>6, <1>7, <1>8, <2>1, <2>2, MaxLogAssumption DEF Index
  <1>10. l.entries[k] # NoEntry
    BY <1>9
  <1> QED
    BY <1>4, <1>9, <1>10 DEF GetRange, Get

LEMMA ContiguousStep ==
  ASSUME ReignInv, CommitInv, HolesInv, ReplicationNext, ReignInv', CommitInv'
  PROVE  Contiguous'
  <1>1. ASSUME NEW l \in LogType, l = log'[Lead], NEW c,
               SendHeartbeats(Lead, l, c, next_index[Lead])
        PROVE  Contiguous'
    <2>1. PICK nxt \in [Server -> Nat] : nxt = next_index[Lead]
      BY LeadAssumption DEF ReignInv, TypeInv, LeaderTypes
    <2>2. \A n \in Index : l.entries[n] # NoEntry <=> n <= l.last
      BY <1>1 DEF ReignInv, LeadLog
    <2>3. l.first = l.snapIndex + 1 /\ (l.data = NoSnapshot => l.snapIndex = 0)
      BY <1>1, LeadAssumption DEF CommitInv, LogShape
    <2>4. \A m \in AppendRequests(Lead, l, c, nxt) : \A n \in Carried(m.entries) :
            \A k \in (m.prev + 1)..n : m.entries[k] # NoEntry
      BY <2>2, <2>3, SendsContiguous
    <2>5. appendReq' = appendReq \cup AppendRequests(Lead, l, c, nxt)
      BY <1>1, <2>1 DEF SendHeartbeats
    <2> QED
      BY <2>4, <2>5 DEF HolesInv, Contiguous
  <1>2. CASE appendReq' = appendReq
    BY <1>2 DEF HolesInv, Contiguous
  <1>3. ASSUME NEW i \in Server, TickHeartbeat(i) PROVE Contiguous'
    <2>1. i = Lead
      BY <1>3 DEF TickHeartbeat, ReignInv, Throne
    <2>2. /\ SendHeartbeats(Lead, log[Lead], commit_index[Lead], next_index[Lead])
          /\ log' = log
      BY <1>3, <2>1 DEF TickHeartbeat
    <2>3. log[Lead] \in LogType
      BY ReignTypes, LeadAssumption DEF ReignInv
    <2> QED
      BY <1>1, <2>2, <2>3
  <1>4. ASSUME NEW i \in Server, NEW p \in Proposer, ProposeAppend(i, p) PROVE Contiguous'
    <2>1. \/ SendHeartbeats(Lead, log'[Lead], commit_index'[Lead], next_index[Lead])
          \/ appendReq' = appendReq
      BY <1>4, ProposeEffect
    <2>2. log'[Lead] \in LogType
      BY LeadAssumption DEF ReignInv, TypeInv, LogTypes
    <2> QED
      BY <1>1, <1>2, <2>1, <2>2
  <1>5. ASSUME NEW i \in Server,
               \/ \E m \in appendReq : RefuseAppendEntries(i, m)
               \/ \E m \in appendReq : HandleAppendEntries(i, m)
               \/ \E m \in appendResp : HandleAppendResponse(i, m)
               \/ \E p \in Proposer : \E d \in Data : ProposeRead(i, p, d)
               \/ \E p \in Proposer : ProposeAck(i, p)
               \/ \E p \in Proposer : ProposeTimeout(i, p)
               \/ TickApply(i)
               \/ \E m \in snapReq : HandleInstallSnapshot(i, m)
               \/ \E m \in snapResp : HandleSnapshotResponse(i, m)
        PROVE  Contiguous'
    <2>1. appendReq' = appendReq
      BY <1>5 DEF RefuseAppendEntries, HandleAppendEntries, HandleAppendResponse, ProposeRead,
         ProposeAck, ProposeTimeout, TickApply, HandleInstallSnapshot,
         HandleSnapshotResponse, appendNet
    <2> QED
      BY <1>2, <2>1
  <1> QED
    BY <1>3, <1>4, <1>5 DEF ReplicationNext

LEMMA HolesStart == ReignInit => HolesInv
  <1> SUFFICES ASSUME ReignInit PROVE HolesInv
    OBVIOUS
  <1>1. \A m \in appendReq : Carried(m.entries) = {}
    <2>1. appendReq = AppendRequests(Lead, EmptyLog, 0, next_index[Lead])
      BY DEF ReignInit
    <2>2. \A m \in appendReq : \A n \in Index : m.entries[n] = NoEntry
      BY <2>1, AppendRequestFields, EmptyRange
    <2> QED
      BY <2>2 DEF Carried
  <1>2. \A i \in Server : log[i].first = 1 /\ log[i].last = 0
    BY DEF ReignInit, EmptyLog
  <1> QED
    BY <1>1, <1>2 DEF HolesInv, Contiguous, NoHoles

LEMMA HolesStutter == HolesInv /\ UNCHANGED vars => HolesInv'
  BY DEF HolesInv, Contiguous, NoHoles, vars, appendNet, histVars

LEMMA HolesInvariant == OneProposer /\ ReignSpec => []HolesInv
  <1>1. ReignInit => HolesInv
    BY HolesStart
  <1>2. /\ ReignInv /\ CommitInv /\ HolesInv /\ [ReplicationNext]_vars
        /\ ReignInv' /\ CommitInv'
        => HolesInv'
    BY HolesStep, ContiguousStep, HolesStutter DEF HolesInv
  <1> QED
    BY <1>1, <1>2, ReignInvariant, BoundsInvariant, PTL DEF ReignSpec

\* A node whose first_index has not gone back can read every entry between
\* first_index and last_index, however AppendEntries requests, snapshots and
\* their answers are delayed and reordered: for any cluster, log, batch size
\* and snapshot threshold, as long as proposals do not overlap.
THEOREM LogsWhole == OneProposer /\ ReignSpec => []NoHoles
  <1>1. HolesInv => NoHoles
    BY DEF HolesInv
  <1> QED
    BY <1>1, HolesInvariant, PTL

-----------------------------------------------------------------------------
(***************************************************************************)
(* The apply loop.                                                         *)
(***************************************************************************)

\* The nodes whose first_index and commit_index have only advanced.
Steady == Server \ (firstBack \cup commitBack)

Rising(s) == \A k \in DOMAIN s : \A k2 \in 1..(k - 1) : s[k2].index < s[k].index
Committed(s) == \A k \in DOMAIN s : s[k].index <= commit_index[Lead]

\* The index the apply loop of node i comes to next.
Position(i) == IF applying[i].busy THEN applying[i].at ELSE last_applied[i] + 1

\* What node i takes for committed is committed or under its snapshot, the loop
\* stays within it, and what has been applied lies behind the loop or under the
\* snapshot.
Applies(i) ==
  /\ last_applied[i] <= commit_index[i]
  /\ commit_index[i] <= commit_index[Lead] \/ commit_index[i] < log[i].first
  /\ applying[i].busy =>
       /\ applying[i].at <= applying[i].to + 1
       /\ applying[i].to <= commit_index[i]
       /\ applying[i].to <= commit_index[Lead] \/ applying[i].to < log[i].first
  /\ Committed(applied[i])
  /\ HonestSnapshots(i) =>
       /\ Rising(applied[i])
       /\ \A k \in DOMAIN applied[i] :
            applied[i][k].index < Position(i) \/ applied[i][k].index < log[i].first

ApplyInv ==
  /\ Lead \in Steady
  /\ \A i \in Steady : Applies(i)
  /\ log[Lead].data # NoSnapshot => Committed(log[Lead].data) /\ Rising(log[Lead].data)
  /\ \A m \in snapReq : Committed(m.data) /\ Rising(m.data)

LEMMA ApplyTypes ==
  ASSUME TypeInv
  PROVE  \A i \in Server : /\ applying[i] \in Applying /\ last_applied[i] \in Nat
                           /\ applying[i].at \in Nat /\ applying[i].to \in Nat
                           /\ applying[i].busy \in BOOLEAN
                           /\ \A k \in DOMAIN applied[i] : applied[i][k].index \in Nat
  <1>1. \A i \in Server : applying[i] \in Applying /\ last_applied[i] \in Nat
                          /\ applied[i] \in Seq(AppliedEntry)
    BY DEF TypeInv, CommitTypes
  <1>2. \A a \in Applying : a.at \in Nat /\ a.to \in Nat /\ a.busy \in BOOLEAN
    BY DEF Applying
  <1>3. ASSUME NEW s \in Seq(AppliedEntry), NEW k \in DOMAIN s PROVE s[k].index \in Nat
    <2>1. s[k] \in AppliedEntry
      OBVIOUS
    <2> QED
      BY <2>1 DEF AppliedEntry, Index
  <1> QED
    BY <1>1, <1>2, <1>3

LEMMA CommittedStays ==
  ASSUME TypeInv, TypeInv', LeadAdvances, NEW s \in Seq(AppliedEntry), Committed(s)
  PROVE  Committed(s)'
  <1>1. PICK c \in Nat : c = commit_index[Lead]
    BY IndexTypes, LeadAssumption
  <1>2. PICK d \in Nat : d = commit_index'[Lead] /\ c <= d
    BY <1>1, NextIndexTypes, LeadAssumption DEF LeadAdvances
  <1>3. ASSUME NEW k \in DOMAIN s PROVE s[k].index <= d
    <2>1. s[k] \in AppliedEntry
      OBVIOUS
    <2>2. s[k].index \in Nat
      BY <2>1 DEF AppliedEntry, Index
    <2>3. s[k].index <= c
      BY <1>1 DEF Committed
    <2> QED
      BY <1>2, <2>2, <2>3
  <1> QED
    BY <1>2, <1>3 DEF Committed

\* Requests to install a snapshot are never taken back.
LEMMA HonestBefore ==
  ASSUME snapReq \subseteq snapReq', NEW i, HonestSnapshots(i)'
  PROVE  HonestSnapshots(i)
  BY DEF HonestSnapshots

\* What a step can do to the apply state of a node.
Undisturbed(j) ==
  /\ applied'[j] = applied[j] /\ applying'[j] = applying[j]
  /\ last_applied'[j] = last_applied[j]
  /\ commit_index'[j] = commit_index[j] \/ commit_index'[j] <= commit_index'[Lead]

LEMMA ApplyChanges ==
  ASSUME ReignInv, CommitInv, TypeInv', ReplicationNext, NEW j \in Server
  PROVE  Undisturbed(j) \/ TickApply(j) \/ \E m \in snapReq : HandleInstallSnapshot(j, m)
  <1>1. ASSUME NEW i \in Server, NEW m \in appendReq, HandleAppendEntries(i, m)
        PROVE  Undisturbed(j)
    <2>1. i # Lead
      BY <1>1, AppendEffect DEF ReignInv, Throne
    <2>2. commit_index'[Lead] = commit_index[Lead]
      BY <1>1, <2>1, AppendEffect, LeadAssumption DEF ReignInv
    <2>3. m.commit \in Nat /\ m.commit <= commit_index[Lead] /\ commit_index[Lead] \in Nat
      BY ReignTypes, IndexTypes, LeadAssumption DEF CommitInv, WithinLog, ReignInv
    <2>4. log'[i].last \in Nat
      BY NextIndexTypes
    <2>5. FollowerCommit(log'[i], m) <= commit_index[Lead]
      BY <2>3, <2>4 DEF FollowerCommit
    <2>6. commit_index'[j] = commit_index[j] \/ commit_index'[j] <= commit_index'[Lead]
      BY <1>1, <2>2, <2>5, AppendEffect DEF ReignInv
    <2>7. UNCHANGED <<applied, applying, last_applied>>
      BY <1>1, AppendEffect DEF ReignInv
    <2> QED
      BY <2>6, <2>7 DEF Undisturbed
  <1>2. ASSUME NEW i \in Server, NEW m \in appendResp, HandleAppendResponse(i, m)
        PROVE  Undisturbed(j)
    <2>1. i = Lead
      BY <1>2 DEF HandleAppendResponse, ReignInv, Throne
    <2>2. j # Lead => commit_index'[j] = commit_index[j]
      BY <1>2, <2>1 DEF HandleAppendResponse, ReignInv, TypeInv, CommitTypes
    <2>3. commit_index'[Lead] \in Nat
      BY NextIndexTypes, LeadAssumption
    <2>4. UNCHANGED <<applied, applying, last_applied>>
      BY <1>2 DEF HandleAppendResponse
    <2> QED
      BY <2>2, <2>3, <2>4 DEF Undisturbed
  <1>3. ASSUME NEW i \in Server, NEW p \in Proposer, ProposeAppend(i, p)
        PROVE  Undisturbed(j)
    <2>1. commit_index'[Lead] \in Nat
      BY NextIndexTypes, LeadAssumption
    <2>2. UNCHANGED <<applied, applying, last_applied>>
          /\ (j # Lead => commit_index'[j] = commit_index[j])
      BY <1>3, ProposeEffect
    <2> QED
      BY <2>1, <2>2 DEF Undisturbed
  <1>4. ASSUME NEW i \in Server, TickApply(i), i # j
        PROVE  Undisturbed(j)
    BY <1>4, TickEffect DEF ReignInv, Undisturbed
  <1>5. ASSUME NEW i \in Server, NEW m \in snapReq, HandleInstallSnapshot(i, m), i # j
        PROVE  Undisturbed(j)
    BY <1>5, InstallEffect DEF ReignInv, Undisturbed
  <1>6. ASSUME NEW i \in Server,
               \/ TickHeartbeat(i)
               \/ \E m \in appendReq : RefuseAppendEntries(i, m)
               \/ \E p \in Proposer : \E d \in Data : ProposeRead(i, p, d)
               \/ \E p \in Proposer : ProposeAck(i, p)
               \/ \E p \in Proposer : ProposeTimeout(i, p)
               \/ \E m \in snapResp : HandleSnapshotResponse(i, m)
        PROVE  Undisturbed(j)
    <2>1. UNCHANGED <<applied, applying, last_applied, commit_index>>
      BY <1>6 DEF TickHeartbeat, RefuseAppendEntries, ProposeRead, ProposeAck, ProposeTimeout,
         HandleSnapshotResponse, commitVars
    <2> QED
      BY <2>1 DEF Undisturbed
  <1> QED
    BY <1>1, <1>2, <1>3, <1>4, <1>5, <1>6 DEF ReplicationNext

\* Where snapshot data comes from.
LEMMA SnapshotChanges ==
  ASSUME ReignInv, ReplicationNext
  PROVE  /\ snapReq \subseteq snapReq'
         /\ \A m \in snapReq' : m \in snapReq \/ (m.data = log[Lead].data /\ m.data # NoSnapshot)
         /\ log'[Lead].data \in {log[Lead].data, applied[Lead]}
  <1>1. log[Lead] \in LogType
    BY ReignTypes, LeadAssumption DEF ReignInv
  <1>2. ASSUME NEW i \in Server, TickHeartbeat(i)
        PROVE  /\ snapReq \subseteq snapReq' /\ log'[Lead].data = log[Lead].data
               /\ \A m \in snapReq' : m \in snapReq
                                      \/ (m.data = log[Lead].data /\ m.data # NoSnapshot)
    <2>1. i = Lead
      BY <1>2 DEF TickHeartbeat, ReignInv, Throne
    <2>2. /\ SendHeartbeats(Lead, log[Lead], commit_index[Lead], next_index[Lead])
          /\ log' = log
      BY <1>2, <2>1 DEF TickHeartbeat
    <2>3. snapReq \subseteq snapReq'
      BY <2>2 DEF SendHeartbeats
    <2> QED
      BY <2>2, <2>3, LeaderSends
  <1>3. ASSUME NEW i \in Server, NEW p \in Proposer, ProposeAppend(i, p)
        PROVE  /\ snapReq \subseteq snapReq' /\ log'[Lead].data = log[Lead].data
               /\ \A m \in snapReq' : m \in snapReq
                                      \/ (m.data = log[Lead].data /\ m.data # NoSnapshot)
    <2>1. log'[Lead].data = log[Lead].data
      BY <1>1, <1>3, ProposeEffect, ProposedLog
    <2>2. CASE SendHeartbeats(Lead, log'[Lead], commit_index'[Lead], next_index[Lead])
      <3>1. snapReq \subseteq snapReq'
        BY <2>2 DEF SendHeartbeats
      <3> QED
        BY <2>1, <2>2, <3>1, LeaderSends
    <2>3. CASE snapReq' = snapReq
      BY <2>1, <2>3
    <2> QED
      BY <1>3, <2>2, <2>3, ProposeEffect
  <1>4. ASSUME NEW i \in Server, TickApply(i)
        PROVE  snapReq' = snapReq /\ log'[Lead].data \in {log[Lead].data, applied[Lead]}
    <2>1. log'[Lead] = log[Lead] \/ log'[Lead] = LogAfterTick(log[Lead], applied[Lead])
      BY <1>4, TickEffect, LeadAssumption DEF ReignInv
    <2>2. snapReq' = snapReq
      BY <1>4, TickEffect DEF ReignInv
    <2> QED
      BY <1>1, <2>1, <2>2, TickKeeps
  <1>5. ASSUME NEW i \in Server, NEW m \in appendReq, HandleAppendEntries(i, m)
        PROVE  snapReq' = snapReq /\ log'[Lead] = log[Lead]
    BY <1>5, AppendEffect, LeadAssumption DEF ReignInv, Throne
  <1>6. ASSUME NEW i \in Server, NEW m \in snapReq, HandleInstallSnapshot(i, m)
        PROVE  snapReq' = snapReq /\ log'[Lead] = log[Lead]
    BY <1>6, InstallEffect, LeadAssumption DEF ReignInv, Throne
  <1>7. ASSUME NEW i \in Server,
               \/ \E m \in appendReq : RefuseAppendEntries(i, m)
               \/ \E m \in appendResp : HandleAppendResponse(i, m)
               \/ \E p \in Proposer : \E d \in Data : ProposeRead(i, p, d)
               \/ \E p \in Proposer : ProposeAck(i, p)
               \/ \E p \in Proposer : ProposeTimeout(i, p)
               \/ \E m \in snapResp : HandleSnapshotResponse(i, m)
        PROVE  snapReq' = snapReq /\ log' = log
    BY <1>7 DEF RefuseAppendEntries, HandleAppendResponse, ProposeRead, ProposeAck,
       ProposeTimeout, HandleSnapshotResponse, appendNet
  <1> QED
    BY <1>2, <1>3, <1>4, <1>5, <1>6, <1>7 DEF ReplicationNext

LEMMA NextApplyTypes ==
  ASSUME TypeInv'
  PROVE  \A i \in Server : /\ last_applied'[i] \in Nat
                           /\ applying'[i].at \in Nat /\ applying'[i].to \in Nat
                           /\ applying'[i].busy \in BOOLEAN
                           /\ \A k \in DOMAIN applied'[i] : applied'[i][k].index \in Nat
  <1>1. \A i \in Server : applying'[i] \in Applying /\ last_applied'[i] \in Nat
                          /\ applied'[i] \in Seq(AppliedEntry)
    BY DEF TypeInv, CommitTypes
  <1>2. \A a \in Applying : a.at \in Nat /\ a.to \in Nat /\ a.busy \in BOOLEAN
    BY DEF Applying
  <1>3. ASSUME NEW s \in Seq(AppliedEntry), NEW k \in DOMAIN s PROVE s[k].index \in Nat
    <2>1. s[k] \in AppliedEntry
      OBVIOUS
    <2> QED
      BY <2>1 DEF AppliedEntry, Index
  <1> QED
    BY <1>1, <1>2, <1>3

LEMMA SteadyStep ==
  ASSUME TypeInv, TypeInv', ReplicationNext, NEW i \in Steady'
  PROVE  /\ i \in Server /\ i \in Steady
         /\ log'[i].first >= log[i].first /\ commit_index'[i] >= commit_index[i]
  <1>1. i \in Server /\ i \notin firstBack' /\ i \notin commitBack'
    BY DEF Steady
  <1>2. i \in Steady /\ ~(log'[i].first < log[i].first) /\ ~(commit_index'[i] < commit_index[i])
    BY <1>1, Histories DEF Steady
  <1> QED
    BY <1>1, <1>2, IndexTypes, NextIndexTypes

LEMMA LeadSteady ==
  ASSUME TypeInv, TypeInv', LogShape, LogShape', LeadAdvances, ReplicationNext, Lead \in Steady
  PROVE  Lead \in Steady'
  <1>1. log[Lead].first = log[Lead].snapIndex + 1 /\ log'[Lead].first = log'[Lead].snapIndex + 1
    BY LeadAssumption DEF LogShape
  <1>2. ~(log'[Lead].first < log[Lead].first) /\ ~(commit_index'[Lead] < commit_index[Lead])
    BY <1>1, IndexTypes, NextIndexTypes, LeadAssumption DEF LeadAdvances
  <1> QED
    BY <1>2, Histories, LeadAssumption DEF Steady

LEMMA UndisturbedApplies ==
  ASSUME TypeInv, TypeInv', LeadAdvances, NEW i \in Server, Applies(i), Undisturbed(i),
         snapReq \subseteq snapReq',
         log'[i].first >= log[i].first, commit_index'[i] >= commit_index[i]
  PROVE  Applies(i)'
  <1>1. applied'[i] = applied[i] /\ applying'[i] = applying[i]
        /\ last_applied'[i] = last_applied[i]
    BY DEF Undisturbed
  <1>2. Position(i)' = Position(i)
    BY <1>1 DEF Position
  <1>3. PICK a \in Nat, c \in Nat, d \in Nat, f \in Nat, g \in Nat :
          /\ a = last_applied[i] /\ c = commit_index[i] /\ d = commit_index'[i]
          /\ f = log[i].first /\ g = log'[i].first
    BY ApplyTypes, IndexTypes, NextIndexTypes
  <1>4. PICK x \in Nat, y \in Nat : x = commit_index[Lead] /\ y = commit_index'[Lead] /\ x <= y
    BY IndexTypes, NextIndexTypes, LeadAssumption DEF LeadAdvances
  <1>5. c <= d /\ f <= g
    BY <1>3
  <1>6. a <= c /\ (c <= x \/ c < f) /\ (d = c \/ d <= y)
    BY <1>3, <1>4 DEF Applies, Undisturbed
  <1>7. a <= d /\ (d <= y \/ d < g)
    BY <1>4, <1>5, <1>6
  <1>8. last_applied'[i] <= commit_index'[i]
        /\ (commit_index'[i] <= commit_index'[Lead] \/ commit_index'[i] < log'[i].first)
    BY <1>1, <1>3, <1>4, <1>7
  <1>9. ASSUME applying'[i].busy
        PROVE  /\ applying'[i].at <= applying'[i].to + 1
               /\ applying'[i].to <= commit_index'[i]
               /\ applying'[i].to <= commit_index'[Lead] \/ applying'[i].to < log'[i].first
    <2>1. PICK t \in Nat : t = applying[i].to
      BY ApplyTypes
    <2>2. applying[i].at <= applying[i].to + 1
      BY <1>1, <1>9 DEF Applies
    <2>3. t <= c /\ (t <= x \/ t < f)
      BY <1>1, <1>3, <1>4, <1>9, <2>1 DEF Applies
    <2>4. t <= d /\ (t <= y \/ t < g)
      BY <1>4, <1>5, <2>3
    <2>5. applying[i].to <= commit_index'[i]
          /\ (applying[i].to <= commit_index'[Lead] \/ applying[i].to < log'[i].first)
      BY <1>3, <1>4, <2>1, <2>4
    <2> QED
      BY <1>1, <2>2, <2>5
  <1>10. Committed(applied[i])'
    <2>1. PICK s \in Seq(AppliedEntry) : s = applied[i]
      BY ReignTypes
    <2>2. Committed(s)
      BY <2>1 DEF Applies
    <2>3. Committed(s)'
      BY <2>2, CommittedStays
    <2> QED
      BY <1>1, <2>1, <2>3 DEF Committed
  <1>11. ASSUME HonestSnapshots(i)'
         PROVE  /\ Rising(applied[i])'
                /\ \A k \in DOMAIN applied'[i] :
                     applied'[i][k].index < Position(i)' \/ applied'[i][k].index < log'[i].first
    <2>1. HonestSnapshots(i)
      BY <1>11, HonestBefore
    <2>2. /\ Rising(applied[i])
          /\ \A k \in DOMAIN applied[i] :
               applied[i][k].index < Position(i) \/ applied[i][k].index < log[i].first
      BY <2>1 DEF Applies
    <2>3. Rising(applied[i])'
      BY <1>1, <2>2 DEF Rising
    <2>4. ASSUME NEW k \in DOMAIN applied[i]
          PROVE  applied[i][k].index < Position(i) \/ applied[i][k].index < log'[i].first
      <3>1. PICK n \in Nat : n = applied[i][k].index
        BY ApplyTypes
      <3>2. n < Position(i) \/ n < f
        BY <1>3, <2>2, <3>1
      <3>3. n < f => n < g
        BY <1>5
      <3> QED
        BY <1>3, <3>1, <3>2, <3>3
    <2> QED
      BY <1>1, <1>2, <2>3, <2>4
  <1> QED
    BY <1>8, <1>9, <1>10, <1>11 DEF Applies

LEMMA LoopBounds ==
  ASSUME TypeInv, NEW i \in Server, Applies(i)
  PROVE  /\ Loop(i).at \in Nat /\ Loop(i).to \in Nat
         /\ Loop(i).at = Position(i) /\ Loop(i).at <= Loop(i).to + 1
         /\ Loop(i).to <= commit_index[i]
         /\ Loop(i).to <= commit_index[Lead] \/ Loop(i).to < log[i].first
  <1>1. CASE applying[i].busy
    <2>1. Loop(i) = applying[i] /\ Position(i) = applying[i].at
      BY <1>1 DEF Loop, Position
    <2> QED
      BY <1>1, <2>1, ApplyTypes DEF Applies
  <1>2. CASE ~applying[i].busy
    <2>1. PICK a \in Nat, c \in Nat : a = last_applied[i] /\ c = commit_index[i]
      BY ApplyTypes, IndexTypes
    <2>2. Loop(i).at = a + 1 /\ Loop(i).to = c /\ Position(i) = a + 1
      BY <1>2, <2>1 DEF Loop, Position, ApplyFrom
    <2>3. a <= c /\ (c <= commit_index[Lead] \/ c < log[i].first)
      BY <2>1 DEF Applies
    <2> QED
      BY <2>1, <2>2, <2>3
  <1> QED
    BY <1>1, <1>2

\* Appending an entry whose index lies above all the others.
LEMMA RisingAppend ==
  ASSUME NEW s \in Seq(AppliedEntry), NEW e \in AppliedEntry, Rising(s),
         \A k \in DOMAIN s : s[k].index < e.index
  PROVE  Rising(Append(s, e))
  <1>1. PICK t : t = Append(s, e)
    OBVIOUS
  <1>2. /\ DOMAIN t = 1..(Len(s) + 1) /\ DOMAIN s = 1..Len(s) /\ Len(s) \in Nat
        /\ \A k \in 1..Len(s) : t[k] = s[k]
        /\ t[Len(s) + 1] = e
    BY <1>1
  <1>3. ASSUME NEW k \in DOMAIN t, NEW k2 \in 1..(k - 1) PROVE t[k2].index < t[k].index
    <2>1. k2 \in 1..Len(s) /\ t[k2] = s[k2]
      BY <1>2
    <2>2. CASE k = Len(s) + 1
      BY <1>2, <2>1, <2>2
    <2>3. CASE k # Len(s) + 1
      <3>1. k \in DOMAIN s /\ t[k] = s[k]
        BY <1>2, <2>3
      <3>2. s[k2].index < s[k].index
        BY <3>1 DEF Rising
      <3> QED
        BY <2>1, <3>1, <3>2
    <2> QED
      BY <2>2, <2>3
  <1> QED
    BY <1>1, <1>3 DEF Rising

\* One turn of the apply loop at an index it can read: the index is committed
\* and lies above everything applied so far.
LEMMA ApplyNext ==
  ASSUME TypeInv, NEW i \in Server, Applies(i), Loop(i).at <= Loop(i).to,
         Get(log[i], Loop(i).at) # NoEntry,
         NEW e, e = [index |-> Loop(i).at, entry |-> Get(log[i], Loop(i).at)]
  PROVE  /\ Committed(Append(applied[i], e))
         /\ HonestSnapshots(i) =>
              /\ Rising(Append(applied[i], e))
              /\ \A k \in DOMAIN Append(applied[i], e) :
                   Append(applied[i], e)[k].index <= Loop(i).at
  <1>1. PICK n \in Nat, to \in Nat, f \in Nat, x \in Nat :
          /\ n = Loop(i).at /\ to = Loop(i).to /\ f = log[i].first /\ x = commit_index[Lead]
    BY LoopBounds, IndexTypes, LeadAssumption
  <1>2. n \in Index /\ n >= f
    BY <1>1 DEF Get
  <1>3. n <= to /\ (to <= x \/ to < f) /\ n = Position(i)
    BY <1>1, LoopBounds
  <1>4. n <= x
    BY <1>2, <1>3
  <1>5. PICK s \in Seq(AppliedEntry) : s = applied[i]
    BY ReignTypes
  <1>6. e.index = n /\ e \in AppliedEntry
    <2>1. PICK g : g = Get(log[i], n)
      OBVIOUS
    <2>2. g \in Entry
      <3>1. PICK es : es = log[i].entries
        OBVIOUS
      <3>2. es \in Slice
        BY <3>1, ReignTypes DEF LogType
      <3>3. g = es[n] /\ g # NoEntry
        BY <1>1, <1>2, <2>1, <3>1 DEF Get
      <3> QED
        BY <1>2, <3>2, <3>3 DEF Slice
    <2>3. e = [index |-> n, entry |-> g]
      BY <1>1, <2>1
    <2> QED
      BY <1>2, <2>2, <2>3 DEF AppliedEntry
  <1>7. PICK t : t = Append(s, e)
    OBVIOUS
  <1>8. /\ DOMAIN t = 1..(Len(s) + 1) /\ DOMAIN s = 1..Len(s) /\ Len(s) \in Nat
        /\ \A k \in 1..Len(s) : t[k] = s[k]
        /\ t[Len(s) + 1] = e
    BY <1>6, <1>7
  <1>9. \A k \in DOMAIN t : (k \in DOMAIN s /\ t[k] = s[k]) \/ t[k] = e
    BY <1>8
  <1>10. Committed(t)
    <2>1. \A k \in DOMAIN s : s[k].index <= commit_index[Lead]
      BY <1>5 DEF Applies, Committed
    <2> QED
      BY <1>1, <1>4, <1>6, <1>9, <2>1 DEF Committed
  <1>11. ASSUME HonestSnapshots(i)
         PROVE  Rising(t) /\ \A k \in DOMAIN t : t[k].index <= n
    <2>1. \A k \in DOMAIN s : s[k].index \in Nat
      BY <1>5, ApplyTypes
    <2>2. \A k \in DOMAIN s : s[k].index < Position(i) \/ s[k].index < log[i].first
      BY <1>5, <1>11 DEF Applies
    <2>3. \A k \in DOMAIN s : s[k].index < n
      BY <1>1, <1>2, <1>3, <2>1, <2>2
    <2>4. Rising(s)
      BY <1>5, <1>11 DEF Applies
    <2>5. Rising(t)
      BY <1>6, <1>7, <2>3, <2>4, RisingAppend
    <2> QED
      BY <1>6, <1>9, <2>1, <2>3, <2>5
  <1> QED
    BY <1>1, <1>5, <1>7, <1>10, <1>11

LEMMA TickApplies ==
  ASSUME TypeInv, TypeInv', NEW i \in Server, Applies(i), TickApply(i),
         log'[i].first >= log[i].first
  PROVE  Applies(i)'
  <1>1. commit_index' = commit_index /\ snapReq' = snapReq
    BY TickEffect
  <1>2. HonestSnapshots(i)' <=> HonestSnapshots(i)
    BY <1>1 DEF HonestSnapshots
  <1>3. PICK n \in Nat, to \in Nat : n = Loop(i).at /\ to = Loop(i).to
    BY LoopBounds
  <1>4. PICK c \in Nat, x \in Nat, f \in Nat, g \in Nat :
          /\ c = commit_index[i] /\ x = commit_index[Lead]
          /\ f = log[i].first /\ g = log'[i].first /\ f <= g
    BY IndexTypes, NextIndexTypes, LeadAssumption
  <1>5. n = Position(i) /\ n <= to + 1 /\ to <= c /\ (to <= x \/ to < f)
    BY <1>3, <1>4, LoopBounds
  <1>6. last_applied[i] <= c /\ (c <= x \/ c < f) /\ Committed(applied[i])
    BY <1>4 DEF Applies
  <1>7. c <= x \/ c < g
    BY <1>4, <1>6
  <1>8. CASE /\ log'[i] = log[i] /\ last_applied'[i] = last_applied[i]
             /\ n <= to
             /\ applied'[i] =
                  IF Get(log[i], Loop(i).at) = NoEntry THEN applied[i]
                  ELSE Append(applied[i],
                         [index |-> Loop(i).at, entry |-> Get(log[i], Loop(i).at)])
             /\ applying'[i].busy /\ applying'[i].at = n + 1
             /\ applying'[i].to = to
    <2>1. Position(i)' = n + 1
      BY <1>8 DEF Position
    <2>2. /\ applying'[i].at <= applying'[i].to + 1
          /\ applying'[i].to <= commit_index'[i]
          /\ applying'[i].to <= commit_index'[Lead] \/ applying'[i].to < log'[i].first
      BY <1>1, <1>4, <1>5, <1>8
    <2>3. /\ Committed(applied'[i])
          /\ HonestSnapshots(i) =>
               /\ Rising(applied'[i])
               /\ \A k \in DOMAIN applied'[i] :
                    applied'[i][k].index < n + 1 \/ applied'[i][k].index < log[i].first
      <3>1. CASE Get(log[i], Loop(i).at) = NoEntry
        <4>1. applied'[i] = applied[i]
          BY <1>8, <3>1
        <4>2. ASSUME HonestSnapshots(i), NEW k \in DOMAIN applied[i]
              PROVE  applied[i][k].index < n + 1 \/ applied[i][k].index < log[i].first
          <5>1. applied[i][k].index \in Nat
            BY ApplyTypes
          <5>2. applied[i][k].index < n \/ applied[i][k].index < log[i].first
            BY <1>5, <4>2 DEF Applies
          <5> QED
            BY <1>3, <5>1, <5>2
        <4>3. HonestSnapshots(i) => Rising(applied[i])
          BY DEF Applies
        <4> QED
          BY <1>6, <4>1, <4>2, <4>3
      <3>2. CASE Get(log[i], Loop(i).at) # NoEntry
        <4>1. PICK e : e = [index |-> Loop(i).at, entry |-> Get(log[i], Loop(i).at)]
          OBVIOUS
        <4>2. applied'[i] = Append(applied[i], e)
          BY <1>8, <3>2, <4>1
        <4>3. Loop(i).at <= Loop(i).to
          BY <1>3, <1>8
        <4>4. /\ Committed(Append(applied[i], e))
              /\ HonestSnapshots(i) =>
                   /\ Rising(Append(applied[i], e))
                   /\ \A k \in DOMAIN Append(applied[i], e) :
                        Append(applied[i], e)[k].index <= Loop(i).at
          BY <3>2, <4>1, <4>3, ApplyNext
        <4>5. ASSUME HonestSnapshots(i), NEW k \in DOMAIN applied'[i]
              PROVE  applied'[i][k].index < n + 1
          <5>1. applied'[i][k].index \in Nat
            BY NextApplyTypes
          <5>2. applied'[i][k].index <= n
            BY <1>3, <4>2, <4>4, <4>5
          <5> QED
            BY <5>1, <5>2
        <4> QED
          BY <4>2, <4>4, <4>5
      <3> QED
        BY <3>1, <3>2
    <2>4. Committed(applied[i])'
      BY <1>1, <2>3 DEF Committed
    <2>5. HonestSnapshots(i) => Rising(applied[i])'
      BY <2>3 DEF Rising
    <2>6. last_applied'[i] <= commit_index'[i]
          /\ (commit_index'[i] <= commit_index'[Lead] \/ commit_index'[i] < log'[i].first)
      BY <1>1, <1>4, <1>6, <1>8
    <2> QED
      BY <1>2, <1>8, <2>1, <2>2, <2>3, <2>4, <2>5, <2>6 DEF Applies
  <1>9. CASE /\ applied'[i] = applied[i] /\ n > to
             /\ last_applied'[i] = to /\ ~applying'[i].busy
    <2>1. Position(i)' = to + 1 /\ n = to + 1
      BY <1>5, <1>9 DEF Position
    <2>2. last_applied'[i] <= commit_index'[i]
          /\ (commit_index'[i] <= commit_index'[Lead] \/ commit_index'[i] < log'[i].first)
      BY <1>1, <1>4, <1>5, <1>7, <1>9
    <2>3. Committed(applied[i])'
      BY <1>1, <1>6, <1>9 DEF Committed
    <2>4. HonestSnapshots(i) => Rising(applied[i])'
      BY <1>9 DEF Rising, Applies
    <2>5. ASSUME HonestSnapshots(i), NEW k \in DOMAIN applied[i]
          PROVE  applied[i][k].index < to + 1 \/ applied[i][k].index < log'[i].first
      <3>1. applied[i][k].index \in Nat
        BY ApplyTypes
      <3>2. applied[i][k].index < n \/ applied[i][k].index < f
        BY <1>4, <1>5, <2>5 DEF Applies
      <3> QED
        BY <1>4, <2>1, <3>1, <3>2
    <2> QED
      BY <1>2, <1>9, <2>1, <2>2, <2>3, <2>4, <2>5 DEF Applies
  <1> QED
    BY <1>3, <1>8, <1>9, TickEffect

LEMMA InstallApplies ==
  ASSUME ReignInv, TypeInv', ApplyInv, LeadAdvances, NEW i \in Server, Applies(i),
         NEW m \in snapReq, HandleInstallSnapshot(i, m),
         log'[i].first >= log[i].first, commit_index'[i] >= commit_index[i]
  PROVE  Applies(i)'
  <1>1. m.to = i /\ i # Lead /\ applying' = applying /\ snapReq' = snapReq
    BY InstallEffect DEF ReignInv, Throne
  <1>2. commit_index'[Lead] = commit_index[Lead]
    BY <1>1, InstallEffect, LeadAssumption DEF ReignInv
  <1>3. CASE /\ log'[i] = log[i] /\ applied'[i] = applied[i]
             /\ commit_index'[i] = commit_index[i] /\ last_applied'[i] = last_applied[i]
    <2>1. Undisturbed(i)
      BY <1>1, <1>3 DEF Undisturbed
    <2> QED
      BY <1>1, <2>1, UndisturbedApplies DEF ReignInv
  <1>4. CASE /\ log'[i] = TruncateBefore(SaveSnapshot(log[i], m.index, m.snapTerm, m.data),
                                         m.index + 1)
             /\ applied'[i] = m.data
             /\ commit_index'[i] = m.index /\ last_applied'[i] = m.index
    <2>1. log[i] \in LogType /\ m.index \in Nat /\ m.data \in Seq(AppliedEntry)
      BY ReignTypes DEF ReignInv
    <2>2. log'[i].first = m.index + 1
      BY <1>4, <2>1, SnapshotKeeps
    <2>3. last_applied'[i] <= commit_index'[i] /\ commit_index'[i] < log'[i].first
      BY <1>4, <2>1, <2>2
    <2>4. ASSUME applying'[i].busy
          PROVE  /\ applying'[i].at <= applying'[i].to + 1
                 /\ applying'[i].to <= commit_index'[i]
                 /\ applying'[i].to < log'[i].first
      <3>1. PICK t \in Nat, c \in Nat : t = applying[i].to /\ c = commit_index[i]
        BY ApplyTypes, IndexTypes DEF ReignInv
      <3>2. applying[i].at <= applying[i].to + 1 /\ t <= c
        BY <1>1, <2>4, <3>1 DEF Applies
      <3>3. c <= m.index
        BY <1>4, <3>1
      <3> QED
        BY <1>1, <1>4, <2>1, <2>2, <3>1, <3>2, <3>3
    <2>5. Committed(m.data) /\ Rising(m.data)
      BY DEF ApplyInv
    <2>6. Committed(applied[i])'
      BY <1>2, <1>4, <2>5 DEF Committed
    <2>7. Rising(applied[i])'
      BY <1>4, <2>5 DEF Rising
    <2>8. ASSUME HonestSnapshots(i)', NEW k \in DOMAIN applied'[i]
          PROVE  applied'[i][k].index < log'[i].first
      <3>1. m.data[k].index <= m.index
        BY <1>1, <1>4, <2>8 DEF HonestSnapshots
      <3>2. applied'[i][k].index \in Nat
        BY NextApplyTypes
      <3> QED
        BY <1>4, <2>1, <2>2, <3>1, <3>2
    <2> QED
      BY <2>3, <2>4, <2>6, <2>7, <2>8 DEF Applies
  <1> QED
    BY <1>3, <1>4, InstallEffect DEF ReignInv

\* The leader is sent no snapshot, so what it has applied, and what it puts
\* under a snapshot, is committed and rising.
LEMMA SnapshotsApply ==
  ASSUME ReignInv, TypeInv', ApplyInv, LeadAdvances, ReplicationNext
  PROVE  /\ log'[Lead].data # NoSnapshot => (Committed(log[Lead].data) /\ Rising(log[Lead].data))'
         /\ \A m \in snapReq' : Committed(m.data)' /\ Rising(m.data)
  <1>1. HonestSnapshots(Lead)
    BY DEF HonestSnapshots, ReignInv, Throne
  <1>2. Applies(Lead)
    BY DEF ApplyInv
  <1>3. Committed(applied[Lead]) /\ Rising(applied[Lead])
    BY <1>1, <1>2 DEF Applies
  <1>4. applied[Lead] \in Seq(AppliedEntry)
    BY ReignTypes, LeadAssumption DEF ReignInv
  <1>5. log[Lead].data \in Seq(AppliedEntry) \cup {NoSnapshot}
    BY ReignTypes, LeadAssumption DEF ReignInv, LogType
  <1>6. \A s \in Seq(AppliedEntry) : Committed(s) => Committed(s)'
    BY CommittedStays DEF ReignInv
  <1>7. log[Lead].data # NoSnapshot => Committed(log[Lead].data) /\ Rising(log[Lead].data)
    BY DEF ApplyInv
  <1>8. ASSUME log'[Lead].data # NoSnapshot
        PROVE  (Committed(log[Lead].data) /\ Rising(log[Lead].data))'
    <2>1. PICK s : s = log'[Lead].data
      OBVIOUS
    <2>2. s \in Seq(AppliedEntry) /\ Committed(s) /\ Rising(s)
      BY <1>3, <1>4, <1>5, <1>7, <1>8, <2>1, SnapshotChanges
    <2>3. Committed(s)'
      BY <1>6, <2>2
    <2>4. Committed(log[Lead].data)'
      BY <2>1, <2>3 DEF Committed
    <2>5. Rising(log[Lead].data)'
      BY <2>1, <2>2 DEF Rising
    <2> QED
      BY <2>4, <2>5
  <1>9. ASSUME NEW m \in snapReq' PROVE Committed(m.data)' /\ Rising(m.data)
    <2>1. m \in snapReq \/ (m.data = log[Lead].data /\ m.data # NoSnapshot)
      BY SnapshotChanges
    <2>2. \A r \in snapReq : r.data \in Seq(AppliedEntry) /\ Committed(r.data) /\ Rising(r.data)
      BY ReignTypes DEF ReignInv, ApplyInv
    <2>3. PICK s : s = m.data
      OBVIOUS
    <2>4. s \in Seq(AppliedEntry) /\ Committed(s) /\ Rising(s)
      BY <1>5, <1>7, <2>1, <2>2, <2>3
    <2>5. Committed(s)'
      BY <1>6, <2>4
    <2> QED
      BY <2>3, <2>4, <2>5 DEF Committed
  <1> QED
    BY <1>8, <1>9

LEMMA ApplyStep ==
  ASSUME ReignInv, CommitInv, ApplyInv, ReplicationNext, ReignInv', CommitInv'
  PROVE  ApplyInv'
  <1>1. TypeInv /\ TypeInv' /\ LogShape /\ LogShape' /\ ReplicationNext
    BY DEF ReignInv, CommitInv
  <1>2. LeadAdvances
    BY <1>1, BoundsStep
  <1>3. Lead \in Steady'
    BY <1>1, <1>2, LeadSteady DEF ApplyInv
  <1>4. snapReq \subseteq snapReq'
    BY <1>1, SnapshotChanges
  <1>5. ASSUME NEW i \in Steady' PROVE Applies(i)'
    <2>1. /\ i \in Server /\ i \in Steady
          /\ log'[i].first >= log[i].first /\ commit_index'[i] >= commit_index[i]
      BY <1>1, SteadyStep
    <2>2. Applies(i)
      BY <2>1 DEF ApplyInv
    <2>3. CASE Undisturbed(i)
      BY <1>1, <1>2, <1>4, <2>1, <2>2, <2>3, UndisturbedApplies
    <2>4. CASE TickApply(i)
      BY <1>1, <2>1, <2>2, <2>4, TickApplies
    <2>5. CASE \E m \in snapReq : HandleInstallSnapshot(i, m)
      BY <1>1, <1>2, <2>1, <2>2, <2>5, InstallApplies
    <2> QED
      BY <1>1, <2>1, <2>3, <2>4, <2>5, ApplyChanges
  <1>6. /\ log'[Lead].data # NoSnapshot => (Committed(log[Lead].data) /\ Rising(log[Lead].data))'
        /\ \A m \in snapReq' : Committed(m.data)' /\ Rising(m.data)
    BY <1>1, <1>2, SnapshotsApply
  <1> QED
    BY <1>3, <1>5, <1>6 DEF ApplyInv, Rising

LEMMA ApplyStart == ReignInit => ApplyInv
  <1> SUFFICES ASSUME ReignInit PROVE ApplyInv
    OBVIOUS
  <1>1. Steady = Server /\ snapReq = {}
    BY DEF ReignInit, Steady
  <1>2. log[Lead].data = NoSnapshot
    BY LeadAssumption DEF ReignInit, EmptyLog
  <1>3. \A i \in Server : /\ last_applied[i] = 0 /\ commit_index[i] = 0
                          /\ applied[i] = << >> /\ ~applying[i].busy
    BY DEF ReignInit, NotApplying
  <1>4. DOMAIN << >> = {}
    OBVIOUS
  <1>5. \A i \in Server : Applies(i)
    BY <1>3, <1>4, LeadAssumption DEF Applies, Committed, Rising
  <1> QED
    BY <1>1, <1>2, <1>5, LeadAssumption DEF ApplyInv

LEMMA ApplyStutter == ApplyInv /\ UNCHANGED vars => ApplyInv'
  BY DEF ApplyInv, Applies, Committed, Rising, Position, Steady, HonestSnapshots,
     vars, commitVars, appendNet, histVars

LEMMA ApplyInvariant == OneProposer /\ ReignSpec => []ApplyInv
  <1>1. ReignInit => ApplyInv
    BY ApplyStart
  <1>2. /\ ReignInv /\ CommitInv /\ ApplyInv /\ [ReplicationNext]_vars
        /\ ReignInv' /\ CommitInv'
        => ApplyInv'
    BY ApplyStep, ApplyStutter
  <1> QED
    BY <1>1, <1>2, ReignInvariant, BoundsInvariant, PTL DEF ReignSpec

\* What a node hands to its state machine are entries of the leader's log, each
\* under its index; as long as its first_index and its commit_index only
\* advance they are committed, and with honest snapshots each comes once and in
\* order, however commits, snapshots and log changes fall between the awaits of
\* apply_committed_entries: for any cluster, log, batch size and snapshot
\* threshold, as long as proposals do not overlap.
THEOREM AppliesInOrder == OneProposer /\ ReignSpec => []AppliedInOrder
  <1>1. ReignInv /\ ApplyInv => AppliedInOrder
    <2> SUFFICES ASSUME ReignInv, ApplyInv, NEW i \in Server, NEW k \in DOMAIN applied[i]
                 PROVE  /\ applied[i][k].entry = log[Lead].entries[applied[i][k].index]
                        /\ i \notin firstBack \cup commitBack =>
                             /\ applied[i][k].index <= commit_index[Lead]
                             /\ HonestSnapshots(i) =>
                                  \A k2 \in 1..(k - 1) :
                                    applied[i][k2].index < applied[i][k].index
      BY DEF AppliedInOrder
    <2>1. applied[i][k].entry = log[Lead].entries[applied[i][k].index]
      BY DEF ReignInv, FromLeader, Own
    <2>2. ASSUME i \notin firstBack \cup commitBack PROVE Applies(i)
      BY <2>2 DEF ApplyInv, Steady
    <2> QED
      BY <2>1, <2>2 DEF Applies, Committed, Rising
  <1> QED
    BY <1>1, ReignInvariant, ApplyInvariant, PTL
=============================================================================
