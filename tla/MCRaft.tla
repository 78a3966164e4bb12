------------------------------- MODULE MCRaft -------------------------------
(***************************************************************************)
(* Raft for TLC.  Nodes are interchangeable.  ElectionSpec leaves out what *)
(* has no influence on elections while the logs are empty: the answers to  *)
(* heartbeats, and therefore commit and match indices.                     *)
(***************************************************************************)
EXTENDS Raft, TLC

Symmetry == Permutations(Server)

ElectionOnlyNext ==
  \/ ElectionNext
  \/ \E i \in Server : \E m \in appendReq : HandleAppendEntries(i, m)

ElectionSpec == Init /\ [][ElectionOnlyNext]_vars

\* The variables that decide what can happen in ElectionSpec.
ElectionView ==
  <<current_term, voted_for, role, election, granting, voteReq, voteResp,
    appendReq, elections, cast, won>>
=============================================================================
