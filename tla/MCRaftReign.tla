---------------------------- MODULE MCRaftReign ----------------------------
(***************************************************************************)
(* RaftReign for TLC.  Payloads are interchangeable.  A run that says      *)
(* nothing about acknowledgements views a state without acked, which no    *)
(* action reads (elections and votes do not change during a reign).        *)
(***************************************************************************)
EXTENDS RaftReign, TLC

Symmetry == Permutations(Data)

WithoutAcked ==
  <<stateVars, commitVars, leaderVars, log, proposing, boot, appendNet,
    firstBack, commitBack>>

\* No code compares payloads, so a behaviour with two equal ones is the image of
\* one in which they differ: only the latter are followed.
FreshPayload ==
  \A p \in Proposer : proposing[Lead][p].phase = "append" =>
    \A n \in Index : log[Lead].entries[n] # NoEntry
      => log[Lead].entries[n].data # proposing[Lead][p].entry.data

\* The proposals come first: followers answer once the leader has all its entries.
ProposalsFirst ==
  log[Lead].last < MaxLog => appendResp = {} /\ snapResp = {}
=============================================================================
