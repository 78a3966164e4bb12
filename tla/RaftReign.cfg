SPECIFICATION ReignSpec
CONSTANTS
  Server = {s1, s2}
  Lead = s1
  Proposer = {p1}
  Data = {d1, d2}
  MaxLog = 2
  MaxEntries = 2
  SnapshotThreshold = 0
  MaxElections = 1
  MaxRestarts = 0
  MaxVoteHandlers = 1
  Nobody = Nobody
  NoEntry = NoEntry
  NoSnapshot = NoSnapshot
INVARIANTS LogAgreement NoHoles CommitBehindLeader 
CONSTRAINT FreshPayload
VIEW WithoutAcked
SYMMETRY Symmetry
CHECK_DEADLOCK FALSE
