SPECIFICATION Spec
CONSTANTS
  Server = {s1, s2}
  Proposer = {}
  Data = {}
  MaxLog = 0
  MaxEntries = 1
  SnapshotThreshold = 5
  MaxElections = 3
  MaxRestarts = 1
  MaxVoteHandlers = 1
  Nobody = Nobody
  NoEntry = NoEntry
  NoSnapshot = NoSnapshot
INVARIANTS TypeOK ElectedByMajority
SYMMETRY Symmetry
CHECK_DEADLOCK FALSE
