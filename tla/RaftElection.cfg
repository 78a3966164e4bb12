SPECIFICATION ElectionSpec
CONSTANTS
  Server = {s1, s2, s3}
  Proposer = {}
  Data = {}
  MaxLog = 0
  MaxEntries = 1
  SnapshotThreshold = 1
  MaxElections = 2
  MaxRestarts = 0
  MaxVoteHandlers = 1
  Nobody = Nobody
  NoEntry = NoEntry
  NoSnapshot = NoSnapshot
INVARIANT ElectedByMajority
SYMMETRY Symmetry
VIEW ElectionView
CHECK_DEADLOCK FALSE
