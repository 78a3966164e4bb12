SPECIFICATION Spec
CONSTANTS
  Node = {n1, n2}
  Client = {c1}
  Key <- SplitKeys
  Value <- PlainValues
  Binary = {}
  Lease = {0}
  RangeEnd <- OddEnds
  Flags <- KeepValue
  Txn <- Toggles
  WithCompact = TRUE
  MaxLog = 2
  MaxElections = 2
  MaxRestarts = 1
  MaxAbandons = 1
  MaxTxns = 1
  MaxProposing = 1
  Nobody = Nobody
  None = None
INVARIANTS TypeOK FollowersInStep
CHECK_DEADLOCK FALSE
SYMMETRY Symmetry
VIEW WithoutAcked
