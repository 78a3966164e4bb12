SPECIFICATION FairSpec
CONSTANTS
  Node = {n1, n2}
  Client = {c1, c2}
  Key <- PlainKeys
  Value <- PlainValues
  Binary = {}
  Lease = {0}
  RangeEnd <- OneKey
  Flags <- NoFlags
  Txn = {}
  WithCompact = FALSE
  MaxLog = 2
  MaxElections = 1
  MaxRestarts = 1
  MaxAbandons = 0
  MaxTxns = 0
  MaxProposing = 1
  Nobody = Nobody
  None = None
PROPERTIES ImplementsReplicatedStore EveryStoreCatchesUp CommittedAnswered
CHECK_DEADLOCK FALSE
