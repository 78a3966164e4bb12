SPECIFICATION FairSpec
CONSTANTS
  Client = {c1, c2}
  LeaseId = {l1, l2}
  Key = {k1}
  TTL = {1, 2}
  MaxTime = 2
  MaxPushes = 3
  None = None
INVARIANTS TypeOK LeaseKeysMatch EveryLeaseQueued
PROPERTIES LeaseEnds LoopRunsOn
CHECK_DEADLOCK FALSE
