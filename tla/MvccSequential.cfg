SPECIFICATION Spec
CONSTANTS
  Thread = {t1}
  Key = {k1, k2}
  Value = {v1}
  DeleteRange = {{k1, k2}}
  ReadRange = {{k1, k2}}
  MaxRevision = 5
  MaxRestarts = 0
  WithCompaction = FALSE
  WithSnapshots = TRUE
  None = None
INVARIANTS ReadsMatchHistory IndexMatchesKv 
CHECK_DEADLOCK FALSE
