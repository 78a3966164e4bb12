SPECIFICATION Spec
CONSTANTS
  Thread = {t1}
  Key = {k1}
  Value = {v1}
  DeleteRange = {}
  ReadRange = {}
  MaxRevision = 3
  MaxRestarts = 1
  WithCompaction = FALSE
  WithSnapshots = FALSE
  None = None
INVARIANT IndexMatchesKv
CHECK_DEADLOCK FALSE
