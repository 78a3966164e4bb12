SPECIFICATION Spec
CONSTANTS
  Thread = {t1, t2}
  Key = {k1}
  Value = {v1}
  DeleteRange = {{k1}}
  ReadRange = {}
  MaxRevision = 4
  MaxRestarts = 1
  WithCompaction = TRUE
  WithSnapshots = FALSE
  None = None
INVARIANTS TypeOK IndexBacked NoFutureRevision
PROPERTY KvRevWriteOnce
SYMMETRY Symmetry
CHECK_DEADLOCK FALSE
