SPECIFICATION Spec
CONSTANTS
  Stream = {s1}
  Writer = {w1, w2}
  Key = {k1}
  KeyRange <- OneRange
  Filter <- PutFilters
  Requested = {0}
  Capacity = 1
  MaxWatches = 2
  MaxRevision = 3
  None = None
INVARIANTS TypeOK EventsOnce CreatedFirst NoSilentLoss ClosedReleased
CHECK_DEADLOCK FALSE
SYMMETRY Symmetry
