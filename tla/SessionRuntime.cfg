SPECIFICATION Spec
CONSTANTS
  Sid = {a, b}
  Slab = {k1}
  None = None
  Rpc = {r1, r2}
  Capacity = 1
  MaxLen = 2
  MaxNew = 1
  MaxCancels = 1
SYMMETRY Symmetry
INVARIANTS TypeOK SlabOwnership HistoryIsTheCache FreeSlabsAreReset
CHECK_DEADLOCK FALSE
