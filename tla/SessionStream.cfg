SPECIFICATION FairSpec
CONSTANTS
  Sid = {a}
  Slab = {k1}
  None = None
  Rpc = {r1, r2}
  Capacity = 1
  MaxLen = 3
  MaxNew = 2
  MaxCancels = 1
INVARIANT ClientKnowsHistory
PROPERTY GuardsReleased
CHECK_DEADLOCK FALSE
