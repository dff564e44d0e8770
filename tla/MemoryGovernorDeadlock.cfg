SPECIFICATION FairSpec
CONSTANTS
  Loop = loop
  Worker = {w1}
  Sampler = {m1}
  Monitor = m1
  Isolated = FALSE
  None = None
  Capacity = 1
  Warning = 1
  Drain = 2
  Unhealthy = 3
  MaxPressure = 3
PROPERTY RemovalsFinish
CHECK_DEADLOCK FALSE
