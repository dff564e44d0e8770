SPECIFICATION FairSpec
CONSTANTS
  Loop = loop
  Worker = {w1, w2}
  Sampler = {m1, h1}
  Monitor = m1
  Isolated = TRUE
  None = None
  Capacity = 2
  Warning = 1
  Drain = 2
  Unhealthy = 3
  MaxPressure = 3
INVARIANTS TypeOK ResetOnlyWhenEmpty
PROPERTY AdmissionResumes
CHECK_DEADLOCK FALSE
