SPECIFICATION FairSpec
CONSTANTS
  Req = {r1, r2}
  Capacity = 1
  MaxNew = 2
  MaxLeaves = 2
INVARIANTS HttpTypeOK AdmissionProtectsSessions PermitsAccounted OnlyAbandonedThreadsInterfere
PROPERTY AdmittedRequestsEnd
CHECK_DEADLOCK FALSE
