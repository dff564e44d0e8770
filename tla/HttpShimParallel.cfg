SPECIFICATION Spec
CONSTANTS
  Req = {r1, r2}
  Capacity = 2
  MaxNew = 1
  MaxLeaves = 0
INVARIANT AnswersAreOwn
CHECK_DEADLOCK FALSE
