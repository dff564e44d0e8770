SPECIFICATION Spec
CONSTANTS
  Hash <- MCHash
  Payload = {ours, theirs, bad}
  None = None
  Lease = {l1, l2}
  Job = {}
  Chains <- MCChains
  Size <- MCSize
  MaxBytes = 2
  Budgets = {}
  Call <- MCCall
  Prompt <- MCPrompt
  Ours = ours
  Valid = {ours, theirs}
  MaxFaults = 2
INVARIANTS HookTypeOK PrefilledExactly DecodeOnlyPrimary
CHECK_DEADLOCK FALSE
