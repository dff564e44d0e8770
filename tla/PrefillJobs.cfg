SPECIFICATION FairSpec
CONSTANTS
  Hash <- MCHash
  Payload = {p1, p2}
  None = None
  Lease = {l1}
  Job = {j1, j2}
  Chains <- MCChains
  Size <- MCSize
  MaxBytes = 3
  Budgets = {2, 3}
  Request <- MCRequest
  ChainOf <- MCChainOf
  Estimate <- MCEstimate
  MaxJobs = 2
  Workers = 1
  Exports = {"final", "all"}
INVARIANTS TypeOK BytesAccounted LeasedBlocksPresent ReservationsHonoured CancelIsFinal NoLeakedReservation RequestsFindTheirJobs
PROPERTY JobsEnd
