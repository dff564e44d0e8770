SPECIFICATION FairSpec
CONSTANTS
  Seed = o1
  Oblig = {o1, o2}
  Gap = {g}
  None = None
  Rounds = 1
  MaxVer = 3
  MaxFaults = 1
  MaxAsks = 1
INVARIANTS TypeOK PendingRoleHasItsCandidate SearchIsContracted WorkOnPendingTarget
PROPERTIES BlockedNeedsOperator InfrastructureRetries
