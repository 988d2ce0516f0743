SPECIFICATION Spec
CONSTANTS
  Changes = {change}
  Requests = {r1, r2, r3}
  MaxToggles = 2
  MaxCrashes = 1
  MaxFaults = 1
  MaxLeaves = 1
INVARIANTS
  ProposalsAreKept
  AnswersAreTrue
  KillSwitchHolds
PROPERTIES
  ImplementsOneChangePerClaim
SYMMETRY MCSymmetry
CHECK_DEADLOCK FALSE
