SPECIFICATION Spec
CONSTANTS
  Changes = {change}
  Requests = {r1}
  MaxToggles = 0
  MaxCrashes = 0
  MaxFaults = 0
  MaxLeaves = 1
INVARIANT AppliedMeansChanged
CHECK_DEADLOCK FALSE
