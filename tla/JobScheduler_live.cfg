SPECIFICATION FairSpec
CONSTANTS
  once = once
  weekly = weekly
  Jobs <- MCJobs
  Repeating <- MCRepeating
  MaxDeliver = 3
  MaxJobs = 1
  MaxSeq = 2
  MaxCrashes = 2
  MaxFaults = 0
INVARIANTS
  PromiseKept
PROPERTIES
  LateWorkIsMissed
  WorkSettles
CHECK_DEADLOCK FALSE
