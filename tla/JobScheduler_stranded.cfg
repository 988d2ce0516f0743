SPECIFICATION Spec
CONSTANTS
  once = once
  weekly = weekly
  Jobs <- MCJobs
  Repeating <- MCRepeating
  MaxDeliver = 3
  MaxJobs = 1
  MaxSeq = 2
  MaxCrashes = 0
  MaxFaults = 0
INVARIANT RefusedCancelKeepsPromise
CHECK_DEADLOCK FALSE
