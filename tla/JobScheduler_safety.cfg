SPECIFICATION Spec
CONSTANTS
  once = once
  weekly = weekly
  Jobs <- MCJobs
  Repeating <- MCRepeating
  MaxDeliver = 3
  MaxJobs = 1
  MaxSeq = 2
  MaxCrashes = 2
  MaxFaults = 1
INVARIANTS
  JobsAreKept
PROPERTIES
  NoChangeAfterCancel
  HistoryIsFinal
  ImplementsOneChangePerClaim
CHECK_DEADLOCK FALSE
