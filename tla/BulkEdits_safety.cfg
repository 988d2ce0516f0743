SPECIFICATION Spec
CONSTANTS
  removed = removed
  both = both
  Extensions <- MCExtensions
  CoreRows <- MCExtensions
  OptionRows <- MCOptionRows
  WholeRows <- MCWholeRows
  Requests = {c1, c2, c3}
  MaxCrashes = 1
  MaxFaults = 1
  MaxLeaves = 1
INVARIANTS
  SheetIsKept
  OneIsTold
  WrittenOnceUndisturbed
PROPERTIES
  DecisionIsFinal
SYMMETRY MCSymmetry
CHECK_DEADLOCK FALSE
