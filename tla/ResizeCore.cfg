SPECIFICATION Spec
CONSTANTS
  None = None
  Names = {n1, n2, n3}
  Runs = {r1, r2}
  Requests <- Given
  Permanent = FALSE
  MaxStarts = 2
  MaxFaults = 1
SYMMETRY Symmetry
INVARIANTS
  DriftHasACause
  NothingHalfAdded
  TakesNoMore
  StateKnowsSize
  LockMeansRunning
PROPERTIES
  OnlyTargetsGo
CHECK_DEADLOCK FALSE
