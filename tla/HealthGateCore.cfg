SPECIFICATION FairSpec
CONSTANTS
  NONE = NONE
  Devices = {1, 2}
  FabricShape = TRUE
  Cases <- Together
  ShortTime = 0
  Day = 2
  Limit = 1
  NewYear = 2
  MaxTime = 2
  MaxFaults = 1
INVARIANTS
  TypeOK
  RebootsSpaced
  TerminateIsFinal
PROPERTIES
  GateHolds
  FaultyNodeDrained
CHECK_DEADLOCK FALSE
