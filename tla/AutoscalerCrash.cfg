SPECIFICATION Spec
CONSTANTS
  t1 = t1
  j1 = j1
  j2 = j2
  j3 = j3
  Types <- OneType
  MaxIndex = 2
  Scripts = {s1, s2}
  Jobs <- SmallJob
  JobType <- TypeOfJob
  JobSize <- SizeOfJob
  ADs = 2
  CanFail = {"apply"}
  MaxFaults = 1
  Permanent = {}
  MaxCount <- Count1
  MaxSize <- Size2
  MaxNodes <- Nodes3
  SlowBuild = TRUE
  SlowScan = TRUE
  MaxCrashes = 1
  MaxCleanups = 1
SYMMETRY Symmetry
INVARIANTS
  CountInv
CHECK_DEADLOCK FALSE
