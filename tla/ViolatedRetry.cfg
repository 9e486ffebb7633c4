SPECIFICATION Spec
CONSTANTS
  t1 = t1
  j1 = j1
  j2 = j2
  j3 = j3
  Types <- OneType
  MaxIndex = 3
  Scripts = {s1, s2}
  Jobs <- TwoJobs
  JobType <- TypeOfJob
  JobSize <- SizeOfJob
  ADs = 2
  CanFail = {"apply"}
  MaxFaults = 1
  Permanent = {}
  MaxCount <- Count2
  MaxSize <- Size2
  MaxNodes <- Nodes3
  SlowBuild = FALSE
  SlowScan = FALSE
  MaxCrashes = 0
  MaxCleanups = 0
INVARIANTS
  BuildsMatchDemand
