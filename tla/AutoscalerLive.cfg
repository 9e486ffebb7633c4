SPECIFICATION FairSpec
CONSTANTS
  t1 = t1
  j1 = j1
  j2 = j2
  j3 = j3
  Types <- OneType
  MaxIndex = 1
  Scripts = {s1, s2}
  Jobs <- FitAndOversize
  JobType <- TypeOfJob
  JobSize <- SizeOfJob
  ADs = 1
  CanFail = {"apply"}
  MaxFaults = 1
  Permanent = {}
  MaxCount <- Count1
  MaxSize <- Size2
  MaxNodes <- Nodes3
  SlowBuild = FALSE
  SlowScan = FALSE
  MaxCrashes = 0
  MaxCleanups = 0
PROPERTIES
  LockReleased
  WaitingJobServed
  IdleClusterSpunDown
