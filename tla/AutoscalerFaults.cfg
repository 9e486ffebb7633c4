SPECIFICATION Spec
CONSTANTS
  t1 = t1
  j1 = j1
  j2 = j2
  j3 = j3
  Types <- OneType
  MaxIndex = 3
  Scripts = {s1, s2}
  Jobs <- TwoJobs
  JobType <- TypeOfJob
  JobSize <- SizeOfJob
  ADs = 1
  CanFail = {"shape", "apply", "cleanup", "destroy"}
  MaxFaults = 1
  Permanent = {}
  MaxCount <- Count2
  MaxSize <- Size2
  MaxNodes <- Nodes2
  SlowBuild = FALSE
  SlowScan = FALSE
  MaxCrashes = 0
  MaxCleanups = 0
SYMMETRY Symmetry
CONSTRAINT NamesClean
INVARIANTS
  ClusterCountWithinLimit
  NodesWithinLimit
  TypeOK
  BuildsMatchDemand
  FreshName
  NoOrphans
  OneDestroyer
PROPERTIES
  SafeStartNeverKilled
