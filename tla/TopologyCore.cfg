SPECIFICATION Spec
CONSTANTS
  hpc = hpc
  hpc_big = hpc_big
  n1 = n1
  n2 = n2
  n3 = n3
  Clusters = {hpc, hpc_big}
  Nodes = {n1, n2, n3}
  Home <- HomeOf
  Similar <- Beginning
  Plays = {p1, p2}
  MaxStarts = 4
  MaxFaults = 1
SYMMETRY Symmetry
INVARIANTS
  OwnNodesOnly
  SwitchesAgree
PROPERTIES
  OnlyTargetsLeave
CHECK_DEADLOCK FALSE
