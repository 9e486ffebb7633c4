SPECIFICATION Spec
CONSTANTS
  Hosts = {h1, h2, h3, h4, h5}
  Fleets <- MixedFleets
  Modes = {"serial", "parallel"}
SYMMETRY Symmetry
INVARIANTS
  TypeOK
  GoodNodesCleared
  SlowNodeReported
CHECK_DEADLOCK FALSE
