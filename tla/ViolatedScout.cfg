SPECIFICATION Spec
CONSTANTS
  Hosts = {h1, h2, h3, h4}
  Fleets <- MixedFleets
  Modes = {"serial", "parallel"}
SYMMETRY Symmetry
INVARIANTS
  SlowNodeReportedInParallel
CHECK_DEADLOCK FALSE
