SPECIFICATION AuditSpec
CONSTANTS
  None = None
  Names = {n1, n2, n3}
  Runs = {r1}
  Requests <- Given
  Permanent = FALSE
  MaxStarts = 2
  MaxFaults = 1
  Similar = FALSE
SYMMETRY Symmetry
INVARIANTS
  ReportsAreReal
  QuietAuditAgrees
  CleanRunsAuditQuiet
CHECK_DEADLOCK FALSE
