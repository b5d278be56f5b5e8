\* One probe of each kind, the bootstrap script in full, then in the lab.
CONSTANTS
  Plan <- MCPlan
  MaxLate = 1
SPECIFICATION CSpec
INVARIANTS CTypeOK PassLeavesNothing ResidueReported PassMeansSetUp MarkerMeansClean
  ForeignKept ResidueExplained
CHECK_DEADLOCK FALSE
