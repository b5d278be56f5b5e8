\* One baseline after an edit of the files that the running core has loaded.
CONSTANTS
  c1 = c1
  c2 = c2
  k1 = k1
  k2 = k2
  Configs <- MCConfigs
  Commits <- MCCommit
  MaxRuns = 1
  MaxEdits = 1
  MaxTroubles = 0
SPECIFICATION Spec
INVARIANTS PassRanItsConfig
CHECK_DEADLOCK FALSE
