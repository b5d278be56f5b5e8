\* A baseline and a fault run, one edit of the checkout and one trouble.
CONSTANTS
  c1 = c1
  c2 = c2
  k1 = k1
  k2 = k2
  Configs <- MCConfigs
  Commits <- MCCommits
  MaxRuns = 2
  MaxEdits = 1
  MaxTroubles = 1
SPECIFICATION Spec
INVARIANTS TypeOK FaultOnTestedContext NoCrashMissed PassOnOwnRan
PROPERTIES UeAfterNgSetup
SYMMETRY Symmetry
CHECK_DEADLOCK FALSE
