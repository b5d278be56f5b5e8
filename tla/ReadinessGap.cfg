\* A restart between the last inspection and the verdict.
CONSTANTS
  smf = smf
  mongo = mongo
  NFs <- MCNFs
  Mongo = mongo
  Needs <- MCNeeds
  TicksPerSecond = 2
  Timeout = 4
  StableSeconds = 2
  Interval = 1
  CommandLimit = 2
  MaxRestarts = 1
SPECIFICATION Spec
PROPERTIES NoRestartInWindow
CHECK_DEADLOCK FALSE
