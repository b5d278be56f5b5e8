\* One wait, with one restart.
CONSTANTS
  smf = smf
  mongo = mongo
  NFs <- MCNFs
  Mongo = mongo
  Needs <- MCNeeds
  TicksPerSecond = 2
  Timeout = 4
  StableSeconds = 2
  Interval = 1
  CommandLimit = 2
  MaxRestarts = 1
SPECIFICATION Spec
INVARIANTS TypeOK PassedUndisturbed ReadyThroughout BoundedWait
CHECK_DEADLOCK FALSE
