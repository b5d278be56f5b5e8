\* One run, every kind of fault, restarts and commands left behind; with liveness.
CONSTANTS
  Runs = {r1}
  Operator = operator
  NoService = noService
  gnb = gnb
  amf = amf
  Services <- GnbAndAmf
  UserPlane <- GnbOnly
  Faults <- AllFaults
  Exclusive = TRUE
  MaxRestarts = 1
  MaxOrphans = 1
SPECIFICATION FairSpec
INVARIANTS InjTypeOK ArmedWhileInstalled TypeOK PassMeansReverted PassMeansHeld RollbackFailureReported ExpectedFailureIsCurrent
PROPERTIES OperatorStateKept PassLeavesLabRunning InjSpec ImplementsLifecycle Terminates FilterIsDealtWith
CHECK_DEADLOCK FALSE
