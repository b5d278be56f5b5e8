\* A signal between the try block and the masked cleanup.
CONSTANTS
  Runs = {r1}
  Operator = operator
  NoService = noService
  gnb = gnb
  amf = amf
  Services <- GnbOnly
  UserPlane <- GnbOnly
  Faults <- ImpairmentFaults
  Exclusive = TRUE
  MaxRestarts = 0
  MaxOrphans = 0
SPECIFICATION Spec
INVARIANTS CleanupAttempted
CHECK_DEADLOCK FALSE
