\* Two runs one after the other, the first of which may crash.
CONSTANTS
  Runs = {r1, r2}
  Operator = operator
  NoService = noService
  gnb = gnb
  amf = amf
  Services <- GnbOnly
  UserPlane <- GnbOnly
  Faults <- SequentialFaults
  Exclusive = TRUE
  MaxRestarts = 0
  MaxOrphans = 1
SPECIFICATION Spec
PROPERTIES OnlyOwnRemoved
VIEW SequenceView
SYMMETRY RunSymmetry
CHECK_DEADLOCK FALSE
