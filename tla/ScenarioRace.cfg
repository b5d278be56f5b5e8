\* Two impairment scenarios at once on the same gNB.
CONSTANTS
  Runs = {r1, r2}
  Operator = operator
  NoService = noService
  gnb = gnb
  amf = amf
  Services <- GnbOnly
  UserPlane <- GnbOnly
  Faults <- ImpairmentFaults
  Exclusive = FALSE
  MaxRestarts = 0
  MaxOrphans = 0
SPECIFICATION Spec
PROPERTIES ClsactRemovedByCreator
CHECK_DEADLOCK FALSE
