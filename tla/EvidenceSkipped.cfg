\* One line of each of two services, within one tick of the boundary.
CONSTANTS
  amf = amf
  smf = smf
  Services <- MCServices
  MaxEntries = 2
  MaxTime = 1
  MaxGiven = 1
  MaxStamp = 2
SPECIFICATION Spec
INVARIANTS CollectionFailsClosed
SYMMETRY Symmetry
\* A run ends.
CHECK_DEADLOCK FALSE
