\* Two services, two lines in a run before and after one tick; three lines in a
\* file, within two seconds and a half.
CONSTANTS
  amf = amf
  smf = smf
  Services <- MCServices
  MaxEntries = 2
  MaxTime = 2
  MaxGiven = 3
  MaxStamp = 4
SPECIFICATION Spec
INVARIANTS TypeOK NoForbiddenMissed PassOnCurrentLines DurationFromFirst
SYMMETRY Symmetry
\* A run ends.
CHECK_DEADLOCK FALSE
