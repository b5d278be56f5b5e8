\* Up to two edits from the repository's configuration.
CONSTANTS
  MaxEdits = 2
  Timers <- MCTimers
SPECIFICATION Spec
INVARIANTS AcceptedAttaches RenamingAccepted
\* The validator answers once.
CHECK_DEADLOCK FALSE
