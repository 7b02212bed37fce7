SPECIFICATION Spec
CONSTANTS
  Command = {p}
  Size = {1, 2}
  Score = {1}
  Keep <- MCKeep
  Starts = 2
  Decisions = 0
INVARIANTS AbsenceIsWork
CHECK_DEADLOCK FALSE
