SPECIFICATION SettingSpec
CONSTANTS
  Command = {p, q}
  Size = {1, 2}
  Score = {1}
  Keep <- MCKeep
  Starts = 2
  Decisions = 1
  Binding = {b, c}
  LastSecond = 1
  Nobody = Nobody
  Nothing = Nothing
VIEW Live
CHECK_DEADLOCK FALSE
INVARIANTS
  CellsAreExclusive
  CommittedIsWhole
  SomebodyGoesOn
  EvaluatedOnce
PROPERTIES
  DecisionsMoveForward
  LockedMovesForward
