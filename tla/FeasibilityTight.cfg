SPECIFICATION SettingSpec
CONSTANTS
  Families = 3
  FirstBlocks = 4
  BlocksEach = 1
  StateEach = 2
  BlockEach = 1
  FirstFinal = 4
  FinalEach = 2
  Blocks <- MCBlocks
  StateMemory <- MCState
  BlockMemory <- MCBlock
  FinalMemory <- MCFinal
  Workers = 2
  Budget = 7
  Failures = TRUE
  Jobs = 3
  Window = 2
INVARIANTS
  GeometryIsCharged
  RunsInOnePlace
PROPERTIES
  ReducesInOrder
  GeometryPassEnds
  LevelsAreEarned
  WaveEnds
