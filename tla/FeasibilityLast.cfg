SPECIFICATION Spec
CONSTANTS
  Families = 2
  FirstBlocks = 1
  BlocksEach = 1
  StateEach = 2
  BlockEach = 1
  FirstFinal = 4
  FinalEach = 2
  Blocks <- MCBlocks
  StateMemory <- MCState
  BlockMemory <- MCBlock
  FinalMemory <- MCFinal
  Workers = 2
  Budget = 7
  Failures = FALSE
INVARIANTS
  ExhaustedMeansMissing
