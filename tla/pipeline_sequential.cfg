SPECIFICATION PipelineSpec
CONSTANTS
  Runs = {1, 2, 3, 4}
  DirPos <- MCDirPos
  Bench <- MCBench
  Benchmarks <- MCBenchmarks
  Collected = {1, 2, 3}
  Crashes = FALSE
  ValFrac = 1
  TestFrac = 1
  FracBase = 5
  AttackRunsInTest = TRUE
  Overlap = FALSE
INVARIANTS
  PipelineTypeOK
  NoAttackTraining
PROPERTIES
  CommandsEnd
  ValidRunsGetStored
