SPECIFICATION PipelineSpec
CONSTANTS
  Runs = {1, 2, 3}
  DirPos <- MCDirPos
  Bench <- MCBench
  Benchmarks <- MCBenchmarks
  Collected = {1, 2, 3}
  Crashes = TRUE
  ValFrac = 1
  TestFrac = 1
  FracBase = 5
  AttackRunsInTest = TRUE
  Overlap = FALSE
INVARIANTS
  NoAttackTraining
