SPECIFICATION PipelineSpec
CONSTANTS
  Runs = {1, 2}
  DirPos <- MCDirPos
  Bench <- MCBench
  Benchmarks <- MCBenchmarks
  Collected = {1, 2}
  Crashes = TRUE
  ValFrac = 1
  TestFrac = 1
  FracBase = 5
  AttackRunsInTest = TRUE
  Overlap = TRUE
INVARIANTS
  TestRunsAreUnseen
  ManifestIsExact
