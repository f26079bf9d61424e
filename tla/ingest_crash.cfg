SPECIFICATION IngestSpec
CONSTANTS
  Runs = {1, 2, 3}
  DirPos <- MCDirPos
  Bench <- MCBench
  Benchmarks <- MCBenchmarks
  Collected = {}
  Crashes = TRUE
INVARIANTS
  FinishedStoreIsWhole
  StoreComesFromRunDirs
PROPERTIES
  AttackMarkSticks
