SPECIFICATION BatchFairSpec
CONSTANTS
  Runs = {r1, r2}
  TargetCount = 1
  Script <- SendOnly
  CONCURRENCY = 1
  MAX_RUNS = 1
  DataDir = TRUE
  SlowWrites = FALSE
INVARIANTS
  BatchInv
PROPERTIES
  RunsEnd
  VerdictsReachTheFile
