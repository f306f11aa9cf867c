SPECIFICATION BatchSpec
CONSTANTS
  Runs = {r1, r2, r3}
  TargetCount = 2
  Script <- LongScript
  CONCURRENCY = 2
  MAX_RUNS = 2
  DataDir = FALSE
  SlowWrites = FALSE
SYMMETRY AnyRun
INVARIANTS
  NoSlotIsWasted
PROPERTIES
  VerdictsAreFinal
  CancelStopsScripts
