SPECIFICATION MainFairSpec
CONSTANTS
  w1 = w1
  NoWorker = NoWorker
  Workers = {w1}
  Stages = 2
  StageSize = 1
  MaxConcurrency = 1
  MaxCrashes = 1
  MaxWedges = 1
  Unloadable = {}
  Faults = {"raise", "slow", "grace", "deaf", "breaker", "timeout", "interrupt"}
CHECK_DEADLOCK FALSE
PROPERTIES NoWorkerHoldsTheRun
