SPECIFICATION FairSpec
CONSTANTS
  w1 = w1
  w2 = w2
  NoWorker = NoWorker
  Workers = {w1, w2}
  Stages = 2
  StageSize = 1
  MaxConcurrency = 1
  MaxCrashes = 1
  MaxWedges = 0
  Unloadable = {}
  Faults = {"grace", "torn", "strand"}
CHECK_DEADLOCK FALSE
PROPERTIES  DeadWorkerReplaced
