SPECIFICATION Spec
CONSTANTS
  w1 = w1
  w2 = w2
  NoWorker = NoWorker
  Workers = {w1, w2}
  Stages = 2
  StageSize = 2
  MaxConcurrency = 2
  MaxCrashes = 1
  MaxWedges = 0
  Unloadable <- FirstRequest
  Faults = {"slow", "grace", "strand"}
CHECK_DEADLOCK FALSE
SYMMETRY Symmetry
INVARIANTS TypeOK RendezvousHolds CompletedMeansRetired CountersReconcile InFlightIsExact
PROPERTIES SentInItsStage ImplementsBarrier
