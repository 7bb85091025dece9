SPECIFICATION Spec
CONSTANTS
  TraceLength = 4
  BlockSize = 2
INVARIANTS
  GraphIsFaithful
  ReplayIsFaithful
  WekaIsFaithful
  CapturesAreFaithful
  NumbersAreSafe
  AnswersAreReadTruly
  RequestsCarryEverything
  ReportsReconcile
  SessionsAreReplayable
  SessionsComeFromTheirTraces
  TurnsAreWellPlaced
