SPECIFICATION Spec
CONSTANTS
  NumWorkers = 2
  StageRequests = 3
  Channels <- OneOrTwo
  ChannelRequests = 2
  NumStages = 2
  MaxKills = 2
  Requests = {1, 2}
  Settling = {1}
  Retries = 1
  Threshold = 2
  Window = 1
  MinSamples = 2
  Matching = {1, 2}
  Schedule <- FourRequests
  Duration = 3
  StageTime = 4
  MaxTime = 2
INVARIANTS
  LevelRespected
  PermitsConserved
  DrainIsExact
  MetricIsTruthful
  KeepsWhatArrives
  BreakerOpensRightly
  StagesAreReportedTruly
PROPERTIES
  EverythingEnds
