SPECIFICATION LiveSpec
CONSTANTS
  Event = {"a", "b"}
  Preds <- Chain
  Sessions = 3
  Unbuildable = {2}
  Stages = 3
  NumSessions = 2
  ConcurrentSessions = 1
  Workers = {w1, w2}
  MaxConcurrency = 1
  MaxCrashes = 1
  Faults = {"fail", "timeout", "raise"}
INVARIANTS
  SessionsAccounted
PROPERTIES
  StagesEnd
CHECK_DEADLOCK FALSE
