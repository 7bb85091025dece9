SPECIFICATION Spec
CONSTANTS
  Event = {"a", "b", "c"}
  Preds <- Join
  Sessions = 2
  Unbuildable = {}
  Stages = 1
  NumSessions = 3
  ConcurrentSessions = 1
  Workers = {w1}
  MaxConcurrency = 2
  MaxCrashes = 1
  Faults = {"fail", "mismatch", "raise", "exit"}
INVARIANTS
  TypeOK
  KeptExactlyWhileRunning
  ReportedTruly
PROPERTIES
  SentAfterPredecessors
  NothingSentAfterFailure
