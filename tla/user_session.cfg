SPECIFICATION FairSpec
CONSTANTS
  Plans <- SoundPlans
  Turns = 3
  MaxTurns = 6
  MaxConcurrency = 5
INVARIANTS
  OneTurnAtATime
  TranscriptUnbroken
PROPERTIES
  NotOvertakenBeforeWoken
  TurnsEnd
