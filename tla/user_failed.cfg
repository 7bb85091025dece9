SPECIFICATION Spec
CONSTANTS
  Plans <- CutAndFailing
  Turns = 3
  MaxTurns = 5
  MaxConcurrency = 4
INVARIANTS
  NothingSentTwice
