SPECIFICATION Spec
CONSTANTS
  Plans <- TwoStages
  Turns = 3
  MaxTurns = 3
  MaxConcurrency = 4
INVARIANTS
  SystemPromptCarried
