SPECIFICATION Spec
CONSTANTS
  TraceLength = 4
  BlockSize = 2
INVARIANTS
  PromptIsAligned
