SPECIFICATION CallFairSpec
CONSTANTS
  MaxTokens = 4
  MIN_MAX_TOKENS = 2
  PromptTokens = 2
  MaxRetries = 3
  FallbackMaxRetries = 2
  HasFallback = TRUE
CHECK_DEADLOCK FALSE
INVARIANTS
  SequenceBounded
  LossNeedsSequences
PROPERTY CallEnds
