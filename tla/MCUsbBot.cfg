SPECIFICATION Spec
CONSTANTS
  MaxChunks = 2
  CommandRetry = 2
  CswRetry = 3
  Tags = 3
INVARIANTS BotInv
PROPERTIES CswIsOurs Returns
