SPECIFICATION FairSpec
CONSTANTS
  LogProbs = {1, 2}
  AcronymOverride = 2
  ShortShortThreshold = 2
  Floor = 0
  FixMinLen = 3
  TokenKinds <- MCAllKinds
  MaxTokens = 4
CONSTRAINT
  Bounded
CHECK_DEADLOCK FALSE
INVARIANTS
  PunctuationKept
  InertAndStopWordsKept
  WordsCoverTokens
  StatusTellsOutput
  CandidatesResolved
PROPERTIES
  ImplementsTokenStatus
  Terminates
