SPECIFICATION FairSpec
CONSTANTS
  Protocol <- TwoSessions
  HasOutput = TRUE
  Converting = FALSE
  NullResults = TRUE
PROPERTIES
  RunReturns
