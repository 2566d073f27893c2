SPECIFICATION Spec
CONSTANTS
  Protocol <- TwoSessions
  HasOutput = TRUE
  Converting = FALSE
  NullResults = TRUE
INVARIANTS
  UsersGoFirst
  NothingLeaks
  ChecksHold
