SPECIFICATION Spec
CONSTANTS
  Threads = {"main", "other"}
  main = "main"
  Files = {"file"}
  MinLevels = {3}
  VerboseLevels = {1}
  Handlers = {"handles"}
  MaxInits = 2
  MaxMessages = 2
INVARIANT FatalEnds
\* Messages and initialisations are bounded.
CHECK_DEADLOCK FALSE
