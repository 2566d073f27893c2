\* A snapshot image in another format than Marketfeed.
SPECIFICATION Spec
CONSTANTS
  s1 = s1
  s2 = s2
  Sessions = {s1}
  Instruments <- OneSymbol
  Protocol <- AllSsled
  DisableUpdate = FALSE
  DisableRefresh = FALSE
  TerminateOnSync = TRUE
  HasOutput = TRUE
  FeedTypes = {"Image", "Update", "Status"}
  FinalTypes = {"Status"}
  Marketfeed <- BothFormats
  RequestsMayFail = FALSE
  HasTimeLimit = FALSE
  LateEvents = FALSE
  MaxEvents = 2
  MaxLogins = 0
  MaxQueue = 2
INVARIANTS
  HandleReleasedOnce
