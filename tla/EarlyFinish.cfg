\* Updates only, ending on sync: a stream's image and its close are both counted.
SPECIFICATION Spec
CONSTANTS
  s1 = s1
  s2 = s2
  Sessions = {s1}
  Instruments <- TwoSymbols
  Protocol <- AllSsled
  DisableUpdate = FALSE
  DisableRefresh = TRUE
  TerminateOnSync = TRUE
  HasOutput = TRUE
  FeedTypes = {"Image", "Update", "Status"}
  FinalTypes = {"Status"}
  Marketfeed <- OnlyMarketfeed
  RequestsMayFail = FALSE
  HasTimeLimit = FALSE
  LateEvents = FALSE
  MaxEvents = 2
  MaxLogins = 0
  MaxQueue = 2
INVARIANTS
  FinishOnlyWhenAnswered
