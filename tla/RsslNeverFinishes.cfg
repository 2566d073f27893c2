\* An RSSL session counts no stream towards synchronisation.
SPECIFICATION Spec
CONSTANTS
  s1 = s1
  s2 = s2
  Sessions = {s1}
  Instruments <- TwoSymbols
  Protocol <- AllRssl
  DisableUpdate = FALSE
  DisableRefresh = FALSE
  TerminateOnSync = TRUE
  HasOutput = TRUE
  FeedTypes = {"Image", "Update", "Status"}
  FinalTypes = {"Status"}
  Marketfeed <- OnlyMarketfeed
  RequestsMayFail = FALSE
  HasTimeLimit = FALSE
  LateEvents = FALSE
  MaxEvents = 1
  MaxLogins = 1
  MaxQueue = 2
INVARIANTS
  FinishOnceAnswered
