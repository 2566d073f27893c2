\* A capture with a time limit on one SSLED and one RSSL session: a symbol
\* listed twice, requests that RFA may refuse, logins lost and regained,
\* streams that stay open behind their first image.
SPECIFICATION Spec
CONSTANTS
  s1 = s1
  s2 = s2
  Sessions = {s1, s2}
  Instruments <- RepeatedSymbol
  Protocol <- Mixed
  DisableUpdate = FALSE
  DisableRefresh = FALSE
  TerminateOnSync = FALSE
  HasOutput = TRUE
  FeedTypes = {"Image", "Update", "ClosingRun", "Status"}
  FinalTypes = {"Status"}
  Marketfeed <- OnlyMarketfeed
  RequestsMayFail = TRUE
  HasTimeLimit = TRUE
  LateEvents = FALSE
  MaxEvents = 2
  MaxLogins = 2
  MaxQueue = 1
INVARIANTS
  NoDanglingClosure
  OneRegistration
  OneStreamPerSymbol
  ArchiveMatchesCounts
  OnSyncOncePerConsumer
