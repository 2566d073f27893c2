\* Two SSLED sessions of two symbols, captured as snapshots; RFA may deliver
\* events it had queued when the stream was unregistered.
SPECIFICATION FairSpec
CONSTANTS
  s1 = s1
  s2 = s2
  Sessions = {s1, s2}
  Instruments <- TwoSymbols
  Protocol <- AllSsled
  DisableUpdate = FALSE
  DisableRefresh = FALSE
  TerminateOnSync = TRUE
  HasOutput = TRUE
  FeedTypes = {"Image", "Update", "Status"}
  FinalTypes = {"Status"}
  Marketfeed <- OnlyMarketfeed
  RequestsMayFail = FALSE
  HasTimeLimit = FALSE
  LateEvents = TRUE
  MaxEvents = 2
  MaxLogins = 0
  MaxQueue = 2
INVARIANTS
  TypeOK
  FinishOnlyWhenAnswered
  FinishOnceAnswered
  SnapshotHoldsImages
  HandleReleasedOnce
  SnapshotInvariant
PROPERTIES
  ImplementsContract
  AnsweredCaptureEnds
