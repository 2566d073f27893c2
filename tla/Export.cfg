SPECIFICATION FairSpec
CONSTANTS
  Records <- SixMessages
  SizeUnits = 2
  PayloadUnits = 3
  RequiredUnits = 1
  BufferUnits = 2
  DiskMayFill = TRUE
  MaxRecords = 2
  MaxCaptures = 2
  Services <- BothServices
  OutputName <- OwnFiles
  SymbolFilter <- XAndY
  WithComma <- Quotable
  Unconvertible = "n/a"
INVARIANTS
  ExportFollowsCapture
  CellsFitRows
  ReadsRecorded
PROPERTIES
  ConversionEnds
