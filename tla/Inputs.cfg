SPECIFICATION InputsSpec
CONSTANTS
  Symbols <- SomeSymbols
  Seeds <- SomeSeeds
  MaxGrowth <- SomeGrowth
  Texts <- SomeTexts
  Names <- Services
  UrlLists <- UpToThree
  Absent = Absent
  LogNames <- SomeLogNames
  UndefinedPorts <- AnyPorts
  RfaMayFail = TRUE
INVARIANTS
  UrlPartsCompose
  UrlLaidOut
  PortIsNumber
  QueryIsPairs
  SplitIsInverse
  PairsAsWritten
  PlaceholdersReplaced
  GlobIsCut
  LevelAsAsked
  PrintedWhole
  ConnectsAsGiven
