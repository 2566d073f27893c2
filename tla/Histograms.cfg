SPECIFICATION SmallSpec
CONSTANTS
  kSampleType_MAX = 8
  Shapes <- AllKinds
  Threads = {1, 2}
  Samples <- BelowAndBeyond
  MaxSamples = 2
  MaxSnapshots = 1
INVARIANTS
  EverySampleHasItsBucket
  RowsAddUp
  SnapshotsBarelyRace
\* Samples and snapshots are bounded.
CHECK_DEADLOCK FALSE
