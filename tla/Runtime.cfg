SPECIFICATION FairSpec
CONSTANTS
  Threads = {1, 2}
  Names = {"a", "b", "c"}
  RangesOf <- TwoRanges
  ChecksumOf <- OneChecksum
  MaxObjects = 3
  Parts = {"singletons", "command line", "recorder", "logging", "leaks"}
INVARIANTS
  OneInstance
  ReadsBack
  OneHistogramPerName
  MessagesArrive
  ListHoldsTheLive
PROPERTY CallersServed
\* Each part makes a bounded number of calls and may then stop.
CHECK_DEADLOCK FALSE
