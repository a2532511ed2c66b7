SPECIFICATION FairSpec
CONSTANTS
  p1 = p1
  p2 = p2
  Partitions <- TwoPartitions
  Retries = 2
  PrintEvery = 2
  MaxEvents = 4
INVARIANTS TypeOK FirstCopiesInOrder NothingLostSilently
PROPERTIES FlushReturns
CHECK_DEADLOCK FALSE
