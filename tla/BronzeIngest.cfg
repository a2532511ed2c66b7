SPECIFICATION FairSpec
CONSTANTS
  MaxOffsetsPerTrigger = 2
  MaxRecords = 2
  MaxAged = 1
INVARIANTS TypeOK BronzeAtMostOnce NothingSkipped
PROPERTIES CheckpointsAdvance NoHalfJob RoutedEventually
