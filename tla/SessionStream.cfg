SPECIFICATION FairSpec
CONSTANTS
  b1 = b1
  b2 = b2
  Batches <- TwoBatches
  Kinds <- TwoKinds
  MaxRetries = 1
  MaxEvents = 3
  MaxStarts = 2
CHECK_DEADLOCK FALSE
INVARIANTS
  CompletedMeansSaved
  DuplicateForAReason
  PendingForAReason
PROPERTIES Processed ImplementsConversion
