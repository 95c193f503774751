SPECIFICATION Spec
CONSTANTS
  b1 = b1
  b2 = b2
  Batches <- TwoBatches
  Kinds <- TwoKinds
  MaxRetries = 2
  MaxEvents = 2
  MaxStarts = 2
CHECK_DEADLOCK FALSE
PROPERTY
  ResumesAfterRestart
