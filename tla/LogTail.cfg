SPECIFICATION Spec
CONSTANTS
  Newlines <- BlankFirst
  Cuts <- HalfWritten
  MaxToken = 2
  MaxGen = 1
  MaxStarts = 2
CHECK_DEADLOCK FALSE
INVARIANTS
  NoByteSkipped
  ReadTwiceForAReason

  
