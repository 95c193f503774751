SPECIFICATION FairSpec
CONSTANTS
  Newlines <- ShortLines
  Cuts <- ShortLines
  MaxToken = 2
  MaxGen = 0
  MaxStarts = 1
CHECK_DEADLOCK FALSE
PROPERTY
  ReadInTheEnd
