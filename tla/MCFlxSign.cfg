SPECIFICATION Spec
CONSTANTS
  Entries <- E
  Folders <- F
  MaxCount = 2
  Commands <- C
  Levels <- L
  Refusals <- R
INVARIANTS
  InOrder
  WrittenIsFreed
  Complete
  RightDump
PROPERTY
  Ends
