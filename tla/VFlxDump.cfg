SPECIFICATION Spec
CONSTANTS
  Entries <- E
  Folders <- F
  MaxCount = 2
  Commands <- CDeep
  Levels <- LDeep
  Refusals <- RNone
PROPERTY
  OwnDump
