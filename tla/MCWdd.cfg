CONSTANTS
  Files = {f1, f2}
  NFiles = 2
  Counts = {0, 2}
  Stamps = {0, 1}
  TIMEOUT = 3
  Faults <- OneFileBreaks
SPECIFICATION HFairSpec
INVARIANTS
  ArgsPartition
  DetectionBound
  StillFileBound
  NoFalseAlarm
PROPERTIES
  BrokenFileEndsDaemon
  ExitResets
CHECK_DEADLOCK FALSE
