CONSTANTS
  c1 = c1
  c2 = c2
  Paths <- MCPaths
  Parents <- MCParents
  Contents = {c1, c2}
  Same <- MCSame
  None = none
  Gone = gone
  OnDisk = {1}
  ParentsFirst = TRUE
SPECIFICATION FairSpec
INVARIANTS
  LeaveTogether
  Complete
  CrashNeedsGone
PROPERTY
  Ends
