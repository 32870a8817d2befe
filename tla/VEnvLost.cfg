CONSTANTS
  Names = {"HOME", "TERM", "X"}
  Sizes <- MCSizes
  PartTypes <- MCPartTypes
  Start <- MCStart
  MaxVars = 8
SPECIFICATION EnvSpec
INVARIANT
  NothingLost
