CONSTANTS
  MAX_BRACE_LEVEL = 3
  Lines <- AllLines
  DevTypes = {"other"}
  Refusals = {"devtmpfs", "nodes"}
SPECIFICATION FairSpec
INVARIANTS
  TypeOK
  NoStaleContext
  RebuildSpares
PROPERTIES
  ImplementsBlocks
  ConsoleInitWins
