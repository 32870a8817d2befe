CONSTANTS
  Tables <- MCTables
  Lists <- MCLists
  ExtTypes <- MCExtTypes
SPECIFICATION FindSpec
INVARIANT
  BothImages
