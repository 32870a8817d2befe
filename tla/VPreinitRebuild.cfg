CONSTANTS
  MAX_BRACE_LEVEL = 2
  Lines <- BlockLines
  DevTypes = {"other"}
  Refusals = {}
SPECIFICATION Spec
INVARIANT
  RebuildNeverExecutes
