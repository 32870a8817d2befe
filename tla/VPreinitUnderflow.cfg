CONSTANTS
  MAX_BRACE_LEVEL = 3
  Lines <- BlockLines
  DevTypes = {"other"}
  Refusals = {}
SPECIFICATION Spec
INVARIANT
  NoUnderflow
