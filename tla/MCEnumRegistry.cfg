CONSTANTS
  Declared <- MCDeclared
  CastArgs <- MCCastArgs
  Debug = TRUE
  MaxCasts = 2
SPECIFICATION Spec
CHECK_DEADLOCK FALSE
INVARIANT AssertOnlyOnUndeclared
