SPECIFICATION Spec
CONSTANTS
  Modes <- MCModes
  Cursor <- MCCursor
  UnderlineAt = 31
  Found <- MCText
  Runs = 2
INVARIANT Set80Restores
CHECK_DEADLOCK FALSE
