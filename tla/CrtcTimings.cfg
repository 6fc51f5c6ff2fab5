SPECIFICATION Spec
CONSTANTS
  Modes <- MCModes
  Cursor <- MCCursor
  UnderlineAt = 31
  Found <- MCFound
  Runs = 2
INVARIANTS TimingsReadBack ScreenMatchesKernel BlankingAroundSync
PROPERTY OtherBitsKept
CHECK_DEADLOCK FALSE
