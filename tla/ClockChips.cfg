CONSTANTS
  Chips <- MCChips
  Wanted <- MCWanted
  MClks <- MCMClks
  FoundCSR <- MCFoundCSR
  MaxKills = 1
SPECIFICATION Spec
\* A run may wait for ever for the lock of a PLL that a killed one stopped.
CHECK_DEADLOCK FALSE
INVARIANTS
  ClockAsAsked
  NothingLeftOpen
  MemoryKeepsClock
  MemoryClockHeld
PROPERTY
  RunEnds
