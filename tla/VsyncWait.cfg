SPECIFICATION Spec
CONSTANTS
  NFRAMES = 5
  TimeBand = 5
  Wrap = 100
  Elapsed = {12, 22, 38, 40, 42, 57, 195}
  Period = 40
  Retries = 2
  Seconds = 2
  Hoisted = FALSE
INVARIANTS
  AlarmIsHandled
  ResultIsHonest
  ClockIsHonest
PROPERTIES
  WaitReturns
  UserEnds
CHECK_DEADLOCK FALSE
