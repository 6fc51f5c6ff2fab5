CONSTANTS
  small = small
  big = big
  tiny = tiny
  Tiny = tiny
  Size <- MCSize
  Cost <- MCCost
  Mem = 6
  Tries = 4
SPECIFICATION Spec
INVARIANTS
  TinyOnlyIfAllowed
  InterruptedKeepsGeometry
  ShrinkNeverStuck
PROPERTIES
  CallEnds
  ImplementsContract
