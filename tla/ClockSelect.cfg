CONSTANTS
  Cards <- MCCards
  Chips <- MCChips
  Configs <- MCConfigs
  Wanted <- MCWanted
SPECIFICATION Spec
INVARIANTS
  ClockAsValidated
  NearestClockOut
  OneClockShown
  ListedNeverHalfway
