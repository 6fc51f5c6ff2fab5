SPECIFICATION GSpec
CONSTANTS
  Modes <- MCModes
  Cursor <- MCCursor
  UnderlineAt = 31
  Found <- MCFound
  Runs = 1
  Adapters <- MCAdapters
  Widths <- MCWidths
  Heights <- MCHeights
INVARIANTS OrderedOrRemarked RoundTrip NoFalseAlarm PresetHonoured
