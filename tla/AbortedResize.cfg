CONSTANTS
  text = text
  wide = wide
  tiny = tiny
  vt1 = vt1
  vt2 = vt2
  Size <- MCSize
  Tiny = tiny
  Text = text
  VT <- MCVT
  TermLines <- MCTermLines
  DoSyncReset = FALSE
SPECIFICATION Spec
INVARIANT
  ErrorLeavesScreen
