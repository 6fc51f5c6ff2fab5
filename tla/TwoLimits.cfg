\* Two ChipSet lines.
SPECIFICATION Spec
CONSTANTS
  None = None
  Files <- MCFiles
  Requests <- MCRequests
  DefaultDac <- MCDefaultDac
  BuiltIn <- MCBuiltIn
INVARIANTS
  LimitAsWritten
CHECK_DEADLOCK FALSE
