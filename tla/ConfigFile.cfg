\* The program ends.
SPECIFICATION Spec
CONSTANTS
  None = None
  Files <- MCFiles
  Requests <- MCRequests
  DefaultDac <- MCDefaultDac
  BuiltIn <- MCBuiltIn
INVARIANTS
  LastLineCounts
  AcceptedAsWritten
CHECK_DEADLOCK FALSE
