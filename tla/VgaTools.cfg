\* A program, once ended, does nothing: the system may stop.
SPECIFICATION Spec
CONSTANTS
  p1 = p1
  p2 = p2
  Programs = {p1, p2}
  Jobs <- MCJobs
  Palettes <- MCPalettes
  KernelUses = {"cursor", "attributes", "font", "switch"}
  BufferLines = 18
  DacSize = 18
INVARIANTS
  ColoursAsAsked
  FontAgrees
PROPERTIES
  NothingStrays
  CallsTakeEffect
CHECK_DEADLOCK FALSE
