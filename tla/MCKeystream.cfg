SPECIFICATION Spec
CONSTANTS
  Block = 4
  IVLen = 2
  MaxChunk = 6
  Scratch = 10
  MaxBytes = 14
INVARIANTS
  RoundTrip
  ScratchFits
CHECK_DEADLOCK FALSE
