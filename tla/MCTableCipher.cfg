SPECIFICATION TCSpec
CONSTANTS
  Size = 8
  Passes = 24
  Hashes = {100, 101, 102, 103, 104, 105, 106, 107, 108, 109, 110, 111, 112, 113, 114, 115, 116, 117, 118, 119, 120}
  ByteRange = 8
  LongRange = 128
  IntRange = 64
  MaxCalls = 2
INVARIANTS
  TablesInverse
PROPERTIES
  SortsStably
CHECK_DEADLOCK FALSE
