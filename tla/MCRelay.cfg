SPECIFICATION Spec
CONSTANTS
  GreetLen = 1
  ReqLen = 2
  IVLen = 2
  Library = "openssl"
  BufSize = 3
  MaxUp = 6
  MaxDown = 5
INVARIANTS
  MemorySafe
  BufferExclusive
  NotStranded
  NoByteLost
PROPERTIES
  UpIsPipe
  DownIsPipe
