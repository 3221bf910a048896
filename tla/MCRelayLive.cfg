SPECIFICATION FairSpec
CONSTANTS
  GreetLen = 1
  ReqLen = 2
  IVLen = 2
  Library = "sodium"
  BufSize = 2
  MaxUp = 5
  MaxDown = 4
PROPERTIES
  Freed
  Delivered
