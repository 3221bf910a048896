SPECIFICATION Spec
CONSTANTS
  GreetLen = 1
  ReqLen = 1
  IVLen = 1
  Library = "openssl"
  BufSize = 2
  MaxUp = 3
  MaxDown = 2
INVARIANT
  ReplyBeforeRelay
