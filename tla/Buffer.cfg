SPECIFICATION Spec
CONSTANTS
  kCheapPrepend = 1
  kInitialSize = 2
  ExtraBuf = 2
  ByteBase = 2
  CR = 0
  LF = 1
  MaxContent = 4
  MaxCall = 2
INVARIANT BufferInv
PROPERTY QueueSpec
