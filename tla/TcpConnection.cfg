SPECIFICATION Spec
CONSTANTS
  Threads = {t1}
  Messages = {m1, m2, m3}
  MessageSize = 2
  SocketRoom = 3
  HighWaterMark = 3
INVARIANTS StreamIntact OutputNoticed StateAsserts
PROPERTIES LifecycleSpec OutputDrains ClosedIsRemoved
CHECK_DEADLOCK FALSE
