CONSTANTS
  kInitRetryDelayMs = 1
  kMaxRetryDelayMs = 3
  MaxConnections = 2
  MaxCalls = 4
SPECIFICATION Spec
INVARIANT ConnectorInv
PROPERTIES StopIsFinal StopSettles Reconnects
CHECK_DEADLOCK FALSE
