SPECIFICATION Spec
CONSTANTS
  MaxThreads = 2
  MaxRequests = 3
  MaxFds = 2
INVARIANT FreedIsClosed
CHECK_DEADLOCK FALSE
