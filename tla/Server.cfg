SPECIFICATION Spec
CONSTANTS
  MaxThreads = 2
  MaxRequests = 3
  MaxFds = 3
INVARIANT ConnectionsOwned
PROPERTIES LifecycleSpec ClosedAreForgotten RequestsAnswered
CHECK_DEADLOCK FALSE
