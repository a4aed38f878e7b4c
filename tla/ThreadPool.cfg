CONSTANTS
  MaxThreads = 2
  Callers = {a, b}
  MaxTasks = 2
  MaxSize = 2
SPECIFICATION Spec
INVARIANT QueueKept
PROPERTY WorkEnds
CHECK_DEADLOCK FALSE
