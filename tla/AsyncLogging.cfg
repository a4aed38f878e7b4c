CONSTANTS
  rollSize = 2
  flushInterval = 0
  kCheckTimeRoll = 0
  kRollPerSeconds = 2
  SIZE = 3
  MaxBuffers = 2
  MaxLines = 5
  MaxLost = 1
  MaxTime = 3
SPECIFICATION Spec
INVARIANTS LinesKept BuffersRecycled FilesRoll
PROPERTY LinesFlushed
CHECK_DEADLOCK FALSE
