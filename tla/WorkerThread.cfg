SPECIFICATION ThreadSpec
CONSTANTS
  Callers = {owner, t1}
  Owner = owner
  LoopThread = loop
  Functors = {f1, f2}
  UserChannels = {c1}
  WakeupChannel = wakeup
  None = none
INVARIANTS WakeupsKept OwnerSafe
PROPERTIES ExecutorSpec FunctorsRun QuitEndsLoop OwnerReturns
CHECK_DEADLOCK FALSE
