SPECIFICATION Spec
CONSTANTS
  Callers = {t1}
  Addrs = {a1, a2}
  Free = free
  Once = once
  Times = {0, 2}
  Intervals = {once, 1}
  MaxTimers = 2
  MaxTime = 3
INVARIANTS TimersOwned TimerfdArmed CancelStops
PROPERTY TimerFires
CHECK_DEADLOCK FALSE
