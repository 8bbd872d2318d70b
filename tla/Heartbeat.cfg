SPECIFICATION Spec
CONSTANTS
  Interval = 2
  Timeout = 6
  TicksPerSecond = 2
  Delay = 3
  MaxFlight = 1
INVARIANT NoFalseAlarm
INVARIANT SilenceNoticed
CHECK_DEADLOCK FALSE
