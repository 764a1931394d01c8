\* Five-minute polling: the web check's fixed limit.
CONSTANTS
  a1 = a1
  a2 = a2
  Watched = {a1, a2}
  Interval = 5
  Checked = 5
  Floor = 5
  MaxCycle = 1
  Cap = 11
  MaxFailures = 0
SPECIFICATION WatchSpec
INVARIANT NoFalseWebAlarm
