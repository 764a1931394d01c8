\* Five-minute polling with cycles of up to two minutes, outages, kills and errors.
CONSTANTS
  a1 = a1
  a2 = a2
  Watched = {a1, a2}
  Interval = 5
  Checked = 5
  Floor = 5
  MaxCycle = 2
  Cap = 11
  MaxFailures = 2
SPECIFICATION FairWatchSpec
INVARIANTS
  StoredTimeIsTrue
  NoFalseAlarm
PROPERTY Recovers
