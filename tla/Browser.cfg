\* Two tabs, two threads, one announcement per snapshot.  A unit of time is
\* the touch interval; entries live for one more.  One click on enable/disable.
CONSTANTS
  k1 = k1
  k2 = k2
  t1 = t1
  t2 = t2
  Keys = {k1, k2}
  Tabs = {t1, t2}
  TouchInterval = 0
  TTL = 1
  MaxEntries = 2
  MaxPerCycle = 1
  MaxToggles = 1
SPECIFICATION Spec
INVARIANTS
  NoRepeatWithoutCause
  SeenMeansTold
