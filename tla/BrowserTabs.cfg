\* Expected to fail, both of them: two tabs announce the same thread, and a tab that
\* is open goes on after the user disabled notifications in another (tlc -continue).
CONSTANTS
  k1 = k1
  k2 = k2
  t1 = t1
  t2 = t2
  Keys = {k1, k2}
  Tabs = {t1, t2}
  TouchInterval = 0
  TTL = 1
  MaxEntries = 2
  MaxPerCycle = 1
  MaxToggles = 1
SPECIFICATION Spec
INVARIANT NeverTwice
PROPERTY DisabledIsSilent
