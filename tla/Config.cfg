\* Two worker threads, two edits and a SIGHUP at any point.
CONSTANTS
  t1 = t1
  t2 = t2
  Unset = Unset
  Threads = {t1, t2}
  MaxEdits = 2
  MaxSignals = 1
SPECIFICATION FairCacheSpec
INVARIANT NeverStale
PROPERTY EditsAreSeen
