\* By hand, with -continue; both fail: two worker threads around one edit, and
\* SIGHUP between a comparison and the return.
CONSTANTS
  t1 = t1
  t2 = t2
  Unset = Unset
  Threads = {t1, t2}
  MaxEdits = 1
  MaxSignals = 1
SPECIFICATION CacheSpec
INVARIANTS AlwaysCurrent ReturnsConfig
