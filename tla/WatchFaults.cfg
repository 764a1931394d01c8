\* Expected to fail, both of them: every account fails to answer, and an outage of
\* PostgreSQL during a cycle (tlc -continue).
CONSTANTS
  a1 = a1
  a2 = a2
  Watched = {a1, a2}
  Interval = 1
  Checked = 1
  Floor = 5
  MaxCycle = 1
  Cap = 6
  MaxFailures = 1
SPECIFICATION WatchSpec
INVARIANTS HealthyMeansPolled OnlyKilledDies
