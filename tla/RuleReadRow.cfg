\* By hand: a global exclude and a row that was read before the next poll.
CONSTANTS
  k1 = k1
  k2 = k2
  k3 = k3
  ci = ci
  done = done
  Repositories = {1, 2}
  Reasons = {1, 2}
  SubjectTypes = {1}
  Titles = {1, 2}
  Paths = {ci}
  SnippetPaths = {ci}
  Values = {done}
  Scalars = {done}
  None = None
  Keys <- MCKeys
  Names = {"triage", "all"}
  NoFilters = "no filters"
  Default = "default"
  Shapes <- MCShapes
  ContextsOf <- MCContextsOf
  Scoring0 <- MCScoring0
  Stored0 <- MCStored0
  Rules0 <- MCRules0
  Dashboards0 <- MCDashboards0
  MaxNow = 2
  MaxPastes = 1
SPECIFICATION FairSpec
PROPERTY ExcludeReachesRows
