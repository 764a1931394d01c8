\* Expected to fail, both of them: a thread whose row is dismissed is announced, and
\* a crash between the save and the dispatch loses its events (tlc -continue).
CONSTANTS
  k1 = k1
  k2 = k2
  a1 = a1
  a2 = a2
  NoRow = NoRow
  Keys = {k1}
  Accounts = {a1}
  AccountOf <- OneAccount
  IncludeRead = FALSE
  Configs <- ApplyOnly
  Outcomes <- NoRules
  PollAll = TRUE
  NotifyEnabled = TRUE
  MaxActivity = 2
  MaxFaults = 1
  MaxRequests = 2
SPECIFICATION Spec
PROPERTIES DismissedIsSilent NoNewsIsLost
