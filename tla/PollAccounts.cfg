\* Two accounts, the second of which a restarted poller may have lost.
CONSTANTS
  k1 = k1
  k2 = k2
  a1 = a1
  a2 = a2
  NoRow = NoRow
  Keys = {k1}
  Accounts = {a1, a2}
  AccountOf <- SecondAccount
  IncludeRead = FALSE
  Configs <- DropAccount
  Outcomes <- NoRules
  PollAll = TRUE
  NotifyEnabled = TRUE
  MaxActivity = 2
  MaxFaults = 2
  MaxRequests = 1
SPECIFICATION FairSpec
PROPERTIES
  KeepsContract
  RowsOutliveFailures
  Converges
