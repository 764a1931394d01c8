\* One thread, every interleaving of poll cycle, requests and GitHub activity.
CONSTANTS
  k1 = k1
  k2 = k2
  a1 = a1
  a2 = a2
  NoRow = NoRow
  Keys = {k1}
  Accounts = {a1}
  AccountOf <- OneAccount
  IncludeRead = FALSE
  Configs <- DryThenApply
  Outcomes <- ActingRules
  PollAll = TRUE
  NotifyEnabled = TRUE
  MaxActivity = 2
  MaxFaults = 1
  MaxRequests = 1
SPECIFICATION Spec
INVARIANTS
  TypeOK
  HiddenOnlyAfterDelete
  ReadRowIsRead
  NewsIsAnnounced
  RepeatsOnlyAfterLateMark
PROPERTIES
  DismissedStays
