\* A rule's dismiss action on a thread that is already stored.
CONSTANTS
  k1 = k1
  k2 = k2
  a1 = a1
  a2 = a2
  NoRow = NoRow
  Keys = {k1}
  Accounts = {a1}
  AccountOf <- OneAccount
  IncludeRead = FALSE
  Configs <- DryThenApply
  Outcomes <- AllRules
  PollAll = TRUE
  NotifyEnabled = TRUE
  MaxActivity = 2
  MaxFaults = 1
  MaxRequests = 1
SPECIFICATION Spec
INVARIANT DismissActionHides
