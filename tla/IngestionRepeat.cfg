\* Expected to fail: a thread pushed onto the next page is announced twice.
CONSTANTS
  k1 = k1
  k2 = k2
  k3 = k3
  Keys = {k1, k2, k3}
  NoRow = NoRow
  Accounts <- OneAccount
  AccountOf <- AllPrimary
  IncludeRead = FALSE
  PollAll = TRUE
  PerPage = 1
  MaxPages = 2
  MaxAttempts = 3
  MaxActivity = 3
  FirstInboxes <- TwoListed
  MaxFaults = 1
SPECIFICATION Spec
INVARIANT NeverRepeats
