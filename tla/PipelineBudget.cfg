\* GitHub fails to answer; the run ends.
CONSTANTS
  a = a
  b = b
  Accounts = {a, b}
  Items <- MCItems
  MaxRequests = 2
SPECIFICATION Spec
CHECK_DEADLOCK FALSE
INVARIANT SentWithinBudget
