\* Any answers from GitHub under a budget that may run out; the run ends.
CONSTANTS
  a = a
  b = b
  Accounts = {a, b}
  Items <- MCItems
  MaxRequests = 6
SPECIFICATION Spec
CHECK_DEADLOCK FALSE
INVARIANTS
  OwnToken
  EachAnswerPaidOnce
  ErrorsStayLocal
