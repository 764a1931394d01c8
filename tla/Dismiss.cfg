\* Two rows in two groups, three things done, dismissals included.
CONSTANTS
  k1 = k1
  k2 = k2
  g1 = g1
  g2 = g2
  None = None
  Keys = {k1, k2}
  GroupOf <- TwoGroups
  MaxPushed = 1
  MaxClicks = 3
  MaxActions = 3
SPECIFICATION RowFairSpec
CHECK_DEADLOCK FALSE
INVARIANTS
  HandledStaysHidden
  GraceHonoured
  MarkingIsHonest
  DialogIsOfRow
PROPERTY ToastEnds
