\* By hand, with -continue: undo while the call is under way, a second dismissal
\* while it is, and a snapshot that was read before the dismissal and arrives
\* after one that was read later.
CONSTANTS
  k1 = k1
  k2 = k2
  g1 = g1
  g2 = g2
  None = None
  Keys = {k1, k2}
  GroupOf <- TwoGroups
  MaxPushed = 1
  MaxClicks = 2
  MaxActions = 3
SPECIFICATION RowSpec
CHECK_DEADLOCK FALSE
INVARIANTS
  UndoneIsKept
  ScheduledIsUndoable
  NeverFlashesBack
