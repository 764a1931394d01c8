\* Two dashboards whose order changes, a stream that may break, refreshes at
\* any moment, two selections or steps through the history.
CONSTANTS
  a = a
  b = b
  None = None
  Default = Default
  Names = {a, b}
  NamesAt <- Reordered
  HasStream = TRUE
  MaxVersion = 2
  MaxSwitches = 2
  MaxFaults = 1
  MaxPushed = 1
SPECIFICATION FairSpec
INVARIANTS
  NoRefreshLost
  SpinnersEnd
PROPERTIES
  UrlNamesShown
  FallbackCatchesUp
