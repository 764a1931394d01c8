\* Expected to fail: a URL that names no configured dashboard is never replaced.
CONSTANTS
  a = a
  b = b
  None = None
  Default = Default
  Names = {a, b}
  NamesAt <- Reordered
  HasStream = TRUE
  MaxVersion = 2
  MaxSwitches = 0
  MaxFaults = 0
  MaxPushed = 1
SPECIFICATION FairSpec
PROPERTY UnknownFallsBack
