\* Expected to fail: with a stream and a poller at rest, a fetch answered before a
\* push and handled after it leaves the older snapshot.
CONSTANTS
  a = a
  b = b
  None = None
  Default = Default
  Names = {a, b}
  NamesAt <- Reordered
  HasStream = TRUE
  MaxVersion = 1
  MaxSwitches = 0
  MaxFaults = 0
  MaxPushed = 1
SPECIFICATION ClientFairSpec
PROPERTY ShowsLatest
