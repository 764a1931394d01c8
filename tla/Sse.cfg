\* Two connections on one dashboard, a writer and a failing query.
CONSTANTS
  s1 = s1
  s2 = s2
  Nobody = Nobody
  Streams = {s1, s2}
  Ttl = 2
  MaxWrites = 1
  MaxFailures = 1
SPECIFICATION FairStreamSpec
INVARIANT LoneTickIsCurrent
PROPERTIES
  NeverGoesBack
  OneReadPerInterval
  Delivered
