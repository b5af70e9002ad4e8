SPECIFICATION Spec
CONSTANTS
  v1 = v1
  v2 = v2
  v3 = v3
  s1 = s1
  s2 = s2
  s3 = s3
  s4 = s4
  None = None
  Vids <- MCVids
  Shared <- MCShared
  Socks <- MCSocks
  TabOf <- MCTabOf
  Sizes <- MCSizes
  Scales = {"x1"}
  FirstWindow <- MCFirstWindow
  FirstSize = "small"
  FirstScale = "x1"
  MaxEvents = 0
CHECK_DEADLOCK FALSE
INVARIANTS
  OwnerIsKnown
