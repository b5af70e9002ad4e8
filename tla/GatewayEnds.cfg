SPECIFICATION Spec
CONSTANTS
  v1 = v1
  v2 = v2
  v3 = v3
  s1 = s1
  s2 = s2
  s3 = s3
  s4 = s4
  None = None
  Vids <- MCTabs
  Shared = {}
  Socks <- MCTwoSocks
  TabOf <- MCTwoTabOf
  Sizes <- MCSizes
  Scales <- MCScales
  FirstWindow <- MCFirstWindow
  FirstSize = "small"
  FirstScale = "x1"
  MaxEvents = 1
CHECK_DEADLOCK FALSE
PROPERTIES
  GeometryConverges
