SPECIFICATION Spec
CONSTANTS
  i1 = i1
  i2 = i2
  b1 = b1
  b2 = b2
  b3 = b3
  b4 = b4
  n1 = n1
  n2 = n2
  p1 = p1
  NoBox = NoBox
  NoProfile = NoProfile
  MaxRequests = 2
  NewBox <- NewBoxes
  Instances <- OneInstance
  Boxes <- ThreeBoxes
  Name <- OneName
  Profile <- OneProfile
  FirstBox <- OneFirstBox
  MaxCrashes = 0
  MaxFaults = 0
INVARIANT DeletedHasNoBox
CHECK_DEADLOCK FALSE
