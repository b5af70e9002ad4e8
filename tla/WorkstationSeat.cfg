SPECIFICATION Spec
CONSTANTS
  u1 = u1
  u2 = u2
  NoUser = NoUser
  Users <- MCUsers
  Admins <- MCAdmins
  First = NoUser
  Removable <- MCRemovable
  MaxRequests = 2
  MaxBeats = 2
  MaxLost = 1
  MaxEvents = 3
INVARIANTS
  OneOpenSession
PROPERTIES
  LogSettles
  SeatFreed
