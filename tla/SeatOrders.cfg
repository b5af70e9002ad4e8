SPECIFICATION Spec
CONSTANTS
  u1 = u1
  u2 = u2
  NoUser = NoUser
  Users <- MCUsers
  Admins <- MCAdmins
  First = u1
  Removable <- MCRemovable
  MaxRequests = 3
  MaxBeats = 1
  MaxLost = 0
  MaxEvents = 3
PROPERTIES
  DropsArrive
