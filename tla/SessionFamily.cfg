SPECIFICATION Spec
CONSTANTS
  u1 = u1
  u2 = u2
  t1 = t1
  t2 = t2
  t3 = t3
  r1 = r1
  r2 = r2
  r3 = r3
  NoToken = NoToken
  Users <- TwoUsers
  Tokens <- ThreeTokens
  SignedIn <- OneSession
  Requests <- ThreeRequests
INVARIANTS
  OneLiveToken
  EndedStaysDead
  SessionUnbroken
SYMMETRY Symmetry
CHECK_DEADLOCK FALSE
