SPECIFICATION MCSpec
CONSTANTS
  Desks = {"d1", "d2"}
  Stations = {"w1"}
  Apps = {"a1", "a2"}
  Segment <- MCSegment
  Longer <- MCLonger
  ExtraPorts = {"d1"}
  Focus = {"a2"}
  Native = {"a1"}
  Denied = {"w1"}
  Refreshers = {"r1", "r2"}
  Lan = TRUE
  MaxEvents = 3
  Addresses = {"home", "cafe"}
  Threshold = 2
  Duration = 2
  GlobalThreshold = 2
  Gap = 2
  MaxFails = 4
  MaxCardGuesses = 1
  BanAddresses = {"home"}
  BanThreshold = 2
  BanWindow = 2
  BanDuration = 3
  CacheTtl = 2
  Checks = {"c", "d"}
  Redeemers = {"p", "q"}
  Invites = {"i"}
  Enrolls = {"e", "f"}
  SetupRequests = {"p", "q"}
  MaxCodes = 3
  Identities = {"i", "j"}
  Callers = {"r", "s"}
  MaxAccounts = 2
INVARIANTS
  RoutingIsRight
  GuessesAreBounded
  BanIsKnown
  MadeOnce
  AccountsAreWhole
CHECK_DEADLOCK FALSE
