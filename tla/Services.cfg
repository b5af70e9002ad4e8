SPECIFICATION MCSpec
CONSTANTS
  Captures = {"loop", "refresh"}
  Users = {"u", "v"}
  Home = "home"
  MaxStops = 1
  Handlers = {"h"}
  Waiters = {"w", "x"}
  Timeout = 1
  FATAL_GRACE = 0
  MaxOps = 2
  MaxCrashes = 1
  Fetches = {"f"}
  Forms = {"e"}
  MaxEdits = 2
  MaxFlips = 1
  Ips = {"p", "q"}
  Threads = {"s", "t"}
  _POD_TTL = 3
  _POD_RETRY = 1
  _POD_REFRESH = 2
  MaxPodMoves = 2
  Images = {"a", "b"}
  Syncs = {"s", "t"}
  MaxChanges = 1
  MaxFails = 2
  Declared = {"shared"}
  Filled = {"tls_skip_verify"}
  Nullable = {"owner_id"}
  PathApps = {"p"}
  FocusApps = {"f", "g"}
  OwnLogin = {}
  NoApp = NoApp
  MaxVisits = 3
INVARIANTS
  NetsAreKept
  ReadyIsNew
  ChosenStays
  PodIsNoClient
  RowsAreWhole
  ShellIsTrue
PROPERTIES
  LoopsCatchUp
  NavigationEnds
CHECK_DEADLOCK FALSE
