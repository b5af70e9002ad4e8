SPECIFICATION MCSpec
CONSTANTS
  Files = {"agent", "lib"}
  Main = "agent"
  MaxOrders = 2
  MaxCrashes = 1
  MaxLate = 1
  Pages = {page}
  MaxAge = 3
  IdleFor = 2
  Grace = 1
  MaxRelay = 2
  MaxRestarts = 2
  Sizes = {"s", "t", "u"}
  MaxScale = 2
  MaxRefits = 3
  MaxDeaths = 2
  MaxScaled = 2
  MaxCopies = 4
  MaxServers = 2
  Images = {2}
  Calm = FALSE
  MaxFails = 2
  Keys = {key, other}
  MaxEvents = 6
  MaxSlot = 4
  MaxFaults = 4
  MaxTroubles = 2
  EscalationLimit = 2
  Strikes = 2
CHECK_DEADLOCK FALSE
INVARIANTS RelayIsMetered SeatIsLive ClipboardIsCurrent NoKeyStuck ProcessesAreCurrent
PROPERTIES KeepsContract RowConverges SidesMeet SeatComesBack
