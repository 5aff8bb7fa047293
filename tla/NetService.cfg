CONSTANTS
  Servers = {s1}
  Clients = {c1}
  AutoReconnect = TRUE
  MaxSessions = 3
  MaxStarts = 2
  MaxStops = 0
  MaxKicks = 1
  MaxRemoves = 0
  MaxFails = 1
SPECIFICATION Spec
INVARIANTS TypeOK EventsTellState
CHECK_DEADLOCK FALSE
