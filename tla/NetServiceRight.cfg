CONSTANTS
  Servers = {s1}
  Clients = {}
  AutoReconnect = TRUE
  MaxSessions = 3
  MaxStarts = 2
  MaxStops = 1
  MaxKicks = 0
  MaxRemoves = 0
  MaxFails = 0
SPECIFICATION Spec
INVARIANT RightConnection
CHECK_DEADLOCK FALSE
