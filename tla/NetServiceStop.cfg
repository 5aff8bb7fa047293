CONSTANTS
  Servers = {s1}
  Clients = {c1}
  AutoReconnect = TRUE
  MaxSessions = 2
  MaxStarts = 1
  MaxStops = 1
  MaxKicks = 0
  MaxRemoves = 0
  MaxFails = 1
SPECIFICATION Spec
PROPERTY StopIsFinal
CHECK_DEADLOCK FALSE
