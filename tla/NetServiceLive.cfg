CONSTANTS
  Servers = {s1}
  Clients = {}
  AutoReconnect = TRUE
  MaxSessions = 2
  MaxStarts = 1
  MaxStops = 1
  MaxKicks = 1
  MaxRemoves = 1
  MaxFails = 1
SPECIFICATION FairSpec
PROPERTIES SetStopCloses ClosedIsForgotten KeepsAccepting
CHECK_DEADLOCK FALSE
