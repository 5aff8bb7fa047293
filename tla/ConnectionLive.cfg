CONSTANTS
  SendBufSize = 1
  BlockLens = {1, 2}
  AutoReconnect = TRUE
  MaxBytes = 3
  MaxStarts = 1
  MaxKicks = 1
  MaxReads = 0
  MaxFails = 1
SPECIFICATION FairSpec
PROPERTIES EventuallySent KickCloses LossReported
CHECK_DEADLOCK FALSE
