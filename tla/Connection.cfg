CONSTANTS
  SendBufSize = 2
  BlockLens = {1, 2}
  AutoReconnect = TRUE
  MaxBytes = 3
  MaxStarts = 2
  MaxKicks = 1
  MaxReads = 1
  MaxFails = 1
SPECIFICATION Spec
INVARIANTS TypeOK WireInOrder EventOrder HeldUntilClosePolled
PROPERTIES FlushBeforeClose ImplementsStream
CHECK_DEADLOCK FALSE
