CONSTANTS
  HeadLen = 2
  RecvBufSize = 3
  StreamLen = 8
  MaxFrame = 6
  SessionIds = {0, 3}
  PushLens = {0, 1, 2}
  MaxPushes = 2
  MaxMessages = 3
SPECIFICATION MessagesSpec
INVARIANTS TypeOK FramesIntact NothingHeldBack RoomToRead MessagesDelivered
PROPERTY ImplementsFrames
CHECK_DEADLOCK FALSE
