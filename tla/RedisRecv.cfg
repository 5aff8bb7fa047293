CONSTANTS
  INT_MAX = 4
  RecvBufSize = 8
  CutElements = FALSE
  MaxReplies = 2
  MaxLine = 3
  MaxPayload = 2
  MaxElements = 2
SPECIFICATION Spec
INVARIANTS TypeOK RepliesIntact ThrowsOnlyOnUnfit BufferFilled RoomToRead
CHECK_DEADLOCK FALSE
