CONSTANTS
  INT_MAX = 4
  RecvBufSize = 8
  CutElements = TRUE
  MaxReplies = 2
  MaxLine = 3
  MaxPayload = 1
  MaxElements = 2
SPECIFICATION Spec
INVARIANT LengthLine
CHECK_DEADLOCK FALSE
