SPECIFICATION Spec
CONSTANTS
  Threads = {io, main}
  IoThread = io
  MsgSizes = {0, 2}
  MaxMsgs = 2
  MaxStream = 4
  FirstSize = 2
  GrowStep = 1
  MaxRecvBuf = 3
INVARIANT WrittenInOrder
INVARIANT UnreadIntact
PROPERTY AttemptReported
PROPERTY QueuedIsWritten
PROPERTY StreamIsDelivered
CHECK_DEADLOCK FALSE
