\* Bodies up to Width - ReadSize - MsgHeaderSize, the largest that always fit,
\* and one that Player::send refuses.
SPECIFICATION FramingSpec
CONSTANTS
  Width = 8
  ReadSize = 3
  BodySizes = {0, 1, 2, 3, 8}
  MaxPackets = 4
INVARIANT BufferBounded
INVARIANT PingsAnswered
PROPERTY ImplementsChannel
CHECK_DEADLOCK FALSE
