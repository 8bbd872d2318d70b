\* Bodies up to the limit that Player::send tests.
SPECIFICATION FramingSpec
CONSTANTS
  Width = 8
  ReadSize = 2
  BodySizes = {1, 6}
  MaxPackets = 3
PROPERTY SentArrives
CHECK_DEADLOCK FALSE
