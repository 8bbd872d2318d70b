SPECIFICATION Spec
CONSTANTS
  Gates = {1, 2}
  TransIDs = {1, 2}
  IdWidth = 4
  MaxMessages = 4
INVARIANT EchoToAsker
CHECK_DEADLOCK FALSE
