SPECIFICATION FramingSpec
CHECK_DEADLOCK FALSE
CONSTANTS
  Lengths = {0, 1, 3, 6}
  MAX_FRAME_SIZE = 3
  MaxMessages = 3
  LENGTH_SIZE = 2
  BYTE = 3
  GROUP = 3
  LENGTH_GROUPS = 2
INVARIANTS
  MessagesAreWhole
PROPERTIES
  MessagesArrive
