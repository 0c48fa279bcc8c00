SPECIFICATION FairSpec
CONSTANTS
  SOCKET_BUFFER_SIZE = 2
  DATA = 3
  SENDS = 1
  Lengths = {1, 3}
  Unreliable = FALSE
  FAULTS = 0
CHECK_DEADLOCK FALSE
INVARIANT
  StreamIsPrefix
PROPERTIES
  CallsReturn
  ClosedPcbFreed
