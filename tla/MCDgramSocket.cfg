SPECIFICATION FairSpec
CONSTANTS
  SOCKET_BUFFER_SIZE = 8
  Packets <- MCPackets
  Lengths = {0, 2, 4}
INVARIANTS
  RingAgrees
PROPERTIES
  ImplementsQueue
  RecvReturns
