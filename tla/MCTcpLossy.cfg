SPECIFICATION FairSpec
CONSTANTS
  SOCKET_BUFFER_SIZE = 1
  DATA = 1
  SENDS = 1
  Lengths = {1}
  Unreliable = TRUE
  FAULTS = 1
CHECK_DEADLOCK FALSE
INVARIANTS
  AcksOnlySent
  ConnectionAgreed
PROPERTY
  NothingAfterClose
