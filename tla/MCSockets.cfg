SPECIFICATION Spec
CONSTANTS
  FDS = 2
  MAX_SOCKETS = 2
  PcbTables = {1, 2}
  Nodes = {n1, n2}
  Blocks = {b1, b2}
  Hosts = {h1}
  Ports = {80}
  FirstPort = 10000
  LastPort = 10000
SYMMETRY HeapSymmetry
INVARIANTS
  DescriptorsSound
  SlotsAccounted
  PcbOwned
