SPECIFICATION Spec
CONSTANTS
  HEAP_SIZE = 40
  Header = 4
  Align = 2
  Requests = {0, 1, 3, 8}
INVARIANTS
  Tiled
  ListInOrder
  Coalesced
  NoOverlap
  DoubleFreeSeen
PROPERTY
  ImplementsContract
VIEW HeapView
