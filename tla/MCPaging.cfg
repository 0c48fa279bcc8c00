SPECIFICATION Spec
CONSTANTS
  MAX_FRAMES = 16
  LOW_FRAMES = 1
  SEARCH_LIMIT = 32
  KernelStart = 1
  KernelEnd = 2
  Counts = {2}
  TABLE = 8
  DIRECTORY = 6
  KERNEL_PDE = 2
  RX_PAGE = 32
  TX_PAGE = 36
  RX_FRAMES = 2
  TX_FRAMES = 2
  PAGE = 2
  HEAP_START = 26
  Programs <- MCPrograms
  Increments <- MCIncrements
  Breaks <- MCBreaks
  Totals = {3, 4, 15, 16}
  Holes <- MCHoles
INVARIANTS TablesReachable FramesExclusive
PROPERTY HeapKept
