SPECIFICATION PmmSpec
CONSTANTS
  MAX_FRAMES = 9
  LOW_FRAMES = 2
  SEARCH_LIMIT = 7
  KernelStart = 3
  KernelEnd = 4
  Counts = {1, 2, 3}
INVARIANTS
  CountExact
  Accounted
  OwnedUsable
  ScanFindsLowest
