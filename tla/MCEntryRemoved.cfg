SPECIFICATION Spec
CONSTANTS
  INODES = 3
  BLOCKS = 3
  SLOTS = 2
  PER_BLOCK = 2
  PER_SECTOR = 2
  Names = {a, b}
  Values = {v1, v2}
  MAX_COUNT = 3
INVARIANTS
  NamesResolve
SYMMETRY Interchangeable
