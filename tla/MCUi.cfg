SPECIFICATION Spec
CONSTANTS
  Chars = {"x", "y"}
  BUFFER_SIZE = 3
  HISTORY_MAX = 2
  KBD_BUF_SIZE = 3
  WIDTH = 3
  Inodes = {0, 1, 2}
  Names = {"a", "b"}
  ENTRIES = 2
  DEPTH = 3
  WindowBlocks = {w1, w2, w3}
SYMMETRY BlockSymmetry
CONSTRAINT Focus
INVARIANTS
  PromptShowsLine
  KeysInOrder
  CwdResolves
  WindowsSound
