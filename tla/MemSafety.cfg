SPECIFICATION Spec
CONSTANTS
  NULL = NULL
  Blocks = {b1, b2, b3}
  Slices = {s1, s2}
  ClassSize <- MCClassSize
  PoolMin <- MCPoolMin
  ReadSize = 4
  Word = 64
  MaxBytes = 4
  NewSizes = {0, 1, 2}
  StrLens = {1}
  StoreLens = {1}
  PackSizes = {2}
  RawLens = {0, 1}
  Lookups = {"found", "unknown"}
SYMMETRY MCSymmetry
CHECK_DEADLOCK FALSE
INVARIANTS TypeOK OwnedBlocksAreHeld FreeListsAreSound
