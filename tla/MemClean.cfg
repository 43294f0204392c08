SPECIFICATION Spec
CONSTANTS
  NULL = NULL
  Blocks = {b1, b2, b3}
  Slices = {s1, s2, s3}
  ClassSize <- MCClassSize
  PoolMin <- MCPoolMin
  ReadSize = 4
  Word = 64
  MaxBytes = 4
  NewSizes = {1, 2, 4}
  StrLens = {0, 1}
  StoreLens = {}
  PackSizes = {2}
  RawLens = {1}
  Lookups = {"found"}
SYMMETRY MCSymmetry
CHECK_DEADLOCK FALSE
INVARIANTS EveryBlockHasItsOwners SlicesStayInside NbytesWithinBlock
PROPERTY AppendTouchesNoOther
