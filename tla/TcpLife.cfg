SPECIFICATION FairSpec
CONSTANTS
  MaxChunks = 2
  MaxWrites = 4
  CloseWhen = {"open"}
  WriteWhen = {"open"}
CHECK_DEADLOCK FALSE
INVARIANTS TypeOK RefCountIsExact StringsAreOwned WireInOrder
PROPERTIES CloseCompletes IsObject
