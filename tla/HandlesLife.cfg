SPECIFICATION FairSpec
CONSTANTS
  CloseWhen = {"started"}
  MaxKept = 4
  MaxReqs = 3
CHECK_DEADLOCK FALSE
INVARIANTS TypeOK RefCountIsExact ActiveIsReferenced
PROPERTIES CloseCompletes IsObject
