SPECIFICATION FairSpec
CONSTANTS
  None = None
  t1 = t1
  t2 = t2
  Tasks = {t1, t2}
  Workloads <- MCWorkloads
  MaxFd = 2
  CanFail = {"stat", "open", "read", "dns"}
CHECK_DEADLOCK FALSE
INVARIANTS HoldersAreHeld AnsweredAsAsked DescriptorsAreClosed
PROPERTY CallsAreAnswered
