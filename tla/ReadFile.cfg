SPECIFICATION Spec
CONSTANTS
  None = None
  t1 = t1
  t2 = t2
  Tasks = {t1, t2}
  Workloads <- MCCoroutines
  MaxFd = 2
  CanFail = {}
CHECK_DEADLOCK FALSE
INVARIANT ReadFileSucceeds
