SPECIFICATION FairSpec
CONSTANTS
  NULL = NULL
  Workers = {w1, w2}
  Addrs = {a1}
  TcpAddrs = {a1}
  Keys = {k1}
  Exits = {"done", "failed", "segfault"}
  MaxReq = 1
CHECK_DEADLOCK FALSE
INVARIANT FailuresAreReported
PROPERTIES RequestsAreAnswered BroadcastsAreHeard DeadWorkersAreForgotten
