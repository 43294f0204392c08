SPECIFICATION Spec
CONSTANTS
  NULL = NULL
  Workers = {w1, w2}
  Addrs = {a1, a2, u1}
  TcpAddrs = {a1, a2}
  Keys = {k1}
  Exits = {"done"}
  MaxReq = 2
SYMMETRY MCSymmetry
CHECK_DEADLOCK FALSE
INVARIANTS TypeOK HelloComesFirst BroadcastsInOrder CallbacksAreAwaited OneSocketPerAddress
