CONSTANTS
  n1 = n1  n2 = n2  l1 = l1  l2 = l2  long = long  k1 = k1  k2 = k2
  Calls = {n1, n2, l1, l2, long}  LocalCalls = {l1, l2}  Conns = {k1, k2}
  Size <- MCSize
  MaxQueued = 2  MaxBytes = 2  ParkTimeout = 1
  MaxStarts = 2  Faults = {"listener", "throw"}
  NoCall = NoCall  NoConn = NoConn
SPECIFICATION MCSpec
INVARIANTS RepliesReachTheirCaller EveryCallInOnePlace ServerIsSound
PROPERTIES BusyOnlyAfterTimeout
