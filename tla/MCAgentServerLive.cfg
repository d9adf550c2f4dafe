CONSTANTS
  n1 = n1  l1 = l1  k1 = k1
  NoCall = NoCall  NoConn = NoConn
  Calls = {n1, l1}
  LocalCalls = {l1}
  Conns = {k1}
  Size <- MCSize
  MaxQueued = 2
  MaxBytes = 2
  ParkTimeout = 1
  MaxStarts = 2
  Faults = {"listener", "dialog"}
SPECIFICATION LiveSpec
PROPERTIES StopReturns CallsAreAnswered
