CONSTANTS
  c1 = c1  c2 = c2  c3 = c3
  Calls = {c1, c2, c3, c4, c5, c6, c7, c8, c9, c10}
  NoCall = NoCall
  LineBytes <- MCLineBytes
  CallBytes <- MCCallBytes
  IdBytes <- MCIdBytes
  ResultBytes = {1, 4}
  MaxItems = 4
  MaxPayload = 7
  MaxDataPayload = 2
  MaxCompletion = 5
  FailureBytes = 1
  MaxTracked = 7
  MaxIdBytes = 2
  MaxOthers = 2
  c4 = c4  c5 = c5  c6 = c6  c7 = c7  c8 = c8  c9 = c9  c10 = c10
  Few = {c1, c2, c3}  Many = {c4, c5, c6, c7, c8, c9, c10}
  Names = {n1}  Simulators = {s1, s2}  Release <- MCRelease  Lines <- MCLines  Ports = {1, 2}
  LinkCalls = 2  LinkTasks = 1  LinkQueued = 1  LinkStarts = 2
  s1 = s1  s2 = s2  n1 = n1
  NoName = NoName  BadName = BadName  Nobody = Nobody
SPECIFICATION MCSpec
INVARIANTS DoneEventsFit OneReplyPerCall QueuesAreSound CallsReachTheirSimulator
PROPERTIES NoReplyAfterCancel BridgeReturns CallsAreServed
\* A bridge that is stuck shows as a property that fails.
CHECK_DEADLOCK FALSE
