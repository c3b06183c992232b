SPECIFICATION FairSpec
CONSTANTS
  Proc = {p1, p2}
  Spot = {p2}
  Task = {a1, a2, b1}
  Client <- MCClient
  p1 = p1
  p2 = p2
  a1 = a1
  a2 = a2
  b1 = b1
  Msg = {m1}
  NoMsg = NoMsg
  Providers = {"sqs", "pubsub"}
  Plans = {"skip", "save"}
  MaxFaults = 2
INVARIANTS Inv
PROPERTY EveryMessageSettles
CHECK_DEADLOCK FALSE
