CONSTANTS
  p1 = p1  p2 = p2  c1 = c1  c2 = c2  e1 = e1  e2 = e2
  Nodes = {p1, p2, c1}
  Edges = {e1}
  BackChannel = BackChannel
  Downstream <- FanInDown
  Upstream <- FanInUp
  MaxPartitions <- OnePartition
  Assignments <- OnlyZero
  Limits <- AssignOnce
  MaxPushes = 1
  MaxOutputs = 0
  Uptime = 0
  MaxAge = 1
SPECIFICATION Spec
INVARIANT ErasedOnlyIfConsumed
