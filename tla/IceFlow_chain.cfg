CONSTANTS
  p1 = p1  p2 = p2  c1 = c1  c2 = c2  e1 = e1  e2 = e2
  Nodes = {p1, c1, c2}
  Edges = {e1, e2}
  BackChannel = BackChannel
  Downstream <- ChainDown
  Upstream <- ChainUp
  MaxPartitions <- OnePartition
  Assignments <- ZeroOrNone
  Limits <- Everything
  MaxPushes = 1
  MaxOutputs = 1
  Uptime = 0
  MaxAge = 1
SPECIFICATION Spec
INVARIANT TypeOK
INVARIANT ErasedOnlyIfConsumed
INVARIANT AtMostOncePerConsumer
PROPERTY RepartitionEstablishes
PROPERTY RecentConsumptionIsCounted
PROPERTY EdgesDeliver
