CONSTANTS
  p1 = p1  p2 = p2  c1 = c1  c2 = c2  e1 = e1  e2 = e2
  Nodes = {p1, c1, c2}
  Edges = {e1}
  BackChannel = BackChannel
  Downstream <- FanOutDown
  Upstream <- FanOutUp
  MaxPartitions <- TwoPartitions
  Assignments <- Split
  Limits <- RepartitionTwice
  MaxPushes = 2
  MaxOutputs = 0
  Uptime = 0
  MaxAge = 1
SPECIFICATION FairSpec
INVARIANT ConsumedByOne
INVARIANT SubscriptionsFollowRepartition
PROPERTY PushedIsEventuallyReleased
