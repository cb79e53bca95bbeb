CONSTANTS
  a = a  b = b  c = c  d = d  x = x  y = y
  Pushers = {a}
  DataPushers = {b, c, d}
  Poppers = {x, y}
  Capacity = 2
  Threshold <- MixedThresholds
  MaxPushes = 5
SPECIFICATION FairSpec
INVARIANT TypeOK
INVARIANT NoLostWakeup
PROPERTY IsFifoQueue
PROPERTY OnlyPushDisplaces
PROPERTY BlockedPushProgresses
PROPERTY ItemLeaves
CHECK_DEADLOCK FALSE
