CONSTANTS
  Text <- ShortText
  Lower <- LowerCase
  MaxPartitions <- DAGPartitions
  Instances = {0,1}
SPECIFICATION FairSpec
INVARIANT NeverOvercounted
INVARIANT CompleteUnlessLost
PROPERTY EveryWordIsCounted
CHECK_DEADLOCK FALSE
