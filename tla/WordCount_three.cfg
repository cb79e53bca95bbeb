CONSTANTS
  Text <- ShortText
  Lower <- LowerCase
  MaxPartitions <- DAGPartitions
  Instances = {0,1,2}
SPECIFICATION FairSpec
INVARIANT NeverOvercounted
CHECK_DEADLOCK FALSE
