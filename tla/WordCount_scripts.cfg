CONSTANTS
  Text <- ShortText
  Lower <- LowerCase
  MaxPartitions <- DAGPartitions
  Instances = {1,2}
SPECIFICATION FairSpec
PROPERTY EveryWordIsCounted
CHECK_DEADLOCK FALSE
