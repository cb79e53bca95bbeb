CONSTANTS
  Thresholds = {0, 1, 3, 4}
  MaxFields = 6
  OpenResults = {TRUE, FALSE}
SPECIFICATION Spec
INVARIANT TypeOK
INVARIANT RecordedOnce
INVARIANT BufferIsBounded
CHECK_DEADLOCK FALSE
