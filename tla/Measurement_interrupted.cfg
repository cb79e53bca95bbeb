CONSTANTS
  Thresholds = {3}
  MaxFields = 4
  OpenResults = {TRUE}
SPECIFICATION Spec
INVARIANT ExitSavesEverything
CHECK_DEADLOCK FALSE
