CONSTANTS
  Thresholds = {3}
  MaxFields = 4
  OpenResults = {FALSE}
SPECIFICATION Spec
INVARIANT ExitSavesEverything
CHECK_DEADLOCK FALSE
