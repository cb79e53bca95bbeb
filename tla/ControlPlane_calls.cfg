CONSTANTS
  Edges = {e1, e2}
  Upstream = {e1}
  Callers = {main}
  CallbackThread = CallbackThread
  Modulus = 3
  Requests <- Ranges
  Limits <- Everything
SPECIFICATION FairSpec
INVARIANT TypeOK
INVARIANT BoundsAreCurrent
PROPERTY ReportsReturn
PROPERTY StopCompletes
PROPERTY CallsReturn
CHECK_DEADLOCK FALSE
