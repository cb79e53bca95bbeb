CONSTANTS
  Edges = {e1}
  Upstream = {e1}
  Callers = {}
  CallbackThread = CallbackThread
  Modulus = 4
  Requests <- Halves
  Limits <- Released
SPECIFICATION FairSpec
PROPERTY ReportsAlwaysReturn
CHECK_DEADLOCK FALSE
