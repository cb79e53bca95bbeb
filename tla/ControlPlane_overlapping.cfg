CONSTANTS
  Edges = {e1, e2}
  Upstream = {e1}
  Callers = {main}
  CallbackThread = CallbackThread
  Modulus = 3
  Requests <- Ranges
  Limits <- Overlapping
SPECIFICATION Spec
INVARIANT TypeOK
INVARIANT BoundsAreCurrent
CHECK_DEADLOCK FALSE
