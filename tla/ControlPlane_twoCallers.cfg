CONSTANTS
  Edges = {e1}
  Upstream = {e1}
  Callers = {main, other}
  CallbackThread = CallbackThread
  Modulus = 4
  Requests <- Halves
  Limits <- TwoCalls
SPECIFICATION Spec
INVARIANT BoundsAreAlwaysCurrent
