CONSTANTS
  Edges = {e1}
  Upstream = {e1}
  Callers = {}
  CallbackThread = CallbackThread
  Modulus = 4
  Requests <- Halves
  Limits <- OneReport
SPECIFICATION Spec
PROPERTY ReportsAreDelivered
