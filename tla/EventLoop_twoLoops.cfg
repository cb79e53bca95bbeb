CONSTANTS
  Threads = {t1, t2}
  MaxRuns = 2
  MaxEvents = 0
SPECIFICATION Spec
INVARIANT AtMostOneLoop
