CONSTANTS
  Threads = {t1, t2}
  MaxRuns = 3
  MaxEvents = 2
SPECIFICATION FairSpec
INVARIANT LoopsAreJoined
INVARIANT RunningHasLoop
PROPERTY ShutdownEndsLoops
PROPERTY EventsAreHandled
