CONSTANTS
  Pids = {p1, p2, p3}
  Stages = 2
  Pipelines = 2
  MaxInterrupts = 2
SPECIFICATION FairSpec
INVARIANTS InterruptReachesItsOwn TrackedDoNotOutlive
PROPERTIES InterruptsEnd
CHECK_DEADLOCK FALSE
