CONSTANTS
  Pids = {p1, p2}
  Stages = 2
  Pipelines = 1
  MaxInterrupts = 1
SPECIFICATION Spec
INVARIANTS NoChildOutlives
CHECK_DEADLOCK FALSE
