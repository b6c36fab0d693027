CONSTANTS
  Clients = {c1, c2}
  Fds = {f1, f2, f3}
  PathRaces = FALSE
  Free = Free
  Listener = Listener
  OtherFile = OtherFile
SPECIFICATION FairSpec
INVARIANTS StopReachesItsOwn ReturnLeavesNothing
PROPERTIES StopEnds
CHECK_DEADLOCK FALSE
