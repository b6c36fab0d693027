SPECIFICATION FairSpec
CONSTANTS
  Commands = 3
  Typing = {1, 2}
  Interrupts = 2
  Needs <- NeedsDefinition
INVARIANTS ReplyIsMine InputReachesItsOwn
PROPERTIES CommandsAnswered LeavingCloses
CHECK_DEADLOCK FALSE
