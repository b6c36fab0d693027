SPECIFICATION CompiledSpec
CONSTANTS
  MaxCalls = 4
  Outcomes = {0, 1}
  RegisterArguments = 1
  MaxArena = 7
  MaxDepth = 3
  MaxTransactions = 1
  MaxBytes = 6
  MaxKeys = 4
INVARIANTS
  DefersRun
CHECK_DEADLOCK FALSE
