SPECIFICATION MachineSpec
CONSTANTS
  main = main
  worker = worker
  Threads = {main, worker}
  Leader = main
  Program <- MCProgram
  Points <- MCPoints
  Entry = 2
  Worker = 6
  Configurable <- MCConfigurable
  MaxDisturbances = 1
  ByteBits = 3
  Labels = {"L"}
  MaxTokens = 8
  LabelNames = {"L", "sp"}
  Reserved = {"sp"}
  EntryName = "M"
  Interpreted = {"L"}
  Native = {"q"}
  References = {"L", "q", "gone"}
  Kinds = {"object", "raw"}
  Switches = {"data"}
  Capacity = 8
  MaxStatements = 3
INVARIANTS
  StoppedWorldIsTrue
  BreakpointsHold
  AssemblesWhatIsWritten
  OperandsMean
  AssemblyMeans
PROPERTIES
  SignalsSurvive
  ControlReturns

CHECK_DEADLOCK FALSE
