SPECIFICATION FairSpec
CONSTANTS
  Threads = {main, w1, w2}
  MainThread = main
  Flags = {"normal", "idle", "main"}
  MaxCalls = 2
  MaxCount = 2
INVARIANTS
  TypeOK
PROPERTIES
  ImplementsParallelCalls
  JoinReturns
  AsyncFinishes
  TerminateReturns
CHECK_DEADLOCK FALSE
