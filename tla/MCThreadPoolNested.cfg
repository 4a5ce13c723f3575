SPECIFICATION Spec
CONSTANTS
  Threads = {main, w1, w2}
  MainThread = main
  Flags = {"normal", "main"}
  MaxCalls = 3
  MaxCount = 2
SYMMETRY WorkerSymmetry
INVARIANTS
  Accounting
  NoDanglingTask
  NoLostWakeup
  NoJoinDeadlock
PROPERTY
  JoinIsABarrier
CHECK_DEADLOCK FALSE
