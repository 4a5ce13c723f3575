SPECIFICATION FairAsyncSpec
CONSTANTS
  Threads = {main, w1}
  MainThread = main
  Flags = {"normal", "idle"}
  MaxCalls = 10
  MaxCount = 5
  Width = 2
  Sliced = {0, 1}
  SliceCount = 9
  MaxEvaluations = 2
  MaxPending = 2
  Nobody = nobody
INVARIANTS
  EvaluationOrdered
  ContextHeld
  SlicesRunOnce
PROPERTY
  FinishUnlessBuried
CHECK_DEADLOCK FALSE
