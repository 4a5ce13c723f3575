SPECIFICATION FairAsyncSpec
CONSTANTS
  Threads = {main, w1}
  MainThread = main
  Flags = {"normal", "idle"}
  MaxCalls = 8
  MaxCount = 3
  Width = 2
  Sliced = {1}
  SliceCount = 3
  MaxEvaluations = 2
  MaxPending = 1
  Nobody = nobody
PROPERTY
  EvaluationsFinish
CHECK_DEADLOCK FALSE
