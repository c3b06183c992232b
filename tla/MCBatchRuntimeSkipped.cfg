SPECIFICATION Spec
CONSTANTS
  N = 2
  WorkerId = {1, 2, 3, 4}
  WorkerCount = 2
  NoWorker = 0
  StaleAfter = 1
  MaxErrors = 1
INVARIANT
  CleanExitCoversInputs
CHECK_DEADLOCK FALSE
