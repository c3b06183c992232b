SPECIFICATION FairSpec
CONSTANTS
  N = 2
  WorkerId = {1, 2, 3, 4}
  WorkerCount = 2
  NoWorker = 0
  StaleAfter = 0
  MaxErrors = 1
INVARIANTS
  Inv
  NothingForgotten
  OutputIsSound
PROPERTIES
  ImplementsClaims
  EveryInputSettles
CHECK_DEADLOCK FALSE
