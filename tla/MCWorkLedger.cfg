SPECIFICATION FairSpec
CONSTANTS
  Item = {1, 2, 3}
  Worker = {1, 2}
  Thief = {1, 2}
  Mortal = {1}
  MaxStealBatch = 2
  MaxCopies <- MCOnce
  MaxClock = 1
  MaxRestarts = 1
  Random = {0, 1}
INVARIANTS
  Inv
PROPERTIES
  DoneIsTerminal
  AckOnlyByOwner
  ImplementsClaims
  EnqueuedEventuallyDone
CHECK_DEADLOCK FALSE
