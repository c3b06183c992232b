SPECIFICATION FairSpec
CONSTANTS
  Worker = {w1}
  Interval = 2
  Skew = 1
  Timeout = 3
  LastBeat = 3
  MaxClock = 12
  Fragile = {w1}
  MaxRestarts = 2
INVARIANTS
  Inv
PROPERTIES
  NoFalseAlarm
  DeadIsReported
CHECK_DEADLOCK FALSE
