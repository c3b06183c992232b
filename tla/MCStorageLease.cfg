SPECIFICATION LeaseFairSpec
CONSTANTS
  Coord = {c1, c2}
  None = None
  TTL = 1
  ClockSkew = 1
  MaxClock = 4
INVARIANTS
  LeaseInv
PROPERTIES
  StealOnlyAfterExpiry
  DeposedNeverReturns
  ImplementsSuccession
  DeposedEventuallyStops
CHECK_DEADLOCK FALSE
