SPECIFICATION Spec
CONSTANTS
  Task = {t1, t2}
  Blob = {b1, b2, r10, r11, r20, r21}
  b1 = b1
  b2 = b2
  r10 = r10
  r11 = r11
  r20 = r20
  r21 = r21
  NoBlob = NoBlob
  Len <- MCLen
  Order <- MCOrder
  Chunk = 2
  Stores = {"fs", "s3", "gcs"}
  Policies <- MCPolicies
  NoAge = NoAge
  MaxFaults = 1
  MaxClock = 1
  Examples = 2
  ResultBlob <- MCResultBlob
  Asked <- MCAsked
  MaxRuns = 2
SYMMETRY TasksAlike
INVARIANTS Inv TornOnlyIfShared UploadsAreOwned ReportIsSound
PROPERTY NeverEmptied
CHECK_DEADLOCK FALSE
