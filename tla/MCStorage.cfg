SPECIFICATION Spec
CONSTANTS
  Txn = {t1, t2}
  Key = {k1, k2}
  Value = {v1, v2}
  NoTxn = NoTxn
  Absent = Absent
  Unwritten = Unwritten
  Backends = {"embedded", "postgres"}
  Capacity = 2
  MaxOps = 2
SYMMETRY Symmetry
INVARIANTS
  QuietCacheIsCurrent
  Inv
PROPERTIES
  CasReplacesExpected
CHECK_DEADLOCK FALSE
