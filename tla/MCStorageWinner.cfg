SPECIFICATION SwapSpec
CONSTANTS
  Txn = {t1, t2}
  Key = {k1}
  Value = {v1, v2}
  NoTxn = NoTxn
  Absent = Absent
  Unwritten = Unwritten
  Backends = {"postgres"}
  Capacity = 2
  MaxOps = 1
PROPERTIES
  CasSingleWinner
CHECK_DEADLOCK FALSE
