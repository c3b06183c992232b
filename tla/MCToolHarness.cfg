SPECIFICATION FairSpec
CONSTANTS
  Task = {t1, t2}
  t1 = t1
  t2 = t2
  Fetchers = {t1}
  Programs <- MCPrograms
  PipeSize = 1
  Delegations = {TRUE, FALSE}
  Addr = {a1, a2}
  a1 = a1
  a2 = a2
  NoAddr = NoAddr
  Blocked <- MCBlocked
  Allowlist = {}
  MaxRedirects = 1
  MaxStrays = 1
INVARIANTS Inv SuccessIsComplete
PROPERTY EveryCallReturns
CHECK_DEADLOCK FALSE
