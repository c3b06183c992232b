SPECIFICATION FairSpec
CONSTANTS
  Tasks = 2
  Id = {"v1", "v2", "py", "lib"}
  Name <- MCName
  Mode <- MCMode
  Episodes = 2
  MaxTurns = 2
  MaxBatch = 2
  NoPlugin = NoPlugin
  NoEnv = NoEnv
  MaxSpawns = 2
  MaxOps = 3
  MaxFaults = 2
INVARIANTS
  Inv
  AnswerIsOwn
  TurnsAreReportedOnce
PROPERTIES
  DoneIsFinal
  EveryStepReturns
CHECK_DEADLOCK FALSE
