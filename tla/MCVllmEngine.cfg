SPECIFICATION VllmFairSpec
CONSTANTS
  Task = {t1, t2}
  t1 = t1
  t2 = t2
  Trainer = t1
  Capacity = 2
  MaxPrompts = 2
  MaxSteps = 2
  Resumes = {0, 3}
INVARIANTS VllmInv StepsAgree
PROPERTIES EveryCallReturns DropEnds
CHECK_DEADLOCK FALSE
