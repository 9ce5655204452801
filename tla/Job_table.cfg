CONSTANTS
  NPID = 3
  MAX_JOBS = 2
  MaxStages = 2
SPECIFICATION FairSpec
INVARIANTS NoLostStatus FinishReported
PROPERTIES NeverForgotten ForegroundReturns
CHECK_DEADLOCK FALSE
