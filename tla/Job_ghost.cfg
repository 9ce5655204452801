CONSTANTS
  NPID = 2
  MAX_JOBS = 1
  MaxStages = 2
SPECIFICATION Spec
INVARIANTS NoGhost
CHECK_DEADLOCK FALSE
