CONSTANTS
  NPID = 1
  MAX_JOBS = 1
  MaxStages = 1
SPECIFICATION FairSpec
PROPERTIES TimeoutHonoured
CHECK_DEADLOCK FALSE
