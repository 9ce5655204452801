CONSTANTS
  Pipelines <- ShortLines
  NSTAGE = 2
  Cap = 1
  Units = 2
  MaxFails = 1
SPECIFICATION PlumbingSpec
INVARIANT NoLeak
PROPERTY Terminates
CHECK_DEADLOCK FALSE
