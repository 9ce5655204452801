CONSTANTS
  NPROC = 2
  NFILE = 2
  NOFILE = 2
  NPages = 1
  PIPESIZE = 2
  WORD = 4
  Bytes <- MCBytes
  JUNK = 1
  Source <- MCSource
  MaxN = 2
SPECIFICATION Spec
CHECK_DEADLOCK FALSE
INVARIANTS RefsExact NoLostWakeup
PROPERTY IsStream
