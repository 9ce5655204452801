CONSTANTS
  Procs = {p1, p2}
  Blocks = {b1, b2, b3}
  LOGBLOCKS = 4
  MAXOPBLOCKS = 2
  OpBlocks = 2
  MaxOps = 3
  MaxCrash = 2
SPECIFICATION Spec
INVARIANTS SleeperHasWaker SyncDurable SpaceReserved
PROPERTY Atomic
CHECK_DEADLOCK FALSE
