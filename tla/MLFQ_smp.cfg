CONSTANTS
  NPROC = 2
  NCPU = 2
  NQUEUE = 2
  time_slice <- Slices2
  BOOST = 2
  Chans = {"ticks", "event"}
SPECIFICATION Spec
INVARIANTS NoneLost PlacedOnce SliceBound SleeperWakable
