CONSTANTS
  NPROC = 3
  NCPU = 1
  NQUEUE = 3
  time_slice <- Short3
  BOOST = 2
  Chans = {"event"}
SPECIFICATION FairSpec
PROPERTY StarvationFree
