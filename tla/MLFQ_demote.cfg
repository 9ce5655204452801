CONSTANTS
  NPROC = 2
  NCPU = 2
  NQUEUE = 3
  time_slice <- Slices3
  BOOST = 4
  Chans = {}
SPECIFICATION Spec
PROPERTY DemotedByOne
