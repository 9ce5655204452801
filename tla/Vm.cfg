CONSTANTS
  NPROC = 2
  NFrames = 20
  PGSIZE = 2
  FANOUT = 2
  WORD = 64
  USERSTACK = 1
  MAXARG = 1
  MaxSz = 6
  MaxHeld = 1
  Deltas <- MCDeltas
  Programs <- MCPrograms
SPECIFICATION Spec
INVARIANTS Conserved NoPanic MappedBelowSize
