CONSTANTS
  Procs = {p1, p2}
  None = None
  NInodes = 5
  NBlocks = 5
  Names <- MCNames
  Args <- MCArgs
  Setups <- MCSetups
  Dirents = 3
  NDIRECT = 1
  MAXFILE = 2
  NLINK_MAX = 2
  MaxCalls = 2
SPECIFICATION Spec
INVARIANTS NoPanic CacheCoherent LinkCounts BlocksAccounted RefsExact
SYMMETRY MCSymmetry
