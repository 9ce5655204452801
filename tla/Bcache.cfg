CONSTANTS
  Procs = {p1, p2}
  Blocks = {k1, k2, k3, k4}
  NBUF = 3
  NUM = 5
  MaxPin = 2
SYMMETRY Symmetric
SPECIFICATION Spec
INVARIANTS HolderSeesLatest RefsExact DescsExact NoLostWakeup
