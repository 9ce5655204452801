CONSTANTS
  NPROC = 4
  MaxPid = 4
  KillPids = {0, 2, 3, 4}
SPECIFICATION FairSpec
INVARIANTS ParentAlive NoZombieOverlooked KilledByPid
PROPERTIES OrphansReaped KilledDies
