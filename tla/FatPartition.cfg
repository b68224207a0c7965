SPECIFICATION Spec
CONSTANTS
  LastCluster = 4
  Files = {f1, f2}
  NoFile = nobody
  MaintainFreeCount = TRUE
  MaxFaults = 2
  MaxRevivals = 1
INVARIANTS ChainsDisjoint NothingLost FreeCountExact FreeCountNeverLow
