SPECIFICATION Spec
CONSTANTS
  Files = {f1, f2}
  LastCluster = 5
  System = {2}
  Units = 1
  MaxUnits = 3
  MaxCuts = 0
INVARIANT CallsReturn
CHECK_DEADLOCK FALSE
SYMMETRY Alike
