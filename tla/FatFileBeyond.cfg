SPECIFICATION Spec
CONSTANTS
  LastCluster = 4
  SectorUnits = 1
  SectorsPerCluster = 1
  MaxSize = 3
  MaxWrites = 2
  MaxFaults = 1
  MaxForeign = 0
  CloseOnError = FALSE
PROPERTIES ReadStopsAtEnd
CHECK_DEADLOCK FALSE
