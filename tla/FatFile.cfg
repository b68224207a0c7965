SPECIFICATION Spec
CONSTANTS
  LastCluster = 3
  SectorUnits = 2
  SectorsPerCluster = 2
  MaxSize = 5
  MaxWrites = 2
  MaxFaults = 1
  MaxForeign = 1
  CloseOnError = TRUE
INVARIANTS MembersRight NothingLost UnbrokenByCalls
PROPERTIES ForeignIntact IsByteFile
CHECK_DEADLOCK FALSE
