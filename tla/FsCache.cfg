SPECIFICATION Spec
CONSTANTS
  FatSectors = {0, 1}
  DataSectors = {2, 3}
  NoSector = 99
  Val = {v1, v2}
  Clobber = FALSE
  MaxFaults = 2
  MaxRestarts = 2
INVARIANTS BufferCoherent TornBounded
PROPERTIES ImplementsSectorStore
