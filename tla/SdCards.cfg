SPECIFICATION CardsSpec
CONSTANTS
  LastSector = 2
  SdioLastSector = 1
  SdioMaxFaults = 1
  Val = {v1, v2}
  NoVal = NoVal
  MaxBlkCnt = 1
  MaxFaults = 2
INVARIANTS PointerAgrees SdioKept
PROPERTIES IsBlockDevice SdioReadsRight SdioReturns
