SPECIFICATION Spec
CONSTANTS
  Slots = 2
  MaxErrors = 2
  CardSizes = {8000,12288,12289,32768,32769,65536,65537,131072,131073,262144,262145,1000000,2097152,2097153,4000000,4194303,4194304,4209983,4209984,8388608,31116288,67108863,67108864,67108865,124735488,134217728,134217729,250000000,268435456,268435457,536870912,536870913,1073741824,1073741825,2147480000}
  SmallCard = 4194304
  Base = 3
  Ext = 1
  PerEntry = 2
  Top = 8
  MinimumSkip = 3
  SectorUnits = 4
  MaxPieces = 3
  MaxPlain = 6
  MaxWords = 4
  PerCluster = 2
  MaxEntries = 6
INVARIANTS MountsTheFirst FormatMounts ConversionsKept StampsHeld FieldsTrue SamplesInTime ShortFound
PROPERTIES Settles
CHECK_DEADLOCK FALSE
