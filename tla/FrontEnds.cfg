SPECIFICATION Spec
VIEW View
SYMMETRY Symmetry
CONSTANTS
  BufSize = 3
  UngetSize = 1
  Bytes = {0, 1}
  MaxSize = 4
  MaxFaults = 1
  Chars = {10, 13, 32, 45, 48, 49, 120}
  FileSize = 3
  PosMax = 10
  NegMax = 11
  BufDim = 3
  MaxPrinted = 8
  MaxFailures = 2
  Handles = {h1, h2}
  SdVolumes = {v1, v2}
  Large = {v2}
  Names = {n1, n2}
  MaxLength = 1
  PosWidth = 4
  MaxHandleFaults = 1
  MaxFormats = 1
  MaxEntries = 2
INVARIANTS PrintedInOrder HandlesSound
PROPERTIES IsStdio IsText SeeksExact
CHECK_DEADLOCK FALSE
