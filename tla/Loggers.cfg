SPECIFICATION Spec
CONSTANTS
  DataDim = 2
  Buffers = 3
  FifoDim = 3
  MaxWrite = 2
  FileBlocks = 6
  MaxTicks = 16
INVARIANTS
  TimesRight
  NothingDropped
PROPERTIES
  Stops
CHECK_DEADLOCK FALSE
