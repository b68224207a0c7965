SPECIFICATION Spec
CONSTANTS
  Size = 4
  MaxBytes = 11
  MaxFaults = 2
PROPERTIES
  InOrder
  Ends
