CONSTANTS
  OutputCap = 1
  InputCap = 1
SPECIFICATION Spec
PROPERTY ClosingUnblocks
CHECK_DEADLOCK FALSE
