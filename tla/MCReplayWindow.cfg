\* The window slides over 9 frames: three window widths.
CONSTANTS
  W = 3
  MaxNonce = 9
SPECIFICATION WindowSpec
INVARIANTS
  WindowTypeOK
  WindowExact
  OnlyOldOrRepeatedRefused
PROPERTIES
  ChannelSpec
CHECK_DEADLOCK FALSE
