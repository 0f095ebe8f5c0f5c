SPECIFICATION Spec
CONSTANTS
  BlockSize = 2
  DeviceSize = 6
  WordMax = 7
  Offsets <- AllOffsets
  Lengths <- AllLengths
  MaxWrites = 2
INVARIANT LeftRangesAreRead
CHECK_DEADLOCK FALSE
