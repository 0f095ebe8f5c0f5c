SPECIFICATION ReadSpec
CONSTANTS
  r1 = r1  r2 = r2  x1 = x1
  Irps = {r1, r2}
  Readers = {x1}
  Size = 3
  Ranges <- MiddleSector
  ReadRanges <- WithErrors
  Kinds = {"write"}
  MaxQueueItems = 1
  MaxQueueSize = 10
  ItemSize = 1
  MaxDispatchers = 1
  Faults = {"read", "scatter"}
  None = None
  Unfilled = Unfilled
INVARIANTS ReadTypeOK ScatterCounted SplitReadKeepsDevice ReadIsFresh
PROPERTY ReadsEnd
CHECK_DEADLOCK FALSE
