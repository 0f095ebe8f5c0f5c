SPECIFICATION FairSpec
CONSTANTS
  r1 = r1  r2 = r2  r3 = r3
  Irps = {r1,r2}
  Size = 1
  Ranges <- OneRange
  Kinds = {"write", "flush", "qflush", "query", "pass"}
  MaxQueueItems = 1
  MaxQueueSize = 10
  ItemSize = 1
  MaxDispatchers = 2
  Faults = {"build", "memory", "pool"}
  None = None
PROPERTIES EventuallyRetired EventuallyAnswered RemovalEnds
CHECK_DEADLOCK FALSE
