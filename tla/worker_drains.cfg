SPECIFICATION Spec
CONSTANTS
  r1 = r1  r2 = r2  r3 = r3
  Irps = {r1,r2}
  Size = 1
  Ranges <- OneRange
  Kinds = {"write"}
  MaxQueueItems = 1
  MaxQueueSize = 10
  ItemSize = 1
  MaxDispatchers = 2
  Faults = {}
  None = None
PROPERTY WorkerDrains
CHECK_DEADLOCK FALSE
