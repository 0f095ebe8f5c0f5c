SPECIFICATION Spec
CONSTANTS
  r1 = r1  r2 = r2  r3 = r3
  Irps = {r1,r2,r3}
  Size = 2
  Ranges <- WithErrors
  Kinds = {"write", "on", "off", "shutdown", "control"}
  MaxQueueItems = 1
  MaxQueueSize = 10
  ItemSize = 1
  MaxDispatchers = 2
  Faults = {"lower", "build", "pool"}
  None = None
SYMMETRY Symmetry
INVARIANTS CompletedOnce NoLostWakeup LateWritesBounded DeletedMeansDrained
PROPERTY ImplementsWriteBehind
CHECK_DEADLOCK FALSE
