SPECIFICATION AttachedSpec
CONSTANTS
  r1 = r1  r2 = r2  r3 = r3
  Irps = {r1,r2,r3}
  Size = 2
  Ranges <- TwoRanges
  Kinds = {"write", "flush"}
  MaxQueueItems = 1
  MaxQueueSize = 10
  ItemSize = 1
  MaxDispatchers = 2
  Faults = {"memory", "lower"}
  None = None
SYMMETRY Symmetry
INVARIANTS TypeOK QueueAccounting AdmissionBound WrittenInOrder NoLostWrite AcknowledgedVisible DeferredIsBarrier FlushIsDurable
PROPERTY ViewNeverOlder
CHECK_DEADLOCK FALSE
