SPECIFICATION Spec
CONSTANTS
  d1 = d1  d2 = d2
  Disks = {d1, d2}
  Absent = Absent
  Values <- SomeValues
  Default <- DefaultSize
  Base = 2
  Room = 3
  Lists <- SomeLists
  NameBytes <- NameLengths
  LengthMax = 15
  MaxLoads = 2
  MaxFilters = 3
INVARIANTS LoadTypeOK NoHalfDevice UnloadedHoldsNothing ConfiguredAsAsked
CHECK_DEADLOCK FALSE
