SPECIFICATION FairSpec
CONSTANTS
  p1 = p1  p2 = p2  p3 = p3
  Irps = {p1, p2, p3}
  Attacher = Attacher
  Lengths <- TwoLengths
  Inrush = FALSE
  None = None
INVARIANTS TypeOK InUseNotPagable UnusedIsPagable ErrorMeansNoSize
PROPERTIES SizeNeverChanges PnpRequestsEnd
CHECK_DEADLOCK FALSE
