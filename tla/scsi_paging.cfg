SPECIFICATION ScsiSpec
CONSTANTS
  p1 = p1  p2 = p2  p3 = p3
  Irps = {p1, p2, p3}
  Attacher = Attacher
  Lengths <- NoLength
  Inrush = FALSE
  None = None
INVARIANT ScsiInUseNotPagable
CHECK_DEADLOCK FALSE
