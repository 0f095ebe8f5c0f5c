SPECIFICATION ReaderSpec
CONSTANTS
  s1 = s1  s2 = s2  s3 = s3
  Irps = {s1, s2, s3}
  MaxSwitches = 2
  Null = Null
  DataOffset = 3
  RecordSize = 5
  DataLengths = {0, 2}
  Pages = {1, 8}
  Blank = Blank
SYMMETRY Symmetry
INVARIANTS LogTypeOK LogIsComplete DepthNotNegative EarlierRecordsWritten ReaderShowsLog
CHECK_DEADLOCK FALSE
