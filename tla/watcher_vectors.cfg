SPECIFICATION Spec
CONSTANTS
  f1 = f1
  f2 = f2
  b1 = b1
  Absent = Absent
  Files <- TwoFiles
  Blobs <- OneBlob
  MaxEvents = 3
  MaxFailures = 0
INVARIANT VectorsMatchGraph
CHECK_DEADLOCK FALSE
