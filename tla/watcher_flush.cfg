SPECIFICATION Spec
CONSTANTS
  f1 = f1
  f2 = f2
  b1 = b1
  Absent = Absent
  Files <- TwoFiles
  Blobs <- OneBlob
  MaxEvents = 3
  MaxFailures = 1
INVARIANTS
  TypeOK
  NoStrandedChanges
  StoreMatchesGraph
  NoStaleVectors
PROPERTIES
  GraphFollowsDisk
  ChangesFlushed
CHECK_DEADLOCK FALSE
