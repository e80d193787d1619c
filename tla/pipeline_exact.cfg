SPECIFICATION Spec
CONSTANTS
  r1 = r1
  r2 = r2
  f1 = f1
  f2 = f2
  b1 = b1
  b2 = b2
  Absent = Absent
  Nothing = Nothing
  Repos <- TwoRepos
  GitRepos <- TwoRepos
  LiveRepos <- TwoRepos
  Files <- TwoFiles
  Blobs <- OneBlob
  Commands = {"full", "incremental", "sync", "rollback"}
  MaxChanges = 2
  MaxFailures = 1
INVARIANTS
  TypeOK
  StoreMatchesGraph
  FullRunExact
  IncrementalRunExact
SYMMETRY Symmetry
CHECK_DEADLOCK FALSE
