SPECIFICATION Spec
CONSTANTS
  r1 = r1
  r2 = r2
  f1 = f1
  f2 = f2
  b1 = b1
  b2 = b2
  Absent = Absent
  Nothing = Nothing
  Repos <- OneRepo
  GitRepos <- OneRepo
  LiveRepos = {}
  Files <- OneFile
  Blobs <- TwoBlobs
  Commands = {"incremental"}
  MaxChanges = 2
  MaxFailures = 0
PROPERTY FreshAfterRuns
CHECK_DEADLOCK FALSE
