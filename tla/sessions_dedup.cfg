SPECIFICATION Spec
CONSTANTS
  p1 = p1
  p2 = p2
  s1 = s1
  n1 = n1
  n2 = n2
  big = big
  a = a
  b = b
  NoProc = NoProc
  NoTopic = NoTopic
  NoSession = NoSession
  Procs <- TwoProcs
  SessionIds <- OneSession
  Nodes <- NodeIds
  Topics <- TwoTopics
  Similarity <- SameOrNot
  Oversized <- BigNodes
  Summarised <- SmallNodes
  FeedbackLists <- Lists
  HalfLife = 1
  MaxContext = 1
  MaxHistory = 2
  MaxRequests = 4
  MaxCrashes = 1
INVARIANTS
  TypeOK
  OmittedWasSent
  RowsConsistent
  TurnCountsAnswers
  NoEarlyResend
  AggregatesCountSignals
SYMMETRY Symmetry
CHECK_DEADLOCK FALSE
