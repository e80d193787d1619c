SPECIFICATION Spec
CONSTANTS
  Ids <- NodeIds
  KindOf <- Kind
  PathOf <- PathOfNode
  RepoOf <- Repository
  NoPath = NoPath
  SuffixPairs <- NoSuffixes
  LinesOf <- NodeLines
  NewSymbol <- AddedIds
  ImportedFile <- ImportsFound
  RuleFiles <- Files
  Changes <- FileDiffs
  Graphs <- Published
  NoGraph = NoGraph
  Wrong = Wrong
  Wrongly = Wrong
  MaxCycles = 1
  Trailers <- Messages
  MaxCommits = 2
INVARIANTS
  TypeOK
  ApprovalLapses
  CyclesDecided
  DeletionsMeasured
  ImpactExact
PROPERTY
  CommitsWhatWasChecked
CHECK_DEADLOCK FALSE
