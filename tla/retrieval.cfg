SPECIFICATION Spec
CONSTANTS
  Ids <- NodeIds
  KindOf <- Kind
  PathOf <- Pathless
  RepoOf <- Repository
  NoPath = NoPath
  Embedded = {"f", "g"}
  Versions = {1, 2}
  BatchIds = 2
  Graphs <- SmallGraphs
  Full <- Large
  Brief <- Small
  Summarised = {"f", "h"}
  Budgets = {4, 8}
  Hops = {1, 3}
  RepoFilters <- Filters
  Relevances <- Gates
  MaxSeeds = 2
INVARIANTS
  TypeOK
  RowsCarryLatest
  EdgesWithin
  SeedsSurvive
  ExpansionExact
  ContextExplained
PROPERTIES
  RequestAnswered
CHECK_DEADLOCK FALSE
