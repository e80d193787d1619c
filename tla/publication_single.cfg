SPECIFICATION Spec
CONSTANTS
  o1 = o1
  o2 = o2
  q1 = q1
  m1 = m1
  m2 = m2
  Operators <- TheOperator
  Pruners <- TheOperator
  Queries <- OneQuery
  Models <- TwoModels
  QueryModel <- ExpectsM1
  Keeps = {1}
  MaxVersions = 3
  MaxCommands = 3
INVARIANTS
  TypeOK
  ActiveNeverLost
  ListedGraphIntact
  ActiveHasGraph
  ServesPublishedGraph
PROPERTIES
  ImplementsCatalog
  QueriesConverge
CHECK_DEADLOCK FALSE
