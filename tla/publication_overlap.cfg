SPECIFICATION Spec
CONSTANTS
  o1 = o1
  o2 = o2
  q1 = q1
  m1 = m1
  m2 = m2
  Operators <- TwoOperators
  Pruners <- TheOperator
  Queries = {}
  Models <- OneModel
  QueryModel <- NoQueryModel
  Keeps = {1}
  MaxVersions = 3
  MaxCommands = 2
PROPERTY ActiveRetained
CHECK_DEADLOCK FALSE
