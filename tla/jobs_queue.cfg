SPECIFICATION Spec
CONSTANTS
  c1 = c1
  c2 = c2
  c3 = c3
  w1 = w1
  w2 = w2
  k1 = k1
  k2 = k2
  NoSha = NoSha
  Clients <- ThreeClients
  Workers <- TwoWorkers
  Keyings <- OneOrTwoKeys
  Keys <- TwoKeys
  Shas <- TwoShas
  Pins <- Pinned
  a1 = a1
  a2 = a2
  MaxCrashes = 1
INVARIANTS
  TypeOK
  NoLostRequest
  ClaimedOnce
PROPERTY QueueDrains
CHECK_DEADLOCK FALSE
