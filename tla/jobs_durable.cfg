SPECIFICATION Spec
CONSTANTS
  c1 = c1
  c2 = c2
  c3 = c3
  w1 = w1
  w2 = w2
  k1 = k1
  k2 = k2
  a1 = a1
  a2 = a2
  NoSha = NoSha
  Clients <- OneClient
  Workers <- OneWorker
  Keyings <- AllOne
  Keys <- OneKey
  Shas = {}
  Pins <- Unpinned
  MaxCrashes = 1
PROPERTY DurableJob
CHECK_DEADLOCK FALSE
