SPECIFICATION Spec
CONSTANTS
  a = a
  b = b
  c = c
  x = x
  y = y
  Nodes = {a, b, c}
  Neighbours <- LineToListener
  Ids = {x}
  Origin <- FromBothEnds
  Prefix <- DistinctPrefixes
  Colliding = {}
  Capacity = 1
  InitTtl <- TwoHops
  InitReputation = 1
  NORMAL_CAPACITY = 1
  FANOUT_BATCH_SIZE = 1
  MACRO_MERGE_THRESHOLD = 0
  MACRO_MERGE_BATCH_SIZE = 1
  MIN_FANOUT = 2
  MAX_FANOUT = 6
  FALLBACK_FANOUT = 3
  HopCap = 0
  LinkCapacity = 1
  Lossy = TRUE
  AntiEntropy = {b}
INVARIANTS
  ForwardOnce
  LossesKnown
