SPECIFICATION FairPushSpec
CONSTANTS
  a = a
  b = b
  c = c
  x = x
  y = y
  Nodes = {a, b, c}
  Neighbours <- Line
  Ids = {x, y}
  Origin <- FromBothEnds
  Prefix <- DistinctPrefixes
  Colliding = {}
  Capacity = 2
  InitTtl <- HopsAndEcho
  InitReputation = 1
  NORMAL_CAPACITY = 2
  FANOUT_BATCH_SIZE = 1
  MACRO_MERGE_THRESHOLD = 500
  MACRO_MERGE_BATCH_SIZE = 50
  MIN_FANOUT = 2
  MAX_FANOUT = 6
  FALLBACK_FANOUT = 3
  HopCap = 4
  LinkCapacity = 2
  Lossy = FALSE
  AntiEntropy = {}
INVARIANT HopLimit
PROPERTIES
  Disseminates
  PropagationEnds
