SPECIFICATION FilterSpec
CONSTANTS
  Ids = {m1, m2, m3, m4, m5}
  Colliding = {m1, m2, m3, m4, m5}
  Capacity = 2
  MaxInserts = 7
SYMMETRY IdSymmetry
INVARIANTS
  FilterTypeOK
  WindowRemembered
