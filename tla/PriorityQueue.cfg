SPECIFICATION QueueSpec
CONSTANTS
  Shapes <- MixedShapes
  NORMAL_CAPACITY = 3
  LOW_CAPACITY = 1
  BatchSize = 2
  TtlCeiling = 4
  AgeUnit = 1
  AgeCeiling = 1
  MaxNow = 2
  MaxPushes = 6
INVARIANTS
  Conservation
  MostUrgentFirst
CHECK_DEADLOCK FALSE
