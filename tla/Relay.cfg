SPECIFICATION FairSpec
CONSTANTS
  t1 = t1
  t2 = t2
  t3 = t3
  t4 = t4
  Ids = {t1, t2, t3, t4}
  Invalid = {t4}
  capacity = 2
  max_attempts = 2
  RpcMayFail = TRUE
  MaxLedger = 3
  MaxCalls = 6
INVARIANTS
  ProvedIsApplied
  ResubmittedForCause
PROPERTIES
  CallsReturn
CHECK_DEADLOCK FALSE
