SPECIFICATION FairSpec
CONSTANTS
  ACTIVE_ROUND_INTERVAL = 1
  IDLE_ROUND_INTERVAL = 2
  DEEP_ROUND_INTERVAL = 3
  IDLE_TIMEOUT = 2
  SYNC_INTERVAL = 7
  BAN_CHECK_INTERVAL = 14
  SYNC_TIMEOUT = 2
  WAKE_INTERVAL = 2
  WAKE_WINDOW = 1
  IDLE_SLEEP_TIMEOUT = 1
  MaxMissed = 2
  MaxServed = 2
  Prompt = 1
INVARIANTS
  RoundGap
PROPERTIES
  RoundsRecur
