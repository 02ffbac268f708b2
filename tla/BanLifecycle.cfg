SPECIFICATION FairSpec
CONSTANTS
  Peers = {p1}
  Nobody = Nobody
  max_strikes = 1
  window_duration = 1
  BAN_DURATION_SEC = 2
  expiry_seconds = 1
  MaxReputation = 5
  SignaturePenalty = 2
  DuplicatePenalty = 1
  RouteReward = 1
  DbMayFail = TRUE
  MaxNow = 4
  MaxCrashes = 2
  MaxOffences = 3
INVARIANTS
  BanHolds
  ActiveRowsEnforced
  ExtendedByWaitOnly
PROPERTIES
  BannedForCause
  BansAreLifted
