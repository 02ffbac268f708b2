SPECIFICATION Spec
CONSTANTS
  Peers = {p1}
  Nobody = Nobody
  max_strikes = 1
  window_duration = 1
  BAN_DURATION_SEC = 2
  expiry_seconds = 1
  MaxReputation = 5
  SignaturePenalty = 2
  DuplicatePenalty = 1
  RouteReward = 1
  DbMayFail = FALSE
  MaxNow = 5
  MaxCrashes = 1
  MaxOffences = 4
INVARIANT SavedBanSurvives
