SPECIFICATION Spec
CONSTANTS
  p1 = p1
  p2 = p2
  Peers = {p1, p2}
  max_peers = 1
  ChannelCapacity = 1
  MayFail = TRUE
  MaxSends = 3
INVARIANTS
  CountMirrors
  Accounted
  WakeUpArmed
  NotOvertaken
PROPERTIES
  SilentAsleep
