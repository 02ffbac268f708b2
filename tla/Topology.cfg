SPECIFICATION FairSpec
CONSTANTS
  Peers = {p1, p2}
  Dests = {p1, p2, d}
  TableCapacity = 2
  BusCapacity = 2
  MaxHops = 1
  MaxDistance = 1
INVARIANTS
  NoStaleRoutes
  ReachabilityAnnounced
  NearestRelaysSelected
PROPERTY LossesHandled
