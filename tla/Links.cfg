SPECIFICATION FairSpec
CONSTANTS
  Ids = {1, 2}
  payload_capacity = 2
  MAX_MESSAGE_SIZE = 4
  Lens = {3, 4, 5}
  InboxCapacity = 1
  MaxSends = 2
  MaxConnects = 1
INVARIANTS
  Intact
  InOrder
PROPERTIES
  SentIsReceived
  HandshakeEnds
CHECK_DEADLOCK FALSE
