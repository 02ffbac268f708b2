SPECIFICATION FairSpec
CONSTANTS
  Peers = {p1, p2}
  Messages = {m1}
  Transactions = {t1}
  expiry_seconds = 1
  MSG_MAX_AGE = 1
  ChannelCapacity = 1
  Sequences64 = {1, 2}
  I64_MAX = 1
  SavedAges <- SaveAges
  MaxDelay = 1
INVARIANTS
  BannedOnDiskExplained
  ProofsReadBack
PROPERTIES
  PendingKept
  ResolvedIsListed
  OldMessagesGo
