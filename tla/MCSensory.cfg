\* Two messages, each delivered up to twice, a reply and a memory decision.
CONSTANTS
  a = a
  b = b
  u1 = u1
  None = None
  Messages <- MCMessages
  Users <- MCUsers
  SenderOf <- MCSenderOf
  BatchSize = 2
  MaxRecent = 2
  RawCapacity = 1
  RoutedCapacity = 1
  GateCapacity = 1
  MaxDeliveries = 2
  MaxReplies = 1
  MaxDeltas = 1
SPECIFICATION FairSpec
INVARIANTS
  TypeOK
  ForwardedIsKept
  FlushedAtShutdown
  DuplicateOnlyAfterEviction
  MemoryCountsStoredReplies
  RepliesNotOvercounted
PROPERTIES
  EventuallyStored
CHECK_DEADLOCK FALSE
