\* The window of a group, between two messages.
CONSTANTS
  m1 = m1
  m2 = m2
  u1 = u1
  g1 = g1
  Calls <- MCCalls
  MaxRetries = 1
  Users <- MCUsers
  Groups <- MCGroups
  SenderOf <- MCSenderOf
  GroupOf <- MCGroupOf
  Shapes <- PlainOnly
  Classifiers <- MCClassifiers
  MaxMessageLength = 8
  MaxAmbientWords = 1
  ContextMessages = 2
  InboxCapacity = 1
  RouterCapacity = 1
  MaxVersion = 3
SPECIFICATION GateSpec
INVARIANT
  ContextHoldsEarlierMessages
CHECK_DEADLOCK FALSE
