\* Two messages of one user, all classifiers, a provider that fails.
CONSTANTS
  m1 = m1
  m2 = m2
  u1 = u1
  g1 = g1
  Calls <- MCCalls
  MaxRetries = 1
  Users <- MCUsers
  Groups <- MCGroups
  SenderOf <- MCSenderOf
  GroupOf <- MCGroupOf
  Shapes <- MCShapes
  Classifiers <- MCClassifiers
  MaxMessageLength = 8
  MaxAmbientWords = 1
  ContextMessages = 2
  InboxCapacity = 1
  RouterCapacity = 1
  MaxVersion = 3
SPECIFICATION GateFairSpec
INVARIANTS
  TypeOK
  DecisionPrecedesEscalation
  StateOneMessageOld
PROPERTIES
  ImplementsModelCall
  EventuallyClassified
CHECK_DEADLOCK FALSE
