\* Three escalations, safety, refinement and liveness.
CONSTANTS
  e1 = e1
  e2 = e2
  e3 = e3
  m1 = m1
  m2 = m2
  NoEntry = NoEntry
  Escalations <- MCEscalations
  Messages <- MCMessages
  MsgOf <- MCMsgOf
  DetectiveTimeout = 2
  SweepCap = 1
  InCapacity = 1
  OutCapacity = 1
SPECIFICATION FairSpec
INVARIANTS
  TypeOK
  OneReplyPerEscalation
  PendingAgeBounded
  ReportFindsItsEntry
PROPERTIES
  ImplementsAuthority
  EventuallySettled
CHECK_DEADLOCK FALSE
