\* Two investigations and a burst, with a store and a model that fail.
CONSTANTS
  r1 = r1
  r2 = r2
  b1 = b1
  g1 = g1
  g2 = g2
  f1 = f1
  f2 = f2
  Router = Router
  Requests <- MCRequests
  Bursts <- MCBursts
  Groups <- MCGroups
  GroupOf <- MCGroupOf
  Facts <- MCFacts
  Reports <- MCReports
  Decisions <- MCDecisions
  InboxCapacity = 1
  RouterCapacity = 1
SPECIFICATION DetectiveFairSpec
INVARIANTS
  TypeOK
  DuplicateOnlyFromOverlap
  TakenBeforeReported
PROPERTIES
  EventuallySettled
CHECK_DEADLOCK FALSE
