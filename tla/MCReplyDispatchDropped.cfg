\* A first reply that fails, a second one that is dropped.
CONSTANTS
  g1 = g1
  r1 = r1
  r2 = r2
  r3 = r3
  Idle = Idle
  Never = Never
  Groups <- MCGroups
  Replies <- MCReplies
  GroupOf <- MCGroupOf
  MinInterval = 2
  Resolution = 1
  MaxTime = 4
  MaxBack = 0
  RouterCapacity = 2
  RoutedCapacity = 1
SPECIFICATION Spec
PROPERTIES
  DroppedOnlyAfterReply
CHECK_DEADLOCK FALSE
