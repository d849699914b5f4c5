\* Three replies to one group, with crashes, lost answers and a clock that is
\* set back.
CONSTANTS
  g1 = g1
  r1 = r1
  r2 = r2
  r3 = r3
  Idle = Idle
  Never = Never
  Groups <- MCGroups
  Replies <- MCReplies
  GroupOf <- MCGroupOf
  MinInterval = 2
  Resolution = 2
  MaxTime = 5
  MaxBack = 1
  RouterCapacity = 2
  RoutedCapacity = 1
SPECIFICATION Spec
INVARIANTS
  TypeOK
  EffectsInOrder
  DeliveredAtMostOnce
  AllowedOnlyAfterInterval
  DeniedOnlyWithinInterval
  SavedIntervalSurvivesRestart
CHECK_DEADLOCK FALSE
