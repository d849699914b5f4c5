\* Where a topic burst goes.
CONSTANTS
  m1 = m1
  m2 = m2
  NoMessage = NoMessage
  Messages <- MCMessages
  Capacity <- MCCapacity
  MaxTicks = 1
SPECIFICATION SysSpec
INVARIANT
  NoBurstDiscarded
CHECK_DEADLOCK FALSE
