\* Two messages and a tick through channels of one place.
CONSTANTS
  m1 = m1
  m2 = m2
  NoMessage = NoMessage
  Messages <- MCMessages
  Capacity <- MCCapacity
  MaxTicks = 1
SPECIFICATION MCSpec
INVARIANTS
  TypeOK
  ReportReachesBoth
PROPERTIES
  ComesToRest
  EventuallyStopped
CHECK_DEADLOCK FALSE
