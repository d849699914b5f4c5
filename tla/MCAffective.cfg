\* One user, a clock of half milliseconds and seconds of two of them.
CONSTANTS
  u1 = u1
  None = None
  Users <- MCUsers
  PerMilli = 2
  PerSecond = 4
  EnergyFull = 2
  FavorFull = 2
  TouchBoost = 1
  ReplyBoost = 1
  Quality = 1
  Deltas <- MCDeltas
  MaxTime = 4
  MaxBack = 5
SPECIFICATION AffSpec
INVARIANTS
  TypeOK
  FavorabilityBounded
CHECK_DEADLOCK FALSE
