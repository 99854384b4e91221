CONSTANTS
  EventIds = {e1}
  Workers = {w1}
  Nil = Nil
  TicksPerSecond = 1
  LeaseTTL = 1
  MaxAttempts = 2
  Horizon = 4
SPECIFICATION FairSpec
PROPERTIES
  ExpiredIsRecovered
CHECK_DEADLOCK FALSE
