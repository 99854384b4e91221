CONSTANTS
  EventIds = {e1, e2}
  Workers = {w1, w2}
  Nil = Nil
  TicksPerSecond = 1
  LeaseTTL = 2
  MaxAttempts = 2
  Horizon = 4
SPECIFICATION FairSpec
INVARIANTS
  TypeOK
  OneDispatcher
  HandledOnce
  RetriesBounded
PROPERTIES
  CompletionUnexpired
  RetryWaits
  EventIsLeased
  DueIsClaimed
CHECK_DEADLOCK FALSE
