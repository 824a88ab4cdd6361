SPECIFICATION FairSpec
CONSTANTS
  Conns = {c1, c2, c3}
  Workers = {w1, w2}
  QueueLimit = 2
  PoolSizes = {1, 2}
  None = None
INVARIANTS TypeOK ClaimsExact OneOwner CleanExit
PROPERTIES PendingServed ReadyTaken ShutdownUnlessMissed
CHECK_DEADLOCK FALSE
