SPECIFICATION FairSpec
CONSTANTS
  Conns = {c1}
  Workers = {w1}
  QueueLimit = 1
  PoolSizes = {1}
  None = None
PROPERTIES ShutdownCompletes
CHECK_DEADLOCK FALSE
