SPECIFICATION FairSpec
CONSTANTS
  c1 = c1
  c2 = c2
  c3 = c3
  c4 = c4
  Conns <- MCConns
  Setups <- MCSetups
  None = None
  MaxConnections = 2
  f1 = f1
  f2 = f2
  Flows <- MCFlows
  Cap = 1
  QueuePackets = 2
  Drain = 1
  Grace = 1
INVARIANTS PoolSize OneLane ClientClosesFirst
PROPERTIES PoolRefills
CHECK_DEADLOCK FALSE
