SPECIFICATION FairSpec
CONSTANTS
  e1 = e1
  e2 = e2
  None = None
  Candidates <- MCCandidates
  TcpBucket <- MCTcpBucket
  TlsBucket <- MCTlsBucket
  PerEdge = 2
  Cooldown = 5
  Clients = {k1}
  Conns = {1, 2}
  MaxSessions = 1
  Timeout = 3
  DnsLimit = 1
  Startup = TRUE
  StartupLimit = 1
  GatePeriod = 15
  RestartDelay = 2
  ReadyWait = 4
  DelayInitial = 1
  DelayMax = 2
  Jitter = 50
  MaxFaults = 1
INVARIANTS EveryEdgeHasTime NothingLeaks
PROPERTIES SlotReturned Served
