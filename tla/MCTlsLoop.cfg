SPECIFICATION FairSpec
CONSTANTS
  QueueLimit = 2
  QueueDelay = 1
  Batch = 2
  Socket = 1
  KeepAlive = 1
  ProbeInterval = 2
  Idle = 2
  Probing = {"client"}
  Senders = {"client"}
  MaxPackets = 2
  MaxTime = 5
INVARIANTS StreamHonest QuietKept
PROPERTIES EndNoticed
CHECK_DEADLOCK FALSE
