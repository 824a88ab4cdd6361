SPECIFICATION FairSpec
CONSTANTS
  Setups <- MCSetups
  Shaping = TRUE
  QueueLimit = 2
  QueueDelay = 1
  BatchSizes = {1, 2}
  Batch = 1
  BatchBytes = 2
  ReadBudget = 2
  Socket = 1
  ProbeInterval = 1
  ReplyTimeout = 3
  Active = {"client"}
  MaxTime = 4
INVARIANTS NoFalseReplay DeliveredInOrder
PROPERTIES ProbeResolved QueuesEmpty
CHECK_DEADLOCK FALSE
