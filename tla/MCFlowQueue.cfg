SPECIFICATION FairFlowSpec
CONSTANTS
  Flows = {1, 2, 3, 4}
  Ids = {1, 2, 3}
  Sizes = {1, 2}
  InteractiveMax = 1
  MaxPackets = 2
  MaxBytes = 3
  PruneSlack = 2
  Ttl = 0
INVARIANTS Accounting
PROPERTIES ImplementsFifo PacketLeaves
CHECK_DEADLOCK FALSE
