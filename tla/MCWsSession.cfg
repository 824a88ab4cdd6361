SPECIFICATION FairSpec
CONSTANTS
  Lens = {2}
  TxLimit = 4
  Socket = 2
  MaxPongs = 1
  StallAfter = 1
  Senders = {"client", "server"}
  MaxSent = 2
  MaxPings = 1
INVARIANTS TxExact MessagesExact CloseAfterData
PROPERTIES NeverStuck
CHECK_DEADLOCK FALSE
