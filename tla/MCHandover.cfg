SPECIFICATION FairSpec
CONSTANTS
  Conns = {c1, c2, c3}
  TrialRounds = 1
  MaxFaults = 2
  None = None
INVARIANTS CommittedOnly
PROPERTIES NoColdRedial Recovers
