SPECIFICATION Spec
CONSTANTS
  Conns = {c1, c2, c3}
  TrialRounds = 3
  MaxFaults = 1
  None = None
PROPERTIES KeepsExistingLink
