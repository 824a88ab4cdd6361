SPECIFICATION PadSpec
CONSTANTS
  Unit = 2
  Shaping = TRUE
  Pool = TRUE
  Rate = 3
  Burst = 5
  Pct = 50
  DataCap = 6
  ControlRate = 3
  ControlBurst = 4
  DataMaxima = {0, 1, 3}
  ControlMax = 2
  Payloads = {1, 9}
  MaxTime = 3
  MaxPayload = 19
INVARIANTS BudgetTypes ShapeCap DataShare ControlCap
