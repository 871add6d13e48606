SPECIFICATION Spec
CONSTANTS
  c1 = c1
  c2 = c2
  Callers = {c1, c2}
  Costs = {1, 2}
  MaxCost = 2
  DailyCap = 3
  RunCap = 3
  MaxDay = 0
INVARIANTS DailyCapHolds
