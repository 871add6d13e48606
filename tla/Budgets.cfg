SPECIFICATION Budgets
CONSTANTS
  c1 = c1
  c2 = c2
  Callers = {c1, c2}
  Costs = {1, 2}
  MaxCost = 2
  DailyCap = 3
  RunCap = 2
  MaxDay = 1
  ApifyCallers = {c1, c2}
  ApifyDaily = 1
  ApifyMonthly = 1
  MaxApifyDay = 2
  MaxLedgerFaults = 1
  DeeplineCallers = {c1, c2}
  DeeplineBudget = 1
  OpeningBalance = 3
  MaxDeeplineDay = 1
  MaxTopUps = 1
  SenseTenants = {"a", "b"}
  SenseRuns = {1, 2}
  Items = {1}
  SenseParts = 2
  QueryLimit = 1
  FreeQuota = 2
  Phrases = {"p", "q"}
  PhraseLimit = 1
  MaxSenseMishaps = 2
SYMMETRY Symmetry
CHECK_DEADLOCK FALSE
INVARIANTS TypeOK OvershootBounded ReservationCoversBill RunWithinCap DayBudgetsBounded SensingRules
