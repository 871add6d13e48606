SPECIFICATION Cyclic
CONSTANTS
  c1 = c1
  r1 = r1
  e1 = e1
  p1 = p1
  l1 = l1
  Callers = {c1}
  Instances = {c1}
  Home <- Apart
  ModelCount = 2
  Budget = 1
  MaxDay = 1
  MaxLapses = 1
  MaxRestarts = 1
  Cycles = {r1}
  Sweeps = {e1}
  PushRoutes = {p1}
  Leads = {l1}
  NoCycle = nocycle
  NoLead = nolead
  MaxCycleFaults = 1
  MaxOrders = 1
CHECK_DEADLOCK FALSE
INVARIANTS AttemptsWithinBudget
PROPERTIES CallsEnd  DueRunResolved
