SPECIFICATION Beside
CONSTANTS
  c1 = c1
  c2 = c2
  Callers = {c1, c2}
  Instances = {c1, c2}
  Home <- Apart
  ModelCount = 2
  Budget = 2
  MaxDay = 0
  MaxLapses = 1
  MaxRestarts = 1
  e1 = e1
  l1 = l1
  Cycles = {c1, c2}
  Sweeps = {e1}
  PushRoutes = {}
  Leads = {l1}
  NoCycle = nocycle
  NoLead = nolead
  MaxCycleFaults = 1
  MaxOrders = 1
  p1 = p1
  Monitors = {c1, c2}
  Watched = {1, 2}
  PerBatch = 2
  PerSource = 1
  Lookback = 1
  Terms = {1, 2}
  MaxPosts = 2
  MaxMishaps = 2
  Clerks = {c1, c2}
  Partners = {p1}
  Prospects = {1, 2}
  MatchCap = 1
  MaxRecs = 2
  MaxLetters = 2
  MaxVerdicts = 3
  NoPartner = nopartner
SYMMETRY Symmetry
CHECK_DEADLOCK FALSE
INVARIANTS TypeOK DeadModelAskedOnce MinuteLimitForgiven OneOpenRun  ReferralHolds
