SPECIFICATION Outreach
CONSTANTS
  s1 = s1
  d1 = d1
  d2 = d2
  li = li
  l2 = l2
  Sessions = {s1}
  Drafts = {d1, d2}
  Slots = {li, l2}
  Emails = {}
  NoDraft = none
  NoSlot = noslot
  Window = 1
  MaxAttempts = 2
  Backoff = 1
  Cooldown = 2
  MaxTime = 2
  MaxFaults = 1
  Ranks = {1, 2}
  Sequencers = {d1, d2}
  MaxContacts = 2
  Firms = {d1, d2}
  IcpWorkers = {1, 2}
  FirmFacts <- MCFirmFacts
  Icps <- MCIcps
  Figures = {15, 90}
  FirmRoles = {"ae", "sdr"}
  Unknown = unknown
  RevenueP25 = 2
  RevenueP75 = 4
  SalesP25 = 12
  SalesP75 = 28
  PassThroughMin = 10
  PerEmployeeMin = 1
  PerEmployeeMax = 20
  RetryAfter = 0
  MaxEvaluations = 2
  SweepLimit = 1
  MaxIcpDay = 2
  MaxEdits = 1
SYMMETRY Symmetry
CHECK_DEADLOCK FALSE
INVARIANTS DeliveredWasApproved CooldownKept IcpRules
 
