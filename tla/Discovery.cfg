SPECIFICATION Discovery
CONSTANTS
  a = a
  b = b
  r1 = r1
  r2 = r2
  r3 = r3
  Instances = {a, b}
  Requests = {}
  RunIds = {r1, r2, r3}
  NoRun = none
  StaleAfter = 1
  MaxTime = 5
  MaxLapses = 0
  MaxCrashes = 2
  MaxPauses = 1
  k1 = k1
  Companies = {k1}
  PlayRuns = {a, b}
  InOutreach = {}
  NoCompany = nocompany
  MaxPlayFaults = 2
  f1 = f1
  Firms = {f1}
  FirmRuns = {a, b}
  FirmsPushed = {}
  FirmsPooled = {f1}
  NoFirm = nofirm
  DailyTarget = 1
  PagesPerRun = 1
  BreakAt = 1
  MaxPage = 2
  MaxIcpEdits = 0
  MaxFirmFaults = 1
  x = x
  y = y
  Domains = {x, y}
  V1Runs = {a, b}
  Sources = {"deepline", "apify", "route", "jobo", "jd_first"}
  Target = 1
  NoDomain = nodomain
  MaxV1Faults = 1
SYMMETRY Symmetry
CHECK_DEADLOCK FALSE
INVARIANTS TypeOK LiveRunNotFailed OneRunningRow SourcingRules V1Rules
PROPERTIES VerdictIsFinal 
