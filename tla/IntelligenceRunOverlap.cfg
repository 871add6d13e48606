SPECIFICATION Spec
CONSTANTS
  a = a
  q = q
  r1 = r1
  r2 = r2
  Instances = {a}
  Requests = {q}
  RunIds = {r1, r2}
  NoRun = none
  StaleAfter = 1
  MaxTime = 1
  MaxLapses = 0
  MaxCrashes = 0
  MaxPauses = 0
INVARIANTS NoOverlappingRuns
