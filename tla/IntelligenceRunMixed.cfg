SPECIFICATION LiveSpec
CONSTANTS
  a = a
  b = b
  q = q
  r1 = r1
  r2 = r2
  Instances = {a, b}
  Requests = {q}
  RunIds = {r1, r2}
  NoRun = none
  StaleAfter = 1
  MaxTime = 3
  MaxLapses = 0
  MaxCrashes = 1
  MaxPauses = 1
INVARIANTS ScheduledSingleLane
PROPERTIES OrphanClosed
