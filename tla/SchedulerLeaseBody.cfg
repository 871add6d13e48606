SPECIFICATION Spec
CONSTANTS
  a = a
  b = b
  Instances = {a, b}
  NoOwner = none
  TTL = 1
  MaxSkew = 0
  MaxTime = 3
  MaxCrashes = 0
INVARIANTS SingleLane
