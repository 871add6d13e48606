SPECIFICATION LiveSpec
CONSTANTS
  Instances = {a, b}
  a = a
  b = b
  NoOwner = none
  TTL = 1
  MaxSkew = 1
  MaxTime = 2
  MaxCrashes = 1
INVARIANTS TypeOK OneFreshHolder FreshHolderOwnsRow
PROPERTIES StealOnlyExpired ImplementsExclusion OwnedRowRunsAgain
