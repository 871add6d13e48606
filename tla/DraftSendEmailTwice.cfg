SPECIFICATION Spec
CONSTANTS
  s1 = s1
  d1 = d1
  em = em
  Sessions = {s1}
  Drafts = {d1}
  Slots = {em}
  Emails = {em}
  NoDraft = none
  NoSlot = noslot
  Window = 1
  MaxAttempts = 2
  Backoff = 0
  Cooldown = 2
  MaxTime = 1
  MaxFaults = 0
INVARIANTS NoDuplicatePush
