SPECIFICATION Together
CONSTANTS
  s1 = s1
  s2 = s2
  d1 = d1
  d2 = d2
  li = li
  Sessions = {s1, s2}
  Drafts = {d1, d2}
  Slots = {li}
  Emails = {}
  NoDraft = none
  NoSlot = noslot
  Window = 1
  MaxAttempts = 2
  Backoff = 0
  Cooldown = 1
  MaxTime = 1
  MaxFaults = 1
  w1 = w1
  Hosts = {s1, s2}
  Operators = {w1}
  NoHost = nohost
  ContentHour = 0
  ScheduleHour = 0
  LastHour = 0
  MaxPartnerDay = 2
  MaxBatch = 1
  MaxEdits = 1
  MaxPartnerFaults = 1
  MaxLocks = 1
  MaxBoots = 2
  MaxTwins = 1
  s3 = s3
  Sweeps = {w1}
  Relinks = {s3}
  Signals = {1, 2, 3}
  Entity <- Speakers
  Concept <- Subjects
  Alike <- Similar
  Matching = {1}
  Backlog = 2
  LinkWindow = 1
  MinEntities = 2
  MaxTopicFaults = 1
  Desks = {s1, s2}
  TrendTopics = {1, 2}
  SweepLimit = 1
  Platforms = {"blog", "linkedin"}
  ClusterSize = 2
  MaxIdeas = 2
  MaxWritingFaults = 1
SYMMETRY Symmetry
CHECK_DEADLOCK FALSE
INVARIANTS SendRecordsSound DuplicateNeedsFault PartnerRules
  
