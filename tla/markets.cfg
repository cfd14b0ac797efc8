SPECIFICATION FairSpec
CONSTANTS
  None = None
  Markets = {m1}
  Procs = {p1, p2}
  Retention = 1
  PurgeLimit = 2
  StaleAfter = 1
  RetryAfter = 0
  BatchSize = 2
  Concurrency = 1
  Sweepers = {p1}
  Reapers = {p1}
  Walkers = {p1, p2}
  Faults = 1
  Slow = 1
INVARIANTS
  NoLimbo
  OneWalk
PROPERTIES
  TrackedComesLive
  BackfillEnds
