SPECIFICATION FairSpec
CONSTANTS
  p1 = p1
  p2 = p2
  t1 = t1
  t2 = t2
  None = None
  Alerts <- TwoAlerts
  Unreadable <- OneAlert
  Procs = {p1, p2}
  Threads = {t1, t2}
  ProcOf <- Replicas
  ClaimLimit = 2
  StaleAfter = 1
  RetryEnabled = TRUE
  MaxAttempts = 2
  InitialBackoff = 1
  MaxBackoff = 2
  Jitter = 1
  Faults = 1
  Slow = 1
INVARIANTS
  Exclusive
  DuplicateHasCause
  ClosedRowsAreTrue
  RetryBudget
PROPERTIES
  ImplementsQueue
  EveryAlertCloses
