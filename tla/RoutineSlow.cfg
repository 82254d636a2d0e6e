SPECIFICATION Spec
CONSTANTS
  Pubs = {p1}
  Workers = {w1, w2}
  Operators = {}
  None = None
  MaxAttempts = 2
  MaxPermits = 2
  MaxCrashes = 0
  DailyLimit = 2
  BatchSize = 1
  SlowWorkers = TRUE
  RequestRaces = FALSE
SYMMETRY Symmetry
INVARIANTS PermitSpentOnce CallUnderLock
