SPECIFICATION Spec
CONSTANTS
  Pubs = {p1}
  Workers = {w1, w2}
  Operators = {}
  None = None
  MaxAttempts = 1
  MaxPermits = 1
  MaxCrashes = 0
  DailyLimit = 2
  BatchSize = 1
  SlowWorkers = TRUE
  RequestRaces = FALSE
INVARIANT SubmissionCovered
