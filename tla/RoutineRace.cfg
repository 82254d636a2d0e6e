SPECIFICATION Spec
CONSTANTS
  Pubs = {p1}
  Workers = {w1}
  Operators = {o1}
  None = None
  MaxAttempts = 2
  MaxPermits = 2
  MaxCrashes = 1
  DailyLimit = 2
  BatchSize = 1
  SlowWorkers = FALSE
  RequestRaces = TRUE
INVARIANTS ClaimBacked RetryIsSafe
