SPECIFICATION Spec
CONSTANTS
  Pubs = {p1}
  Workers = {w1}
  Operators = {}
  None = None
  MaxAttempts = 2
  MaxPermits = 2
  MaxCrashes = 0
  DailyLimit = 2
  BatchSize = 1
  SlowWorkers = FALSE
  RequestRaces = FALSE
INVARIANT UnknownResolvable
