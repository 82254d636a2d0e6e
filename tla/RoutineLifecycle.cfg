SPECIFICATION FairSpec
CONSTANTS
  Pubs = {p1}
  Workers = {w1}
  Operators = {}
  None = None
  MaxAttempts = 2
  MaxPermits = 2
  MaxCrashes = 1
  DailyLimit = 2
  BatchSize = 1
  SlowWorkers = FALSE
  RequestRaces = FALSE
PROPERTIES ImplementsLifecycle ClaimsResolve
