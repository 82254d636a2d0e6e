SPECIFICATION Spec
CONSTANTS
  Pubs = {p1, p2}
  Workers = {w1}
  Operators = {}
  None = None
  MaxAttempts = 2
  MaxPermits = 2
  MaxCrashes = 1
  DailyLimit = 2
  BatchSize = 2
  SlowWorkers = FALSE
  RequestRaces = FALSE
SYMMETRY Symmetry
INVARIANTS DailyLimitRespected 
