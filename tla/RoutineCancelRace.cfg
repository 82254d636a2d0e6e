SPECIFICATION Spec
CONSTANTS
  Pubs = {p1}
  Workers = {w1}
  Operators = {o1}
  None = None
  MaxAttempts = 1
  MaxPermits = 1
  MaxCrashes = 0
  DailyLimit = 2
  BatchSize = 1
  SlowWorkers = FALSE
  RequestRaces = TRUE
PROPERTY TerminalStays
