SPECIFICATION Spec
CONSTANTS
  Executors = {e1, e2}
  None = None
  Target = 2
  MaxFaults = 1
INVARIANTS   PermitsDieWithBatch NobodyLeavesOwning
PROPERTY GuardAccepts
