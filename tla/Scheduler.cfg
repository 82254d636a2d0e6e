SPECIFICATION Spec
CONSTANTS
  Loops = {l1, l2}
  Canaries = {c1, c2}
  None = None
  Zombie = Zombie
  MaxFaults = 3
INVARIANTS LeaderIsAlone NoOrphanLock OnePass
PROPERTY Failover
