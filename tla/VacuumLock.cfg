\* Two vacuum jobs and every combination of disturbances.
SPECIFICATION FairSpec
CONSTANTS
  Clients = {c1, c2}
  NoOne = NoOne
  MaxRestarts = 1
  Faults = {"warm", "slow", "restart"}
INVARIANTS TypeOK  
PROPERTIES IsMutex LockReleased
CHECK_DEADLOCK FALSE
