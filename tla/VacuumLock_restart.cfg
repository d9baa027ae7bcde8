\* Two vacuum jobs; the daemon may restart, nothing else disturbs the lock.
SPECIFICATION Spec
CONSTANTS
  Clients = {c1, c2}
  NoOne = NoOne
  MaxRestarts = 1
  Faults = {"restart"}
INVARIANT VacuumNeverShared
CHECK_DEADLOCK FALSE
