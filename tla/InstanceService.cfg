SPECIFICATION Spec
CONSTANTS
  Launches = {1, 2}
  Requests = {r1, r2}
  MaxEvents = 2
  MaxStream = 1
  Environments = {{"crash", "spawn", "vacuum", "loss"}}
INVARIANTS TypeOK RegisteredIsRaised  WaitsOnLive
CHECK_DEADLOCK FALSE
