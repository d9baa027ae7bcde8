SPECIFICATION Spec
CONSTANTS
  Launches = {1, 2}
  Requests = {r1}
  MaxEvents = 3
  MaxStream = 2
  Environments = {{}}
INVARIANT OffIsDown
CHECK_DEADLOCK FALSE
