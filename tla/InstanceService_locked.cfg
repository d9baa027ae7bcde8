SPECIFICATION Spec
CONSTANTS
  Launches = {1, 2}
  Requests = {r1}
  MaxEvents = 2
  MaxStream = 2
  Environments = {{"vacuum"}}
INVARIANT LockKeepsDown
CHECK_DEADLOCK FALSE
