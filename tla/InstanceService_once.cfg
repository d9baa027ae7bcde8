SPECIFICATION FairSpec
CONSTANTS
  Launches = {1, 2}
  Requests = {r1}
  MaxEvents = 1
  MaxStream = 2
  Environments = {{}, {"crash"}, {"spawn"}, {"vacuum", "loss"}}
INVARIANTS NoOrphan StatusFits
   
CHECK_DEADLOCK FALSE
