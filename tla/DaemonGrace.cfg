SPECIFICATION FairSpec
CONSTANTS
  Requests = {r1, r2}
  Loops = {l1, l2}
  Grace = 7
  Retry = 2
INVARIANTS TypeOK OneLoop HeldOnlyInOutage
PROPERTY PollingStops
