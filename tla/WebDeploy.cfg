SPECIFICATION FairSpec
CONSTANTS
  a1 = a1
  a2 = a2
  App = {a1, a2}
  Removable = {a1}
  Commit = {c1, c2}
  NoCommit = NoCommit
  MaxJobs = 3
  QueueMax = 2
  MaxMishaps = 1
  Quota <- QuotaDef
INVARIANTS TypeOK ShownIsRecorded NoDeadRoute CancelledNeverShown LeaseIsHeld OneVersionUp LastPushAnswered
PROPERTIES IsWebSite DeploymentsEnd
CHECK_DEADLOCK FALSE
