SPECIFICATION Spec
CONSTANTS
  Dir = {d1, d2}
  MaxVersion = 3
  MaxToggles = 1
  MaxMishaps = 1
  MaxOps = 2
  MaxBackups = 4
  Environments = {{"toggle"}, {"again"}, {"drop"}, {"daemon", "lookup"}, {"mothership"}, {"loss", "launch"}, {"disk", "drain"}}
INVARIANTS TypeOK  StaysStopped ReplacedIsSaved NothingLost PowerGivenBack
CHECK_DEADLOCK FALSE
PROPERTIES PoweredRuns
