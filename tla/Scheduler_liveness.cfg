SPECIFICATION CompetingSpec
CONSTANTS
  Monitors = {m1, m2}
  Procs = {p1}
  Clients = {c1}
  Interval = 1
  MaxLag = 1
  BatchSize = 1
  ReconcileEvery = 1
  MaxTime = 2
  Patches <- UrlPatches
  None = None
PROPERTY DueIsClaimed
