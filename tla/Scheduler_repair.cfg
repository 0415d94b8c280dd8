SPECIFICATION FairSpec
CONSTANTS
  Monitors = {m1}
  Procs = {p1}
  Clients = {c1, c2}
  Interval = 1
  MaxLag = 1
  BatchSize = 1
  ReconcileEvery = 2
  MaxTime = 0
  Patches <- PausePatches
  None = None
PROPERTY UnscheduledIsRepaired
