SPECIFICATION Spec
CONSTANTS
  Monitors = {m1}
  Procs = {p1, p2}
  Clients = {c1}
  Interval = 1
  MaxLag = 2
  BatchSize = 1
  ReconcileEvery = 1
  MaxTime = 3
  Patches <- AllPatches
  None = None
INVARIANT ScheduleInvariant
PROPERTY DoubleClaimNeedsRewind
PROPERTY NoBurst
PROPERTY ClaimedIsFresh
SYMMETRY Symmetry
