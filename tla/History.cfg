SPECIFICATION MCSpec
CONSTANTS
  Tracked = {m1, m2}
  Slots = {0, 1, 2}
  Workers = {w1, w2}
  Clients = {c1, c2}
  Patches <- MCPatches
  Threshold = 2
  StaleLimit = 1
  Period = 1
  DayWindow = 2
  WeekWindow = 3
  BucketCount = 2
  CheckRetention = 2
  IncidentRetention = 2
  OverviewLimit = 1
  DetailLimit = 2
  PublicLimit = 2
  PublicPerMonitor = 1
  Flight = 1
  MaxAge = 3
SYMMETRY Symmetry
INVARIANTS
  FiguresAgree
  StaleTracksSilence
  NothingWrongIsHidden
  ScreensAgree
PROPERTY RetentionSparesOpenIncidents
CHECK_DEADLOCK FALSE
