SPECIFICATION MCSpec
CONSTANTS
  Urls <- MCUrls
  DnsAnswers <- MCDnsAnswers
  ErrorChains <- MCErrorChains
  Statuses = {200, 301, 503}
  Chunks = {1, 2}
  MaxBytes = 2
  Budget = 1
  MaxResolve = 1
  Tabs = {a, b}
  MaxWrites = 2
  MaxEnds = 1
  MaxInFlight = 2
  Targets = {t1, t2}
  Reads = {r1}
  Writes = {o1, o2}
  MaxVersion = 2
  MaxMoves = 3
  MaxFailures = 1
  NoTarget = NoTarget
INVARIANTS
  SocketReachesVettedAddress
  VerdictRestsOnAnswer
  CsrfRefusalExplained
  ShownIsCurrentOrRacing
  OwnWriteStays
PROPERTIES
  NoSignInOnDeadSession
  ConfirmedSignOutEndsSession
  EveryCheckEnds
  SessionIsEventuallyKnown
  ShownEventuallyCurrent
CHECK_DEADLOCK FALSE
