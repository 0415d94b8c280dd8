SPECIFICATION MCSpec
CONSTANTS
  Links = {k1, k2}
  Sessions = {s1, s2}
  Requests = {r1, r2}
  None = None
  Owners = {o1, o2}
  Visitors = {v1}
  Slugs = {g1, g2, g3, taken}
  TakenSlug = taken
  SlotCount = 2
  SlugAttempts = 2
  MaxRequests = 2
SYMMETRY Symmetry
INVARIANTS
  LinkSpentOnce
  ConfirmedByLink
  DisplacedSessionsEnd
  SettingsShowTheOnePage
  RevokedPageIsGone
PROPERTIES
  SupersededNeverWins
  RefusedOnlyWhenFull
