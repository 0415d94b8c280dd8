SPECIFICATION Spec
CONSTANTS
  m1 = m1
  s1 = s1
  s2 = s2
  s3 = s3
  s4 = s4
  w1 = w1
  w2 = w2
  c1 = c1
  u1 = u1
  u2 = u2
  None = None
  Monitors <- OneMonitor
  Slots <- ThreeSlots
  Workers <- OneWorker
  Clients <- OneClient
  Urls <- TwoUrls
  Patches <- UrlPatches
  Threshold = 2
PROPERTY ResultsAreOfTheCurrentUrl
