CONSTANTS
  Cves = {c1, c2, c3}
  Exploited = {c1, c3}
  Scorable = {c1, c2}
  CveBatch = 2
  Iocs = {}
  Detectable = {}
  SweepLimit = 2
  KeepCompleted = 1
  KeepFailed = 1
  Window = 2
  MaxInbox = 1
  MaxDispatch = 1
  MaxQueue = 1
  MaxFaults = 1
  MaxDrops = 1
  MaxToggles = 0
  MaxCrashes = 1
SPECIFICATION FairSpec
INVARIANTS
  SwallowedHasCause
PROPERTIES
  ScoredEventually
  BootSweepCatchesUrgent
