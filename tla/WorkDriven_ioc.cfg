CONSTANTS
  Cves = {}
  Exploited = {}
  Scorable = {}
  CveBatch = 2
  Iocs = {i1, i2}
  Detectable = {i1}
  SweepLimit = 1
  KeepCompleted = 1
  KeepFailed = 1
  Window = 2
  MaxInbox = 1
  MaxDispatch = 1
  MaxQueue = 1
  MaxFaults = 1
  MaxDrops = 0
  MaxToggles = 1
  MaxCrashes = 1
SPECIFICATION FairSpec
PROPERTIES
  IocsEnriched
  BootSweepCatchesIocs
