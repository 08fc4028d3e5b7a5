CONSTANTS
  Iocs = {i1}
  None = None
  Handlers = {h1, h2}
  Reindexers = {timer, sync, admin}
  Timer = timer
  Batch = 1
  MaxRows = 2
  MaxVer = 3
  MaxInbox = 1
  MaxFaults = 1
  MaxDrops = 1
  MaxCrashes = 1
SPECIFICATION FairSpec
INVARIANTS
  TypeOK
  RowsReachIndex
PROPERTIES
  IndexConverges
