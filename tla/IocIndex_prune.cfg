CONSTANTS
  Iocs = {i1}
  None = None
  Handlers = {h1}
  Reindexers = {timer}
  Timer = timer
  Batch = 1
  MaxRows = 2
  MaxVer = 3
  MaxInbox = 1
  MaxFaults = 0
  MaxDrops = 0
  MaxCrashes = 0
SPECIFICATION FairSpec
PROPERTIES
  DecayedDropped
