CONSTANTS
  url = url
  IOCs = {url, hash, ip}
  MaxAge = 2
  MaxScore = 1
  Stale <- StaleDays
  Floor <- MinScore
  Unscorable = {ip}
  BatchSize = 1
  MaxOffset = 2
  MaxFaults = 1
SPECIFICATION FairMaintenanceSpec
PROPERTIES
  ScoredStays
  DecayedEventually
  BackfillEnds
