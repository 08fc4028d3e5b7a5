CONSTANTS
  IOCs = {i1, i2}
  MaxAge = 1
  MaxScore = 1
  Stale <- StaleDays
  Floor <- MinScore
  Unscorable = {i2}
  BatchSize = 1
  MaxOffset = 2
  MaxFaults = 1
  Requests = {r1, r2}
  Draft = {i1, i2}
  Nobody = Nobody
  MaxErrors = 1
SPECIFICATION Spec
INVARIANTS
  TypeOK
  FreshHiddenOnlyByRace
  CommittedIsComplete
