CONSTANTS
  Jobs = {j1}
  Iocs = {i1, i2}
  Batches <- NoneOrAll
  Values = {v1}
  Sources = {"all", "mitre", "cveorg"}
  Attempts = 2
  MaxStalls = 1
  MaxFaults = 1
SPECIFICATION FairEventsSpec
CHECK_DEADLOCK FALSE
INVARIANTS
  TypeOK
  StampsAgree
  CompletedHasRun
  OnlySkipsStayOpen
  AnnouncedAsSettled
  FailureAlerted
  AddedAnnounced
PROPERTIES
  SyncSettles
  BatchStamps
