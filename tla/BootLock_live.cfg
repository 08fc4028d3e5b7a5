CONSTANTS
  Procs = {p1, p2}
  None = None
  Ghost = Ghost
  TTL = 3
  HB = 1
  Lag = 1
  MaxFaults = 1
  MaxEvictions = 1
  MaxCrashes = 1
SPECIFICATION FairOutageSpec
INVARIANTS
  OutageBounded
PROPERTIES
  ServicesReclaimed
