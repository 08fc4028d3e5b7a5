CONSTANTS
  Procs = {p1, p2}
  None = None
  Ghost = Ghost
  TTL = 12
  HB = 4
  Lag = 1
  MaxFaults = 2
  MaxEvictions = 1
  MaxCrashes = 1
SPECIFICATION Spec
SYMMETRY Symmetry
INVARIANTS
  TypeOK
  HolderKeepsLock
  OverlapOnlyWhileStopping
  UnguardedHasCause
PROPERTIES
  OnlyOwnerReleases
  ImplementsSoleOwner
