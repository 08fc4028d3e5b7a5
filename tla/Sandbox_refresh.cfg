CONSTANTS
  Reports = {a, b}
  Slots = {s}
  Requests = {q}
  None = None
  Endings = {"completed", "timeout"}
  MaxLosses = 1
SPECIFICATION FairSandboxSpec
INVARIANTS
  StampedIffCompleted
PROPERTIES
  RowFollowsVendor
