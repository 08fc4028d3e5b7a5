CONSTANTS
  j1 = j1
  j2 = j2
  old = old
  feeds = feeds
  graph = graph
  c1 = c1
  c2 = c2
  Jobs = {j1, j2}
  Retired = {old}
  Queues = {feeds, graph}
  QueueOf <- TwoJobs
  Managed = {feeds}
  Crons = {c1, c2}
  Default <- TwoJobsDefault
  Unset = Unset
  Reqs = {r1, r2, r3}
  Boot = Boot
  MaxBoots = 2
  MaxFaults = 1
SYMMETRY Symmetry
SPECIFICATION MCSpec
INVARIANTS
  TypeOK
  LatestScheduleSurvives
  BootRepairs
