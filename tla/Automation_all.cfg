CONSTANTS
  Reports = {a}
  Slots = {}
  Requests = {}
  None = None
  Endings = {"completed"}
  MaxLosses = 1
  triage = triage
  echo = echo
  Playbooks = {triage, echo}
  Heard <- HeardEvents
  Actions <- ActionsOf
  Execs = {x1, x2}
  Emitters = {e1}
  MaxEvents = 1
SPECIFICATION FairSpec
INVARIANTS
  TypeOK
  RunningHasCause
  CompletedIsTracked
PROPERTIES
  NotificationsStop
