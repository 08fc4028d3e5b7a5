----------------------------- MODULE SoleOwner ------------------------------
(***************************************************************************)
(* What the boot lock promises while Redis works: at most one process owns *)
(* the background services.  A process that is shutting down may still be  *)
(* running them, or even start them late, beside the owner; such a process *)
(* is retiring and only ever leaves.  Once Redis has failed a command or   *)
(* lost the key, nothing is promised any more.                             *)
(***************************************************************************)
CONSTANT Procs

VARIABLES
  active,     \* processes that run the services and are not shutting down
  retiring,   \* processes that run the services while shutting down
  broken      \* has Redis ever failed a command or lost the key?

vars == <<active, retiring, broken>>

Init == active = {} /\ retiring = {} /\ broken = FALSE

Take(p) ==
  /\ active = {} /\ p \notin retiring
  /\ active' = {p}
  /\ UNCHANGED <<retiring, broken>>

Retire(p) ==
  /\ p \in active
  /\ active' = active \ {p}
  /\ retiring' = retiring \union {p}
  /\ UNCHANGED broken

LateStart(p) ==
  /\ p \notin active
  /\ retiring' = retiring \union {p}
  /\ UNCHANGED <<active, broken>>

Leave(p) ==
  /\ active' = active \ {p}
  /\ retiring' = retiring \ {p}
  /\ UNCHANGED broken

Break == broken'

Next ==
  \/ Break
  \/ ~broken /\ \E p \in Procs : Take(p) \/ Retire(p) \/ LateStart(p) \/ Leave(p)

Spec == Init /\ [][Next]_vars
=============================================================================
