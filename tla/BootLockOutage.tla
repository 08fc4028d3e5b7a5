--------------------------- MODULE BootLockOutage ---------------------------
(***************************************************************************)
(* How long the owner-only services can be down.  outage counts the ticks  *)
(* during which nobody runs them although a process stands by, since the   *)
(* last time a process died or was told to stop; it observes BootLock and  *)
(* changes nothing in it.                                                  *)
(***************************************************************************)
EXTENDS BootLock

VARIABLE outage

Down == Standby # {} /\ Serving = {}

Dies(p) == Shutdown(p) \/ Exit(p) \/ Crash(p)

\* Where the count stops; OutageBounded says that it never gets there.
MaxOutage == (2 + MaxFaults) * (TTL + Lag)

OutageInit == Init /\ outage = 0

OutageNext ==
  \/ Tick /\ Down /\ outage' = IF outage < MaxOutage THEN outage + 1 ELSE outage
  \/ Tick /\ ~Down /\ outage' = 0
  \/ \E p \in Procs : Dies(p) /\ outage' = 0
  \/ \E p \in Procs : Process(p) /\ ~Dies(p) /\ outage' = IF Down' THEN outage ELSE 0
  \/ Evict /\ outage' = outage

OutageSpec == OutageInit /\ [][OutageNext]_<<vars, outage>>

FairOutageSpec == OutageSpec /\ Fairness

\* After a death the services are back within two reclaim intervals: in one the
\* dead holder's key expires, in the other the timer comes round, either as late
\* as may be.  A command that fails costs at most one more (its SET may have been
\* applied and the refusal is what the process sees).
OutageBounded == outage < (2 + faults) * (TTL + Lag)
=============================================================================
