------------------------------ MODULE BootLock ------------------------------
(***************************************************************************)
(* The cross-process boot lock (apps/api/src/lib/bootlock.ts) and the boot *)
(* and shutdown sequence it guards (apps/api/src/startup.ts).              *)
(*                                                                         *)
(* Every API or gateway process calls bootServices().  The one whose       *)
(* SET NX PX succeeds runs the owner-only services and refreshes the key   *)
(* with a heartbeat; the others stand by and retry on a timer.  The key    *)
(* lives in the cache Redis, which may refuse commands, lose a reply and,  *)
(* being configured allkeys-lru, evict the key.                            *)
(*                                                                         *)
(* Time is discrete.  timer[p] is what is left of the one timer that       *)
(* matters to p in its mode: the heartbeat interval while "holding", the   *)
(* reclaim interval in "standby", and the age of the outstanding SET while *)
(* "booting" or "reclaiming".  An event loop may run a due callback up to  *)
(* Lag ticks late; a process that is later than that counts as crashed.    *)
(***************************************************************************)
EXTENDS Integers

CONSTANTS
  Procs,          \* processes that call bootServices (API, gateway, ...)
  None,           \* no key in Redis
  Ghost,          \* owner id of an incarnation that no longer runs
  TTL,            \* TTL_MS, also the period of the reclaim timer
  HB,             \* HEARTBEAT_MS
  Lag,            \* how late a callback or a reply may be, in ticks
  MaxFaults,      \* bound: commands to Redis that fail or lose their reply
  MaxEvictions,   \* bound: evictions (or manual deletions) of the key
  MaxCrashes      \* bound: processes killed without a shutdown handler

ASSUME BootLockAssumption ==
  /\ TTL \in Nat \ {0} /\ HB \in Nat \ {0} /\ HB <= TTL
  /\ Lag \in Nat /\ Lag < TTL
  /\ MaxFaults \in Nat /\ MaxEvictions \in Nat /\ MaxCrashes \in Nat
  /\ None \notin Procs /\ Ghost \notin Procs /\ None # Ghost

VARIABLES
  lock,       \* value of the key: the owner's id, or None
  ttl,        \* ticks before the key expires; 0 when there is no key
  mode,       \* what each process is doing
  reply,      \* answer to p's outstanding SET that its code has not seen yet
  timer,      \* p's running timer
  stopping,   \* has p's shutdown handler released the lock?
  workers,    \* processes whose BullMQ workers consume jobs
  faults, evictions, crashes    \* how much of each bound is used

redis == <<lock, ttl>>
env == <<faults, evictions, crashes>>
vars == <<lock, ttl, mode, reply, timer, stopping, workers, faults, evictions,
          crashes>>

Modes == {"down", "booting", "standby", "reclaiming", "holding", "unguarded"}
Replies == {"none", "OK", "nil", "error"}

TypeOK ==
  /\ lock \in Procs \union {None, Ghost}
  /\ ttl \in 0..TTL
  /\ lock = None <=> ttl = 0
  /\ mode \in [Procs -> Modes]
  /\ reply \in [Procs -> Replies]
  /\ timer \in [Procs -> Int]
  /\ stopping \in [Procs -> BOOLEAN]
  /\ workers \in SUBSET Procs
  /\ faults \in 0..MaxFaults
  /\ evictions \in 0..MaxEvictions
  /\ crashes \in 0..MaxCrashes

Init ==
  /\ lock = None /\ ttl = 0
  /\ mode = [p \in Procs |-> "down"]
  /\ reply = [p \in Procs |-> "none"]
  /\ timer = [p \in Procs |-> 0]
  /\ stopping = [p \in Procs |-> FALSE]
  /\ workers = {}
  /\ faults = 0 /\ evictions = 0 /\ crashes = 0

(***************************************************************************)
(* Processes whose owner-only services run: those that acquired the lock,  *)
(* and those that run without it, because the acquisition failed open,     *)
(* the heartbeat found the key lost, or the process is shutting down.      *)
(***************************************************************************)
Serving == {p \in Procs : mode[p] \in {"holding", "unguarded"}}

Waiting(p) == mode[p] \in {"booting", "reclaiming"}

Enter(p, m, t) ==
  /\ mode' = [mode EXCEPT ![p] = m]
  /\ timer' = [timer EXCEPT ![p] = t]

-----------------------------------------------------------------------------
(***************************************************************************)
(* Redis.                                                                  *)
(***************************************************************************)
UseFault == faults < MaxFaults /\ faults' = faults + 1

\* Mutants of SetNx: the NX option forgotten, the PX option forgotten.
SetWithoutNx(p, r) == r = "OK" /\ lock' = p /\ ttl' = TTL /\ UNCHANGED faults
SetWithoutPx(p, r) ==
  \/ r = "OK" /\ lock = None /\ lock' = p /\ ttl' = 0 /\ UNCHANGED faults
  \/ r = "nil" /\ lock # None /\ UNCHANGED <<redis, faults>>

\* SET key p PX TTL NX, answered with r.  A command can fail outright, or be
\* applied and lose its answer: the client then sends it again and sees nil,
\* or gives up after maxRetriesPerRequest and throws.
SetNx(p, r) ==
  \/ r = "OK" /\ lock = None /\ lock' = p /\ ttl' = TTL /\ UNCHANGED faults
  \/ r = "nil" /\ lock # None /\ UNCHANGED <<redis, faults>>
  \/ r = "error" /\ UseFault /\ UNCHANGED redis
  \/ r \in {"nil", "error"} /\ lock = None /\ UseFault /\ lock' = p /\ ttl' = TTL

\* Mutant of CompareAndDelete: a plain DEL.
DeleteAnyway(p) == lock' = None /\ ttl' = 0

\* The compare-and-delete script of releaseBootLock.
CompareAndDelete(p) ==
  IF lock = p THEN lock' = None /\ ttl' = 0 ELSE UNCHANGED redis

\* The compare-and-PEXPIRE script of refreshLock.
CompareAndExpire(p) ==
  /\ ttl' = IF lock = p THEN TTL ELSE ttl
  /\ UNCHANGED lock

\* The owner id is unique to a process incarnation, so the key a dead process
\* leaves behind belongs to nobody.
Disown(p) == lock' = IF lock = p THEN Ghost ELSE lock

\* allkeys-lru eviction, or an operator's DEL.
Evict ==
  /\ lock # None /\ evictions < MaxEvictions
  /\ lock' = None /\ ttl' = 0
  /\ evictions' = evictions + 1
  /\ UNCHANGED <<mode, reply, timer, stopping, workers, faults, crashes>>

-----------------------------------------------------------------------------
(***************************************************************************)
(* Boot and reclaim.                                                       *)
(***************************************************************************)

\* bootServices: the process starts and sends its first SET.
BootServices(p) ==
  /\ mode[p] = "down"
  /\ \E r \in Replies \ {"none"} : SetNx(p, r) /\ reply' = [reply EXCEPT ![p] = r]
  /\ Enter(p, "booting", TTL)
  /\ UNCHANGED <<stopping, workers, evictions, crashes>>

\* The reclaim interval of a standby process fires and sends another SET.
\* Nothing cancels the interval when the process shuts down.
ReclaimPoll(p) ==
  /\ mode[p] = "standby" /\ timer[p] <= 0
  /\ \E r \in Replies \ {"none"} : SetNx(p, r) /\ reply' = [reply EXCEPT ![p] = r]
  /\ Enter(p, "reclaiming", TTL)
  /\ UNCHANGED <<stopping, workers, evictions, crashes>>

\* All three outcomes of the first SET wire the shutdown handler, which imports
\* workerEvents.ts, and importing that module constructs the BullMQ workers,
\* which consume jobs from then on.
LoadWorkers(p) ==
  workers' = IF mode[p] = "booting" THEN workers \union {p} ELSE workers

\* Mutant of Acquired: the heartbeat is not started.
AcquiredWithoutHeartbeat(p) ==
  /\ Waiting(p) /\ reply[p] = "OK"
  /\ Enter(p, "unguarded", 0)
  /\ reply' = [reply EXCEPT ![p] = "none"]
  /\ LoadWorkers(p)
  /\ UNCHANGED <<redis, stopping, env>>

\* tryAcquireBootLock saw OK: start the heartbeat, boot the services.
Acquired(p) ==
  /\ Waiting(p) /\ reply[p] = "OK"
  /\ Enter(p, "holding", HB)
  /\ reply' = [reply EXCEPT ![p] = "none"]
  /\ LoadWorkers(p)
  /\ UNCHANGED <<redis, stopping, env>>

\* Mutant of Refused: the reclaim interval is twice the TTL.
RefusedSlowPoll(p) ==
  /\ Waiting(p) /\ reply[p] = "nil"
  /\ Enter(p, "standby", 2 * TTL)
  /\ reply' = [reply EXCEPT ![p] = "none"]
  /\ LoadWorkers(p)
  /\ UNCHANGED <<redis, stopping, env>>

\* It saw nil: a booting process starts the reclaim interval, a reclaiming one
\* keeps the interval it has.
Refused(p) ==
  /\ Waiting(p) /\ reply[p] = "nil"
  /\ Enter(p, "standby", IF mode[p] = "booting" THEN TTL ELSE timer[p])
  /\ reply' = [reply EXCEPT ![p] = "none"]
  /\ LoadWorkers(p)
  /\ UNCHANGED <<redis, stopping, env>>

\* It threw: fail open, boot the services with neither lock nor heartbeat.
FailedOpen(p) ==
  /\ Waiting(p) /\ reply[p] = "error"
  /\ Enter(p, "unguarded", 0)
  /\ reply' = [reply EXCEPT ![p] = "none"]
  /\ LoadWorkers(p)
  /\ UNCHANGED <<redis, stopping, env>>

(***************************************************************************)
(* Heartbeat.                                                              *)
(***************************************************************************)

\* refreshLock: extend the TTL if we still own the key, else stop the heartbeat
\* and leave the services running.
RefreshLock(p) ==
  /\ mode[p] = "holding" /\ timer[p] <= 0
  /\ CompareAndExpire(p)
  /\ IF lock = p THEN Enter(p, "holding", HB) ELSE Enter(p, "unguarded", 0)
  /\ UNCHANGED <<reply, stopping, workers, env>>

\* Mutant of RefreshFailed: back off for two periods after an error.
RefreshFailedBackoff(p) ==
  /\ mode[p] = "holding" /\ timer[p] <= 0
  /\ UseFault
  /\ UNCHANGED redis
  /\ Enter(p, "holding", 2 * HB)
  /\ UNCHANGED <<reply, stopping, workers, evictions, crashes>>

\* refreshLock threw: only a log line, the interval goes on.  The script may
\* have run before the answer was lost.
RefreshFailed(p) ==
  /\ mode[p] = "holding" /\ timer[p] <= 0
  /\ UseFault
  /\ CompareAndExpire(p) \/ UNCHANGED redis
  /\ Enter(p, "holding", HB)
  /\ UNCHANGED <<reply, stopping, workers, evictions, crashes>>

(***************************************************************************)
(* Shutdown.                                                               *)
(***************************************************************************)

\* SIGTERM or SIGINT once the handlers are wired (not while booting): stop the
\* heartbeat and release the lock first; the services run until the exit.  The
\* handler may run again while the first run is still closing connections.
Shutdown(p) ==
  /\ mode[p] \notin {"down", "booting"}
  /\ \/ CompareAndDelete(p) /\ UNCHANGED faults
     \/ UseFault /\ (CompareAndDelete(p) \/ UNCHANGED redis)
  /\ IF mode[p] = "holding" THEN Enter(p, "unguarded", 0) ELSE UNCHANGED <<mode, timer>>
  /\ stopping' = [stopping EXCEPT ![p] = TRUE]
  /\ UNCHANGED <<reply, workers, evictions, crashes>>

Reset(p) ==
  /\ Enter(p, "down", 0)
  /\ reply' = [reply EXCEPT ![p] = "none"]
  /\ stopping' = [stopping EXCEPT ![p] = FALSE]
  /\ workers' = workers \ {p}
  /\ Disown(p) /\ UNCHANGED ttl

\* stopWorkers has waited for the jobs in flight.
StopWorkers(p) ==
  /\ stopping[p] /\ p \in workers
  /\ workers' = workers \ {p}
  /\ UNCHANGED <<redis, mode, reply, timer, stopping, env>>

\* process.exit(0) at the end of the shutdown handler.
Exit(p) ==
  /\ stopping[p] /\ p \notin workers
  /\ Reset(p)
  /\ UNCHANGED env

\* SIGKILL (tsx watch reloads, OOM), or a signal before the handlers are wired.
Crash(p) ==
  /\ mode[p] # "down" /\ crashes < MaxCrashes
  /\ Reset(p)
  /\ crashes' = crashes + 1
  /\ UNCHANGED <<faults, evictions>>

(***************************************************************************)
(* Time.                                                                   *)
(***************************************************************************)
MayWait(p) ==
  /\ Waiting(p) => timer[p] > TTL - Lag
  /\ mode[p] \in {"standby", "holding"} => timer[p] > -Lag

Runs(p) == Waiting(p) \/ mode[p] \in {"standby", "holding"}

Tick ==
  /\ \A p \in Procs : MayWait(p)
  /\ ttl' = IF ttl = 0 THEN 0 ELSE ttl - 1
  /\ lock' = IF ttl = 1 THEN None ELSE lock
  /\ timer' = [p \in Procs |-> IF Runs(p) THEN timer[p] - 1 ELSE timer[p]]
  /\ UNCHANGED <<mode, reply, stopping, workers, env>>

Process(p) ==
  \/ BootServices(p) \/ ReclaimPoll(p)
  \/ Acquired(p) \/ Refused(p) \/ FailedOpen(p)
  \/ RefreshLock(p) \/ RefreshFailed(p)
  \/ Shutdown(p) \/ StopWorkers(p) \/ Exit(p) \/ Crash(p)

Next == Tick \/ Evict \/ \E p \in Procs : Process(p)

Spec == Init /\ [][Next]_vars

\* Timers and replies are served, time passes and a shutdown handler finishes
\* (startup.ts awaits allSettled, then exits).  Nobody has to start or stop a
\* process, and nothing has to fail.
Fairness ==
  /\ WF_vars(Tick)
  /\ \A p \in Procs :
       /\ WF_vars(ReclaimPoll(p)) /\ WF_vars(RefreshLock(p))
       /\ WF_vars(StopWorkers(p)) /\ WF_vars(Exit(p))
       /\ WF_vars(Acquired(p) \/ Refused(p) \/ FailedOpen(p))

FairSpec == Spec /\ Fairness

-----------------------------------------------------------------------------
(***************************************************************************)
(* Properties.                                                             *)
(***************************************************************************)

(***************************************************************************)
(* How old a holder's last refresh can be when its timer is set, after f   *)
(* failed commands: a late first reply, and a late heartbeat per failure.  *)
(* They fit if one more heartbeat, run as late as allowed, finds the key.  *)
(***************************************************************************)
Late(f) == Lag + f * (HB + Lag)
Fits(f) == Late(f) + HB + Lag < TTL

\* A process whose heartbeat runs owns the key: no late callback and no failed
\* heartbeat lets the key expire under it, as long as the failures fit in one
\* TTL (bootlock.ts: 30 s against a 10 s heartbeat) and the key is not evicted.
HolderKeepsLock ==
  evictions = 0 /\ Fits(faults) =>
    \A p \in Procs : mode[p] = "holding" /\ ~stopping[p] => lock = p

\* Unless Redis fails, two processes run the owner-only services together only
\* while all but one of them are shutting down (startup.ts releases the lock
\* before it stops the workers).
OverlapOnlyWhileStopping ==
  faults = 0 /\ evictions = 0 =>
    \A p, q \in Serving : p # q => stopping[p] \/ stopping[q]

\* A process that runs the services unprotected is stopping, or Redis failed
\* it, or the key was evicted: there is no other way to lose the guard.
UnguardedHasCause ==
  \A p \in Procs :
    mode[p] = "unguarded" => stopping[p] \/ faults > 0 \/ evictions > 0

\* The key leaves a live owner's hands only when it expires, is evicted or is
\* released by that owner's own shutdown: the scripts compare before they
\* delete, and SET has NX.
OnlyOwnerReleases ==
  [][\A p \in Procs :
       lock = p /\ lock' # p =>
         ttl = 1 \/ evictions' > evictions \/ mode'[p] = "down" \/ stopping'[p]]_vars

\* While Redis works and keeps the key, the services have at most one owner that
\* is not shutting down, and the next one starts only after the last has retired
\* or died.
Failed == faults > 0 \/ evictions > 0
Active == {p \in Serving : ~stopping[p]}
Retiring == {p \in Serving : stopping[p]}
Owners ==
  INSTANCE SoleOwner WITH active <- Active, retiring <- Retiring, broken <- Failed
ImplementsSoleOwner == Owners!Spec

\* Once nobody is being shut down any more, a process in standby does not wait
\* beside dead services: the dead holder's key expires and somebody reclaims it.
Standby == {p \in Procs : mode[p] \in {"standby", "reclaiming"}}
ServicesReclaimed ==
  <>[](Standby # {} /\ \A p \in Procs : ~stopping[p]) => []<>(Serving # {})
=============================================================================
