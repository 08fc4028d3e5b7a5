----------------------------- MODULE WorkDriven -----------------------------
(***************************************************************************)
(* Work-driven enrichment (docs/ARCHITECTURE.md, "Work-Driven              *)
(* Enrichment").  A Postgres trigger notifies the channel rinjani_work     *)
(* whenever a CVE without a CVSS score or an IOC without enriched_at is    *)
(* written; the listener (services/workListener.ts) turns the              *)
(* notifications into BullMQ jobs, at most one dispatch per kind and dedup *)
(* window; the workers (cveEnrichmentWorker.ts, enrichmentWorker.ts) run   *)
(* the jobs against external sources.                                      *)
(*                                                                         *)
(* A notification carries only its kind, so those waiting for the handler  *)
(* are a count.  A tick is a fraction of the window.  The date pass of the *)
(* CVE worker, which nothing notifies about, is left out.                  *)
(***************************************************************************)
EXTENDS Integers, FiniteSets, Sequences, SequencesExt

CONSTANTS
  Cves,           \* CVE ids
  Exploited,      \* those CISA lists as exploited
  Scorable,       \* those for which OSV or NVD has a CVSS score
  CveBatch,       \* batchSize of a CVE job
  Iocs,           \* IOC rows
  Detectable,     \* those whose value detectIOCType recognises
  SweepLimit,     \* SWEEP_BATCH_LIMIT
  KeepCompleted,  \* removeOnComplete.count of the IOC queue
  KeepFailed,     \* removeOnFail.count
  Window,         \* DEDUP_WINDOW_SECONDS, in ticks
  MaxInbox,       \* bound: notifications waiting for the handler, per kind
  MaxDispatch,    \* bound: handlers between the dedup and the enqueue
  MaxQueue,       \* bound: CVE jobs waiting
  MaxFaults,      \* bound: Redis, database and source calls that fail
  MaxDrops,       \* bound: losses of the LISTEN connection
  MaxToggles,     \* bound: switchings of ENRICHMENT_ENABLED
  MaxCrashes      \* bound: process crashes

ASSUME WorkDrivenAssumption ==
  /\ Exploited \subseteq Cves /\ Scorable \subseteq Cves
  /\ Detectable \subseteq Iocs
  /\ CveBatch \in Nat \ {0} /\ SweepLimit \in Nat \ {0}
  /\ KeepCompleted \in Nat /\ KeepFailed \in Nat /\ Window \in Nat \ {0}
  /\ MaxInbox \in Nat \ {0} /\ MaxDispatch \in Nat \ {0}
  /\ MaxQueue \in Nat \ {0}
  /\ MaxFaults \in Nat /\ MaxDrops \in Nat /\ MaxToggles \in Nat /\ MaxCrashes \in Nat

VARIABLES
  conn,         \* "down": no process; "deaf": its LISTEN connection is lost;
                \* "givenUp": and it will not try again
  inbox,        \* notifications received and not yet handled, by kind
  window,       \* remaining TTL of the key work-dedup:<kind>
  dispatching,  \* handlers that passed the dedup and have not enqueued yet
  sweeps,       \* sweeps requested at boot or by an admin and not yet made
  phase,        \* ticks since the epoch floor(now / window) began
  epochJob,     \* has this epoch's job id been "added" to the CVE queue?
  straddled,    \* a handler was past the dedup and not done when the epoch began
  cve,          \* the vulnerabilities table: "absent", "unscored", "scored"
  queued,       \* CVE jobs waiting
  worker,       \* the CVE worker (concurrency 1): "idle" or "busy"
  batch,        \* rows of that job that it has not been through yet
  ioc,          \* the iocs table: "absent", "backlog" or "done"
  iocJob,       \* the live job of each IOC: "none", "waiting", "active"
  retained,     \* IOCs whose finished job the queue retains, by how the job
                \* ended, oldest first
  verdict,      \* has a job written what the sources say to the row?
  enabled,      \* the setting ENRICHMENT_ENABLED
  faults, drops, toggles, crashes   \* how much of each bound is used

listener == <<conn, inbox, window, dispatching, sweeps>>
clock == <<phase, epochJob, straddled>>
cves == <<cve, queued, worker, batch>>
iocVars == <<ioc, iocJob, retained, verdict, enabled>>
env == <<faults, drops, toggles, crashes>>
vars == <<conn, inbox, window, dispatching, sweeps, phase, epochJob, straddled, cve,
          queued, worker, batch, ioc, iocJob, retained, verdict, enabled,
          faults, drops, toggles, crashes>>

Kinds == {"cve-enrich", "ioc-enrich"}

\* How a job ends, and how many of those that ended so BullMQ retains.
Ends == {"completed", "failed"}
Keep(end) == IF end = "completed" THEN KeepCompleted ELSE KeepFailed

TypeOK ==
  /\ conn \in {"down", "deaf", "givenUp", "listening"}
  /\ inbox \in [Kinds -> 0..MaxInbox]
  /\ window \in [Kinds -> 0..Window]
  /\ dispatching \in [Kinds -> 0..MaxDispatch]
  /\ sweeps \subseteq Kinds
  /\ phase \in 0..(Window - 1) /\ epochJob \in {"none", "added"}
  /\ straddled \in BOOLEAN
  /\ cve \in [Cves -> {"absent", "unscored", "scored"}]
  /\ queued \in 0..MaxQueue
  /\ worker \in {"idle", "busy"} /\ batch \subseteq Cves
  /\ ioc \in [Iocs -> {"absent", "backlog", "done"}]
  /\ iocJob \in [Iocs -> {"none", "waiting", "active"}]
  /\ retained \in [Ends -> Seq(Iocs)] /\ \A end \in Ends : Len(retained[end]) <= Keep(end)
  /\ verdict \in [Iocs -> BOOLEAN] /\ enabled \in BOOLEAN
  /\ faults \in 0..MaxFaults /\ drops \in 0..MaxDrops
  /\ toggles \in 0..MaxToggles /\ crashes \in 0..MaxCrashes

Init ==
  /\ conn = "down"
  /\ inbox = [k \in Kinds |-> 0] /\ dispatching = [k \in Kinds |-> 0]
  /\ window = [k \in Kinds |-> 0] /\ sweeps = {}
  /\ phase = 0 /\ epochJob = "none" /\ straddled = FALSE
  /\ cve = [c \in Cves |-> "absent"] /\ queued = 0 /\ worker = "idle" /\ batch = {}
  /\ ioc = [i \in Iocs |-> "absent"] /\ iocJob = [i \in Iocs |-> "none"]
  /\ retained = [end \in Ends |-> <<>>]
  /\ verdict = [i \in Iocs |-> FALSE] /\ enabled = TRUE
  /\ faults = 0 /\ drops = 0 /\ toggles = 0 /\ crashes = 0

Up == conn # "down"

UseFault == faults < MaxFaults /\ faults' = faults + 1

\* SELECT ... LIMIT n without ORDER BY: some n of the rows, or all of them.
Limited(rows, n) ==
  {s \in SUBSET rows : Cardinality(s) = IF n < Cardinality(rows) THEN n ELSE Cardinality(rows)}

-----------------------------------------------------------------------------
(***************************************************************************)
(* The tables and their triggers.                                          *)
(***************************************************************************)

\* pg_notify reaches the process only while its connection listens.
Notify(k) ==
  IF conn = "listening" THEN /\ inbox[k] < MaxInbox
                    /\ inbox' = [inbox EXCEPT ![k] = @ + 1]
               ELSE UNCHANGED inbox

\* A feed sync inserts a CVE, or upserts one that has no score yet: the sync's
\* COALESCE names cvss_score, so the trigger sees an update of it as well.
UpsertCve(c) ==
  /\ cve[c] # "scored"
  /\ \/ cve' = [cve EXCEPT ![c] = "unscored"] /\ Notify("cve-enrich")
     \/ c \in Scorable /\ cve' = [cve EXCEPT ![c] = "scored"] /\ UNCHANGED inbox
  /\ UNCHANGED <<conn, window, dispatching, sweeps, clock, queued, worker,
                 batch, iocVars, env>>

\* A feed sync inserts an IOC.
InsertIoc(i) ==
  /\ ioc[i] = "absent"
  /\ ioc' = [ioc EXCEPT ![i] = "backlog"]
  /\ Notify("ioc-enrich")
  /\ UNCHANGED <<conn, window, dispatching, sweeps, clock, cves, iocJob,
                 retained, verdict, enabled, env>>

\* Another IOC is inserted and leaves the backlog by itself (enriched on demand
\* or deleted): all that stays of it is the notification.
OtherIoc ==
  /\ Iocs # {} /\ conn = "listening" /\ Notify("ioc-enrich")
  /\ UNCHANGED <<conn, window, dispatching, sweeps, clock, cves, iocVars, env>>

\* The analyst's enrichment route writes enriched_at, or the row turns 30 days old.
LeaveBacklog(i) ==
  /\ ioc[i] = "backlog"
  /\ ioc' = [ioc EXCEPT ![i] = "done"]
  /\ UNCHANGED <<listener, clock, cves, iocJob, retained, verdict, enabled, env>>

\* An administrator switches the setting.
Toggle ==
  /\ toggles < MaxToggles /\ toggles' = toggles + 1
  /\ enabled' = ~enabled
  /\ UNCHANGED <<listener, clock, cves, ioc, iocJob, retained, verdict, faults,
                 drops, crashes>>

-----------------------------------------------------------------------------
(***************************************************************************)
(* The listener.                                                           *)
(***************************************************************************)
\* Mutant of DedupSet: the key expires a tick before the window is over.
DedupShort(k) == window' = [window EXCEPT ![k] = Window - 1]

\* The key of shouldDispatch is set for the whole window.
DedupSet(k) == window' = [window EXCEPT ![k] = Window]

\* handleNotification up to its await: the SET, after which the handler waits to
\* be resumed.  A notification inside the window is dropped; so is one whose SET
\* fails.
HandleNotification(k) ==
  /\ Up /\ inbox[k] > 0
  /\ inbox' = [inbox EXCEPT ![k] = @ - 1]
  /\ \/ /\ window[k] = 0 /\ dispatching[k] < MaxDispatch
        /\ DedupSet(k)
        /\ dispatching' = [dispatching EXCEPT ![k] = @ + 1]
        /\ UNCHANGED faults
     \/ window[k] > 0 /\ UNCHANGED <<window, dispatching, faults>>
     \/ UseFault /\ UNCHANGED <<window, dispatching>>
  /\ UNCHANGED <<conn, sweeps, clock, cves, iocVars, drops, toggles, crashes>>

Dispatched(k) == dispatching[k] > 0 /\ dispatching' = [dispatching EXCEPT ![k] = @ - 1]

\* The resumed handler.  The job id carries the epoch of this moment, not that of
\* the SET, and BullMQ ignores an id it still knows.  When the add fails, the key
\* stays and the window passes without a dispatch.
DispatchCve ==
  /\ Up /\ Dispatched("cve-enrich")
  /\ \/ /\ epochJob = "none" /\ queued < MaxQueue
        /\ queued' = queued + 1 /\ epochJob' = "added" /\ UNCHANGED faults
     \/ epochJob = "added" /\ UNCHANGED <<queued, epochJob, faults>>
     \/ UseFault /\ UNCHANGED <<queued, epochJob>>
  /\ UNCHANGED <<conn, inbox, window, sweeps, phase, straddled, cve, worker, batch,
                 iocVars, drops, toggles, crashes>>

Backlog == {i \in Iocs : ioc[i] = "backlog"}

\* An add is ignored while the queue knows the id ioc-enrich-<id>, finished or not.
Retained(i) == \E end \in Ends : i \in Range(retained[end])
AddJob(i) == iocJob[i] = "none" /\ ~Retained(i)

\* sweepIocsBacklog: at most SweepLimit rows; an add that fails is logged and
\* the loop goes on.
SweepIocs ==
  \E rows \in Limited(Backlog, SweepLimit) :
    \E added \in {rows} \union (IF faults < MaxFaults THEN {rows \ {i} : i \in rows} ELSE {}) :
      /\ iocJob' = [i \in Iocs |-> IF i \in added /\ AddJob(i) THEN "waiting" ELSE iocJob[i]]
      /\ faults' = IF added = rows THEN faults ELSE faults + 1

DispatchIoc ==
  /\ Up /\ Dispatched("ioc-enrich")
  /\ \/ SweepIocs
     \/ UseFault /\ UNCHANGED iocJob
  /\ UNCHANGED <<conn, inbox, window, sweeps, clock, cves, ioc, retained,
                 verdict, enabled, drops, toggles, crashes>>

\* triggerEnrichmentSweep: no dedup, and a CVE job with an id of its own.  The
\* boot code makes the IOC sweep second, and not at all if the first one throws.
SweepCve ==
  /\ Up /\ "cve-enrich" \in sweeps
  /\ \/ /\ queued < MaxQueue /\ queued' = queued + 1
        /\ sweeps' = sweeps \ {"cve-enrich"} /\ UNCHANGED faults
     \/ UseFault /\ sweeps' = {} /\ UNCHANGED queued
  /\ UNCHANGED <<conn, inbox, window, dispatching, clock, cve, worker, batch,
                 iocVars, drops, toggles, crashes>>

SweepIoc ==
  /\ Up /\ "ioc-enrich" \in sweeps /\ "cve-enrich" \notin sweeps
  /\ sweeps' = sweeps \ {"ioc-enrich"}
  /\ \/ SweepIocs
     \/ UseFault /\ UNCHANGED iocJob
  /\ UNCHANGED <<conn, inbox, window, dispatching, clock, cves, ioc, retained,
                 verdict, enabled, drops, toggles, crashes>>

\* POST /jobs/cvss-backfill and /jobs/ioc-enrich-sweep.
AdminSweep(k) ==
  /\ Up /\ sweeps = {} /\ sweeps' = {k}
  /\ UNCHANGED <<conn, inbox, window, dispatching, clock, cves, iocVars, env>>

-----------------------------------------------------------------------------
(***************************************************************************)
(* The workers.                                                            *)
(***************************************************************************)
Unscored == {c \in Cves : cve[c] = "unscored"}

\* Mutant of Candidates: only exploited CVEs are ever looked at.
CandidatesExploited == Unscored \cap Exploited

\* enrichCVSS: exploited CVEs first, the others only when none of those is left.
Candidates ==
  IF Unscored \cap Exploited # {} THEN Unscored \cap Exploited ELSE Unscored

StartCveJob ==
  /\ Up /\ queued > 0 /\ worker = "idle"
  /\ queued' = queued - 1 /\ worker' = "busy"
  /\ batch' \in Limited(Candidates, CveBatch)
  /\ UNCHANGED <<listener, clock, cve, iocVars, env>>

\* One turn of the loop: a score is written when a source has one.  A source
\* that fails counts as having none.
EnrichCve(c) ==
  /\ Up /\ c \in batch /\ batch' = batch \ {c}
  /\ \/ c \in Scorable /\ cve' = [cve EXCEPT ![c] = "scored"] /\ UNCHANGED faults
     \/ c \notin Scorable /\ UNCHANGED <<cve, faults>>
     \/ UseFault /\ UNCHANGED cve
  /\ UNCHANGED <<listener, clock, queued, worker, iocVars, drops, toggles, crashes>>

FinishCveJob ==
  /\ Up /\ worker = "busy" /\ batch = {} /\ worker' = "idle"
  /\ UNCHANGED <<listener, clock, cve, queued, batch, iocVars, env>>

\* A statement that throws ends the job, with what is left of its batch.  BullMQ
\* queues it again if it has an attempt left; which one it was is left open.
FailCveJob ==
  /\ Up /\ worker = "busy" /\ UseFault
  /\ worker' = "idle" /\ batch' = {}
  /\ \/ queued < MaxQueue /\ queued' = queued + 1
     \/ UNCHANGED queued
  /\ UNCHANGED <<listener, clock, cve, iocVars, drops, toggles, crashes>>

\* A finished job stays in the queue until Keep(end) later ones have ended as it did.
Retain(i, end) ==
  LET all == Append(retained[end], i)
  IN  retained' = [retained EXCEPT ![end] = IF Len(all) > Keep(end) THEN Tail(all) ELSE all]

\* The worker takes a job.  A setting that cannot be read counts as not switched off.
StartIocJob(i) ==
  /\ Up /\ iocJob[i] = "waiting" /\ i \in Detectable
  /\ (enabled /\ UNCHANGED faults) \/ (~enabled /\ UseFault)
  /\ iocJob' = [iocJob EXCEPT ![i] = "active"]
  /\ UNCHANGED <<listener, clock, cves, ioc, retained, verdict, enabled, drops, toggles,
                 crashes>>

\* Its two early returns, for a setting that is off and for a value of no known
\* type: the job completes like any other, and the row stays as it is.
SkipIocJob(i) ==
  /\ Up /\ iocJob[i] = "waiting" /\ (~enabled \/ i \notin Detectable)
  /\ iocJob' = [iocJob EXCEPT ![i] = "none"] /\ Retain(i, "completed")
  /\ UNCHANGED <<listener, clock, cves, ioc, verdict, enabled, env>>

\* The sources have answered.  Their verdict is written to the row, enriched_at is
\* not; an UPDATE that fails is logged, and the job completes all the same.
FinishIocJob(i) ==
  /\ Up /\ iocJob[i] = "active"
  /\ iocJob' = [iocJob EXCEPT ![i] = "none"] /\ Retain(i, "completed")
  /\ \/ verdict' = [verdict EXCEPT ![i] = TRUE] /\ UNCHANGED faults
     \/ UseFault /\ UNCHANGED verdict
  /\ UNCHANGED <<listener, clock, cves, ioc, enabled, drops, toggles, crashes>>

\* The enricher throws: the job is queued again, or has failed with its last
\* attempt.  Which one it was is left open.
FailIocJob(i) ==
  /\ Up /\ iocJob[i] = "active" /\ UseFault
  /\ \/ iocJob' = [iocJob EXCEPT ![i] = "waiting"] /\ UNCHANGED retained
     \/ iocJob' = [iocJob EXCEPT ![i] = "none"] /\ Retain(i, "failed")
  /\ UNCHANGED <<listener, clock, cves, ioc, verdict, enabled, drops, toggles, crashes>>

-----------------------------------------------------------------------------
(***************************************************************************)
(* The process, its LISTEN connection and time.                            *)
(***************************************************************************)

\* Mutant of BootSweeps: boot starts the listener and no sweep.
NoBootSweeps == {}

BootSweeps == Kinds

\* startup.ts: start the listener, then sweep.  startWorkListener catches its
\* own failure (and retries later), so the sweeps are made either way.
Boot ==
  /\ conn = "down" /\ sweeps' = BootSweeps
  /\ \/ conn' = "listening" /\ UNCHANGED faults
     \/ conn' = "deaf" /\ UseFault
  /\ UNCHANGED <<inbox, window, dispatching, clock, cves, iocVars, drops, toggles, crashes>>

\* The connection is lost, and with it what the server had still to send.
Disconnect ==
  /\ conn = "listening" /\ drops < MaxDrops
  /\ conn' = "deaf" /\ drops' = drops + 1
  /\ \E k \in Kinds : \E n \in 0..inbox[k] : inbox' = [inbox EXCEPT ![k] = n]
  /\ UNCHANGED <<window, dispatching, sweeps, clock, cves, iocVars, faults, toggles, crashes>>

\* The timer of scheduleReconnect; no sweep follows.  A failing attempt schedules
\* the next one unless it was the last; which one it was is left open.
Reconnect ==
  /\ conn = "deaf"
  /\ \/ conn' = "listening" /\ UNCHANGED faults
     \/ conn' \in {"deaf", "givenUp"} /\ UseFault
  /\ UNCHANGED <<inbox, window, dispatching, sweeps, clock, cves, iocVars, drops, toggles,
                 crashes>>

\* Redis keeps the keys and the queues; a job that was running is stalled and
\* will be run again.
Crash ==
  /\ Up /\ crashes < MaxCrashes /\ crashes' = crashes + 1
  /\ conn' = "down" /\ sweeps' = {}
  /\ inbox' = [k \in Kinds |-> 0] /\ dispatching' = [k \in Kinds |-> 0]
  /\ queued + (IF worker = "busy" THEN 1 ELSE 0) <= MaxQueue
  /\ queued' = queued + (IF worker = "busy" THEN 1 ELSE 0)
  /\ worker' = "idle" /\ batch' = {}
  /\ iocJob' = [i \in Iocs |-> IF iocJob[i] = "active" THEN "waiting" ELSE iocJob[i]]
  /\ UNCHANGED <<window, clock, cve, ioc, retained, verdict, enabled, faults, drops,
                 toggles>>

\* A new epoch has a new job id.
NextEpoch ==
  IF phase + 1 < Window
    THEN phase' = phase + 1 /\ UNCHANGED <<epochJob, straddled>>
    ELSE phase' = 0 /\ epochJob' = "none" /\ straddled' = (dispatching["cve-enrich"] > 0)

\* Mutant of Expire: the key has no TTL.
NeverExpire(k) == window[k]

Expire(k) == IF window[k] = 0 THEN 0 ELSE window[k] - 1

Tick ==
  /\ window' = [k \in Kinds |-> Expire(k)]
  /\ NextEpoch
  /\ UNCHANGED <<conn, inbox, dispatching, sweeps, cves, iocVars, env>>

Data ==
  \/ \E c \in Cves : UpsertCve(c)
  \/ \E i \in Iocs : InsertIoc(i) \/ LeaveBacklog(i)
  \/ OtherIoc \/ Toggle

Listener ==
  \/ \E k \in Kinds : HandleNotification(k) \/ AdminSweep(k)
  \/ DispatchCve \/ DispatchIoc \/ SweepCve \/ SweepIoc

Workers ==
  \/ StartCveJob \/ FinishCveJob \/ FailCveJob
  \/ \E c \in Cves : EnrichCve(c)
  \/ \E i \in Iocs : StartIocJob(i) \/ SkipIocJob(i) \/ FinishIocJob(i) \/ FailIocJob(i)

Next == Data \/ Listener \/ Workers \/ Boot \/ Disconnect \/ Reconnect \/ Crash \/ Tick

Spec == Init /\ [][Next]_vars

\* Time passes, the process is restarted (docker compose: unless-stopped) and its
\* event loop serves what is due.  No data has to arrive.
Fairness ==
  /\ WF_vars(Tick) /\ WF_vars(Boot) /\ WF_vars(Reconnect)
  /\ \A k \in Kinds : WF_vars(HandleNotification(k))
  /\ WF_vars(DispatchCve) /\ WF_vars(DispatchIoc)
  /\ WF_vars(SweepCve) /\ WF_vars(SweepIoc)
  /\ WF_vars(StartCveJob) /\ WF_vars(FinishCveJob)
  /\ \A c \in Cves : WF_vars(EnrichCve(c))
  /\ \A i \in Iocs :
       WF_vars(StartIocJob(i) \/ SkipIocJob(i)) /\ WF_vars(FinishIocJob(i))

FairSpec == Spec /\ Fairness

-----------------------------------------------------------------------------
(***************************************************************************)
(* Properties.                                                             *)
(***************************************************************************)

\* The id of a CVE job exists to catch "races in the Redis dedup"
\* (workListener.ts:99-100).  It swallows a dispatch that the dedup let through, and
\* with it the news of rows written since that epoch's job started, only in an
\* epoch that began while a handler was between its SET and its add: then that
\* handler's key runs out before the epoch of the job it adds does.
SwallowedHasCause ==
  dispatching["cve-enrich"] > 0 /\ epochJob = "added" => straddled

KeepsNotifying(k) == []<>(inbox[k] > 0)

\* The rows that no source can score and that enrichCVSS takes before c, or as well
\* as c, are enough to fill its batches without c: they stay in the selection.
CrowdedOut(c) ==
  LET stuck == Unscored \ Scorable
  IN  \/ c \notin Exploited /\ stuck \cap Exploited # {}
      \/ Cardinality(IF c \in Exploited THEN stuck \cap Exploited ELSE stuck) >= CveBatch

\* As long as notifications come (the premise a listener that has given up breaks),
\* a CVE for which a source has a score gets it, unless rows without one crowd it
\* out: no window, lost dispatch, lost connection, failed call or crash stops that.
ScoredEventually ==
  KeepsNotifying("cve-enrich") =>
    \A c \in Scorable : cve[c] = "unscored" ~> cve[c] = "scored" \/ CrowdedOut(c)

\* startup.ts:199-200: the sweeps at boot "catch anything that landed while the
\* process was offline".  Of the CVEs they do catch the exploited ones, if there
\* are no more of them than a batch takes.
BootSweepCatchesUrgent ==
  [](faults = 0) =>
    \A c \in Scorable \cap Exploited :
      ~Up /\ cve[c] = "unscored" ~>
        cve[c] = "scored" \/ Cardinality(Unscored \cap Exploited) > CveBatch

\* A sweep takes SweepLimit rows in no order, and rows stay in the backlog after
\* their job: which rows it takes of a larger backlog is up to the database.
OverLimit == Cardinality(Backlog) > SweepLimit

\* The finished job of i left the row as it was, and its id keeps out another one.
\* That has a cause: its type is unknown, a call failed, or the setting was touched.
SpentInVain(i) ==
  /\ Retained(i) /\ ~verdict[i]
  /\ i \notin Detectable \/ faults > 0 \/ toggles > 0

Settled(i) == verdict[i] \/ ioc[i] = "done" \/ OverLimit \/ SpentInVain(i)

\* As long as notifications come, every IOC in a backlog that fits a sweep has its
\* verdict written or a job spent on it in vain, whatever windows, crashes, lost
\* connections and failing calls intervene.
IocsEnriched ==
  KeepsNotifying("ioc-enrich") => \A i \in Iocs : ioc[i] = "backlog" ~> Settled(i)

\* startup.ts:199-200 again, of the IOCs: without failing calls the boot sweep is
\* enough for those that landed while no process ran.
BootSweepCatchesIocs ==
  [](faults = 0) => \A i \in Iocs : ~Up /\ ioc[i] = "backlog" ~> Settled(i)
=============================================================================
