--------------------------- MODULE ScheduleControl ---------------------------
(***************************************************************************)
(* The scheduler's control plane (queues/scheduler.ts,                     *)
(* services/scheduledJobOverrides.ts).  The registry in the code says      *)
(* which jobs are scheduled and how often by default; an admin's PATCH     *)
(* stores an override in Postgres and then reconciles the job's            *)
(* repeatables in Redis; every boot reconciles all jobs and then cleans up *)
(* what the registry does not want.  Each await is a step of its own:      *)
(* requests run beside each other, in any of the API processes, and beside *)
(* the boot.                                                               *)
(*                                                                         *)
(* A repeatable is a pair of its name and its cron pattern.  Payloads are  *)
(* left out, they travel with the pattern.                                 *)
(***************************************************************************)
EXTENDS Naturals

CONSTANTS
  Jobs,       \* names in JOB_REGISTRY
  Retired,    \* names an earlier version of the code had registered
  Queues,     \* BullMQ queues
  QueueOf,    \* the queue of every name
  Managed,    \* managedQueues of cleanupUnregisteredRepeatables
  Crons,      \* cron patterns
  Default,    \* defaultCron of every job
  Unset,      \* no row, no preset, no schedule, or a field the patch leaves alone
  Reqs,       \* admin requests (PATCH /admin/schedules, workbench edit or remove)
  Boot,       \* the process that runs setupScheduledJobs
  MaxBoots,   \* bound: boots
  MaxFaults   \* bound: steps that throw (Redis, Postgres or a crash)

Names == Jobs \union Retired
Procs == Reqs \union {Boot}

ASSUME ScheduleAssumption ==
  /\ Jobs \intersect Retired = {} /\ Managed \subseteq Queues
  /\ QueueOf \in [Names -> Queues] /\ Default \in [Jobs -> Crons]
  /\ Unset \notin Crons \union {"yes", "no", "none"} /\ "none" \notin Crons
  /\ Boot \notin Reqs
  /\ MaxBoots \in Nat /\ MaxFaults \in Nat

Patches == [enabled : {"yes", "no", Unset}, preset : Crons \union {"none", Unset}]
Rows == [enabled : {"yes", "no"}, preset : Crons \union {Unset}]

VARIABLES
  override,     \* table scheduled_job_overrides: a row, or Unset
  repeat,       \* repeatables in Redis
  pc,           \* where each request and the boot are
  job,          \* the job they are working on
  patch, seen,  \* a request's patch, and the row it read
  keys,         \* repeatables listed and still to be looked at
  cfg,          \* the pattern resolved for the job; Unset if it is disabled
  todo,         \* what the boot's current loop has still to go through
  want,         \* the patterns cleanupUnregisteredRepeatables resolved
  boots, faults,
  undisturbed,  \* no request and no fault has met the current or last boot
  clean         \* no boot and no fault since a quiet start or an undisturbed boot

reqVars == <<patch, seen>>
bootVars == <<todo, want, boots>>
faultVars == <<faults, clean>>
vars == <<override, repeat, pc, job, patch, seen, keys, cfg, todo, want, boots, faults, clean,
          undisturbed>>

Stages == {"idle", "write", "list", "remove", "add", "done", "failed",
           "next", "desire", "sweep", "drop"}

TypeOK ==
  /\ override \in [Jobs -> Rows \union {Unset}]
  /\ repeat \subseteq Names \X Crons
  /\ pc \in [Procs -> Stages]
  /\ job \in [Procs -> Names \union {Unset}]
  /\ patch \in [Reqs -> Patches \union {Unset}]
  /\ seen \in [Reqs -> Rows \union {Unset}]
  /\ keys \in [Procs -> SUBSET (Names \X Crons)]
  /\ cfg \in [Procs -> Crons \union {Unset}]
  /\ todo \subseteq Names \union Queues
  /\ want \in [Jobs -> Crons \union {Unset}]
  /\ boots \in 0..MaxBoots /\ faults \in 0..MaxFaults
  /\ undisturbed \in BOOLEAN /\ clean \in BOOLEAN

\* resolveJobConfig: no row, or no preset in it, means the code's default.
Effective(j) ==
  CASE override[j] = Unset -> Default[j]
    [] override[j] # Unset /\ override[j].enabled = "no" -> Unset
    [] override[j] # Unset /\ override[j].enabled = "yes" ->
         IF override[j].preset = Unset THEN Default[j] ELSE override[j].preset

\* What a reconciled Redis holds for the jobs.
Wanted == {s \in Jobs \X Crons : Effective(s[1]) = s[2]}

\* Nobody is at work; a request may never come, and part of the bounds may be used up.
InitRest ==
  /\ pc \in [Procs -> {"idle", "done"}]
  /\ job = [p \in Procs |-> Unset]
  /\ patch = [r \in Reqs |-> Unset] /\ seen = [r \in Reqs |-> Unset]
  /\ keys = [p \in Procs |-> {}] /\ cfg = [p \in Procs |-> Unset]
  /\ todo = {} /\ want = [j \in Jobs |-> Unset]
  /\ boots \in 0..MaxBoots /\ faults \in 0..MaxFaults /\ undisturbed = FALSE

\* A system that has booted and has been quiet since.
Init ==
  /\ override \in [Jobs -> Rows \union {Unset}]
  /\ repeat = Wanted /\ clean = TRUE
  /\ InitRest

\* A system about to boot with what earlier versions and crashes left in Redis.
InitStale ==
  /\ override \in [Jobs -> Rows \union {Unset}]
  /\ repeat \in SUBSET (Names \X Crons) /\ clean = FALSE
  /\ InitRest

Goto(p, stage) == pc' = [pc EXCEPT ![p] = stage]

\* A finished request, or a finished reconcile of the boot: its locals are gone.
Leave(p) ==
  /\ job' = [job EXCEPT ![p] = Unset] /\ cfg' = [cfg EXCEPT ![p] = Unset]
  /\ keys' = [keys EXCEPT ![p] = {}]
Forget(r) == patch' = [patch EXCEPT ![r] = Unset] /\ seen' = [seen EXCEPT ![r] = Unset]
Quiet(r) == pc[r] \in {"idle", "done", "failed"}
Disturb == undisturbed' = FALSE

-----------------------------------------------------------------------------
(***************************************************************************)
(* An admin request: upsertOverride, then reconcileScheduledJobByKey.      *)
(***************************************************************************)

\* The patch arrives and the row is read.
ReadOverride(r) ==
  /\ pc[r] = "idle"
  /\ \E j \in Jobs, e \in {"yes", "no", Unset}, c \in Crons \union {"none", Unset} :
       /\ job' = [job EXCEPT ![r] = j]
       /\ patch' = [patch EXCEPT ![r] = [enabled |-> e, preset |-> c]]
       /\ seen' = [seen EXCEPT ![r] = override[j]]
  /\ Goto(r, "write") /\ Disturb
  /\ UNCHANGED <<override, repeat, keys, cfg, bootVars, faultVars>>

\* Mutant of Merged: clearing a preset stores the marker itself.
MergedRaw(old, new) ==
  [enabled |-> IF new.enabled # Unset THEN new.enabled ELSE "yes",
   preset |-> IF new.preset # Unset \/ old = Unset THEN new.preset ELSE old.preset]

\* A field the patch leaves out keeps the value read, "none" (null) clears it.
MergedEnabled(old, new) ==
  IF new.enabled # Unset THEN new.enabled ELSE IF old = Unset THEN "yes" ELSE old.enabled
MergedPreset(old, new) ==
  CASE new.preset \in Crons -> new.preset
    [] new.preset = "none" -> Unset
    [] new.preset = Unset -> IF old = Unset THEN Unset ELSE old.preset
Merged(old, new) ==
  [enabled |-> MergedEnabled(old, new), preset |-> MergedPreset(old, new)]

\* UPDATE of the row read, or INSERT, which fails if another request's INSERT
\* came first.
WriteOverride(r) ==
  /\ pc[r] = "write"
  /\ IF seen[r] = Unset /\ override[job[r]] # Unset
     THEN Goto(r, "failed") /\ Leave(r) /\ UNCHANGED override
     ELSE /\ override' = [override EXCEPT ![job[r]] = Merged(seen[r], patch[r])]
          /\ Goto(r, "list") /\ UNCHANGED <<job, keys, cfg>>
  /\ Forget(r) /\ Disturb
  /\ UNCHANGED <<repeat, bootVars, faultVars>>

-----------------------------------------------------------------------------
(***************************************************************************)
(* reconcileScheduledJob, for a request or for the boot.                   *)
(***************************************************************************)
Meets(p) == undisturbed' = (undisturbed /\ p = Boot)

ListRepeatables(p) ==
  /\ pc[p] = "list"
  /\ keys' = [keys EXCEPT ![p] = {s \in repeat : s[1] = job[p]}]
  /\ Goto(p, "remove") /\ Meets(p)
  /\ UNCHANGED <<override, repeat, job, reqVars, cfg, bootVars, faultVars>>

RemoveRepeatable(p) ==
  /\ pc[p] = "remove"
  /\ \E s \in keys[p] :
       /\ repeat' = repeat \ {s}
       /\ keys' = [keys EXCEPT ![p] = @ \ {s}]
  /\ Meets(p)
  /\ UNCHANGED <<override, pc, job, reqVars, cfg, bootVars, faultVars>>

ResolveConfig(p) ==
  /\ pc[p] = "remove" /\ keys[p] = {}
  /\ cfg' = [cfg EXCEPT ![p] = Effective(job[p])]
  /\ Goto(p, "add") /\ Meets(p)
  /\ UNCHANGED <<override, repeat, job, reqVars, keys, bootVars, faultVars>>

\* Mutant of AddRepeatable: what is there is removed only now, after the override
\* has been read.
RemoveThenAdd(p) ==
  /\ pc[p] = "add"
  /\ repeat' = {s \in repeat : s[1] # job[p]}
                \union (IF cfg[p] = Unset THEN {} ELSE {<<job[p], cfg[p]>>})
  /\ Goto(p, IF p = Boot THEN "next" ELSE "done") /\ Leave(p) /\ Meets(p)
  /\ UNCHANGED <<override, reqVars, bootVars, faultVars>>

AddRepeatable(p) ==
  /\ pc[p] = "add"
  /\ repeat' = repeat \union (IF cfg[p] = Unset THEN {} ELSE {<<job[p], cfg[p]>>})
  /\ Goto(p, IF p = Boot THEN "next" ELSE "done") /\ Leave(p) /\ Meets(p)
  /\ UNCHANGED <<override, reqVars, bootVars, faultVars>>

-----------------------------------------------------------------------------
(***************************************************************************)
(* setupScheduledJobs and cleanupUnregisteredRepeatables.                  *)
(***************************************************************************)
StartBoot ==
  /\ Quiet(Boot) /\ boots < MaxBoots /\ boots' = boots + 1
  /\ Goto(Boot, "next") /\ todo' = Jobs
  /\ undisturbed' = \A r \in Reqs : Quiet(r)
  /\ clean' = FALSE
  /\ UNCHANGED <<override, repeat, job, reqVars, keys, cfg, want, faults>>

NextJob ==
  /\ pc[Boot] = "next"
  /\ \E j \in todo : job' = [job EXCEPT ![Boot] = j] /\ todo' = todo \ {j}
  /\ Goto(Boot, "list")
  /\ UNCHANGED <<override, repeat, reqVars, keys, cfg, want, boots, faultVars, undisturbed>>

\* All jobs reconciled; the cleanup resolves each of them again.
StartCleanup ==
  /\ pc[Boot] = "next" /\ todo = {}
  /\ Goto(Boot, "desire") /\ todo' = Jobs
  /\ UNCHANGED <<override, repeat, job, reqVars, keys, cfg, want, boots, faultVars,
                 undisturbed>>

Desire ==
  /\ pc[Boot] = "desire"
  /\ \E j \in todo : want' = [want EXCEPT ![j] = Effective(j)] /\ todo' = todo \ {j}
  /\ UNCHANGED <<override, repeat, pc, job, reqVars, keys, cfg, boots, faultVars, undisturbed>>

StartSweep ==
  /\ pc[Boot] = "desire" /\ todo = {}
  /\ Goto(Boot, "sweep") /\ todo' = Managed
  /\ UNCHANGED <<override, repeat, job, reqVars, keys, cfg, want, boots, faultVars,
                 undisturbed>>

ListQueue ==
  /\ pc[Boot] = "sweep"
  /\ \E q \in todo : /\ keys' = [keys EXCEPT ![Boot] = {s \in repeat : QueueOf[s[1]] = q}]
                     /\ todo' = todo \ {q}
  /\ Goto(Boot, "drop")
  /\ UNCHANGED <<override, repeat, job, reqVars, cfg, want, boots, faultVars, undisturbed>>

\* Mutant of Stale: names the registry does not know are left alone.
StaleKnown(s) == s[1] \in Jobs /\ want[s[1]] # s[2]

\* A name the registry does not know, or a pattern other than the resolved one.
Stale(s) == s[1] \in Jobs => want[s[1]] # s[2]

DropStale ==
  /\ pc[Boot] = "drop"
  /\ \E s \in keys[Boot] :
       /\ repeat' = IF Stale(s) THEN repeat \ {s} ELSE repeat
       /\ keys' = [keys EXCEPT ![Boot] = @ \ {s}]
  /\ UNCHANGED <<override, pc, job, reqVars, cfg, bootVars, faultVars, undisturbed>>

\* A removal that fails is logged and skipped.
DropFails ==
  /\ pc[Boot] = "drop" /\ faults < MaxFaults /\ faults' = faults + 1
  /\ \E s \in keys[Boot] : Stale(s) /\ keys' = [keys EXCEPT ![Boot] = @ \ {s}]
  /\ Disturb /\ clean' = FALSE
  /\ UNCHANGED <<override, repeat, pc, job, reqVars, cfg, bootVars>>

NextQueue ==
  /\ pc[Boot] = "drop" /\ keys[Boot] = {}
  /\ Goto(Boot, "sweep")
  /\ UNCHANGED <<override, repeat, job, reqVars, keys, cfg, bootVars, faultVars, undisturbed>>

FinishBoot ==
  /\ pc[Boot] = "sweep" /\ todo = {}
  /\ Goto(Boot, "done") /\ want' = [j \in Jobs |-> Unset]
  /\ clean' = undisturbed
  /\ UNCHANGED <<override, repeat, job, reqVars, keys, cfg, todo, boots, faults, undisturbed>>

\* A step throws, or its process crashes: a request answers with an error, and
\* setupScheduledJobs logs it and gives up on the remaining jobs.
Fail(p) ==
  /\ ~Quiet(p) /\ faults < MaxFaults /\ faults' = faults + 1
  /\ Goto(p, "failed") /\ Leave(p) /\ Disturb /\ clean' = FALSE
  /\ IF p = Boot
     THEN /\ todo' = {} /\ want' = [j \in Jobs |-> Unset]
          /\ UNCHANGED <<boots, reqVars>>
     ELSE Forget(p) /\ UNCHANGED bootVars
  /\ UNCHANGED <<override, repeat>>

-----------------------------------------------------------------------------
Reconcile(p) ==
  ListRepeatables(p) \/ RemoveRepeatable(p) \/ ResolveConfig(p) \/ AddRepeatable(p)

Request(r) == ReadOverride(r) \/ WriteOverride(r)

BootStep ==
  \/ StartBoot \/ NextJob \/ StartCleanup \/ Desire \/ StartSweep
  \/ ListQueue \/ DropStale \/ DropFails \/ NextQueue \/ FinishBoot

\* Everything is done: the system waits for the next request.
Terminated == (\A p \in Procs : Quiet(p)) /\ UNCHANGED vars

Next ==
  \/ \E r \in Reqs : Request(r)
  \/ \E p \in Procs : Reconcile(p) \/ Fail(p)
  \/ BootStep
  \/ Terminated

Spec == Init /\ [][Next]_vars
StaleSpec == InitStale /\ [][Next]_vars

-----------------------------------------------------------------------------
(***************************************************************************)
(* Properties.                                                             *)
(***************************************************************************)
Settled == \A p \in Procs : Quiet(p)

\* However the requests interleave, after a quiet start or an undisturbed boot and
\* with no boot or fault since, once they are through every enabled job has the
\* schedule its override asks for: reconcileScheduledJob removes before it reads the
\* override, so whoever removes a schedule reads an override at least as new as the
\* one that schedule came from.
LatestScheduleSurvives == Settled /\ clean => Wanted \subseteq repeat

\* A boot that nothing disturbs leaves exactly the schedules the registry and the
\* overrides ask for, whatever it finds: schedules of failed requests, duplicates,
\* old patterns, names that left the registry for a managed queue.
BootRepairs ==
  pc[Boot] = "done" /\ undisturbed =>
    \A s \in Names \X Crons : QueueOf[s[1]] \in Managed \/ s[1] \in Jobs =>
      (s \in repeat <=> s \in Wanted)
=============================================================================
