------------------------ MODULE ScheduleControlProofs ------------------------
(***************************************************************************)
(* Proofs about ScheduleControl, for any registry, any set of concurrent   *)
(* admin requests and any cron patterns.                                   *)
(***************************************************************************)
EXTENDS ScheduleControl, TLAPS

\* Resolving a job gives a pattern or Unset, and reads the override only.
LEMMA EffectiveType ==
  ASSUME TypeOK, NEW j \in Jobs
  PROVE Effective(j) \in Crons \union {Unset}
<1> USE ScheduleAssumption DEF TypeOK, Effective, Rows
<1>1. CASE override[j] = Unset BY <1>1
<1>2. CASE override[j] # Unset
  <2>1. override[j] \in Rows BY <1>2
  <2>2. CASE override[j].enabled = "no" BY <1>2, <2>1, <2>2
  <2>3. CASE override[j].enabled = "yes" BY <1>2, <2>1, <2>3
  <2>4. QED BY <2>1, <2>2, <2>3
<1>3. QED BY <1>1, <1>2

\* A patch merged with a row, or with none, is a row.
LEMMA MergedType ==
  ASSUME NEW old \in Rows \union {Unset}, NEW new \in Patches
  PROVE Merged(old, new) \in Rows
<1> USE ScheduleAssumption
<1>1. MergedEnabled(old, new) \in {"yes", "no"} BY DEF MergedEnabled, Patches, Rows
<1>2. MergedPreset(old, new) \in Crons \union {Unset}
  <2>1. CASE new.preset \in Crons BY <2>1 DEF MergedPreset
  <2>2. CASE new.preset = "none" BY <2>2 DEF MergedPreset
  <2>3. CASE new.preset = Unset BY <2>3 DEF MergedPreset, Rows
  <2>4. QED BY <2>1, <2>2, <2>3 DEF Patches
<1>3. QED BY <1>1, <1>2 DEF Merged, Rows

-----------------------------------------------------------------------------
(***************************************************************************)
(* Who is at work on a job knows which, and a request still has its patch  *)
(* when it writes.  The keys listed for a removal are the job's own.       *)
(***************************************************************************)
WorkOK ==
  /\ \A p \in Procs : pc[p] \in {"write", "list", "remove", "add"} => job[p] \in Jobs
  /\ \A r \in Reqs : pc[r] = "write" => patch[r] \in Patches
  /\ \A p \in Procs : pc[p] = "remove" => \A s \in keys[p] : s[1] = job[p]
  /\ \A r \in Reqs : pc[r] \in {"idle", "write", "list", "remove", "add", "done", "failed"}
  /\ pc[Boot] # "write"
  /\ pc[Boot] \in {"next", "list", "remove", "add", "desire"} => todo \subseteq Jobs

\* Every step keeps the types: first what it changes, then what it leaves alone.
LEMMA StepTypes ==
  ASSUME TypeOK, WorkOK, Next
  PROVE TypeOK'
<1> USE ScheduleAssumption DEF TypeOK
<1>1. ASSUME NEW r \in Reqs, ReadOverride(r) PROVE TypeOK'
  <2>1. pc' \in [Procs -> Stages] BY <1>1 DEF ReadOverride, Goto, Stages, Procs
  <2>2. job' \in [Procs -> Names \union {Unset}]
    BY <1>1 DEF ReadOverride, Names, Procs
  <2>3. patch' \in [Reqs -> Patches \union {Unset}] BY <1>1 DEF ReadOverride, Patches
  <2>4. seen' \in [Reqs -> Rows \union {Unset}] BY <1>1 DEF ReadOverride
  <2>5. undisturbed' \in BOOLEAN BY <1>1 DEF ReadOverride, Disturb
  <2>6. UNCHANGED <<override, repeat, keys, cfg, todo, want, boots, faults, clean>>
    BY <1>1 DEF ReadOverride, reqVars, bootVars, faultVars
  <2>7. QED BY <2>1, <2>2, <2>3, <2>4, <2>5, <2>6
<1>2. ASSUME NEW r \in Reqs, WriteOverride(r) PROVE TypeOK'
  <2>0. job[r] \in Jobs /\ patch[r] \in Patches /\ seen[r] \in Rows \union {Unset}
    BY <1>2 DEF WriteOverride, WorkOK, Procs
  <2>10. Merged(seen[r], patch[r]) \in Rows BY <2>0, MergedType
  <2>1. override' \in [Jobs -> Rows \union {Unset}] BY <1>2, <2>10 DEF WriteOverride
  <2>2. pc' \in [Procs -> Stages] BY <1>2 DEF WriteOverride, Goto, Stages, Procs
  <2>3. job' \in [Procs -> Names \union {Unset}] BY <1>2 DEF WriteOverride, Leave
  <2>4. keys' \in [Procs -> SUBSET (Names \X Crons)] BY <1>2 DEF WriteOverride, Leave
  <2>5. cfg' \in [Procs -> Crons \union {Unset}] BY <1>2 DEF WriteOverride, Leave
  <2>6. patch' \in [Reqs -> Patches \union {Unset}] BY <1>2 DEF WriteOverride, Forget
  <2>7. seen' \in [Reqs -> Rows \union {Unset}] BY <1>2 DEF WriteOverride, Forget
  <2>8. undisturbed' \in BOOLEAN BY <1>2 DEF WriteOverride, Disturb
  <2>9. UNCHANGED <<repeat, todo, want, boots, faults, clean>>
    BY <1>2 DEF WriteOverride, reqVars, bootVars, faultVars
  <2>11. QED BY <2>1, <2>2, <2>3, <2>4, <2>5, <2>6, <2>7, <2>8, <2>9
<1>3. ASSUME NEW p \in Procs, ListRepeatables(p) PROVE TypeOK'
  <2>1. pc' \in [Procs -> Stages] BY <1>3 DEF ListRepeatables, Goto, Stages, Procs
  <2>2. keys' \in [Procs -> SUBSET (Names \X Crons)] BY <1>3 DEF ListRepeatables
  <2>3. undisturbed' \in BOOLEAN BY <1>3 DEF ListRepeatables, Meets
  <2>4. UNCHANGED <<override, repeat, job, patch, seen, cfg, todo, want, boots, faults, clean>>
    BY <1>3 DEF ListRepeatables, reqVars, bootVars, faultVars
  <2>5. QED BY <2>1, <2>2, <2>3, <2>4
<1>4. ASSUME NEW p \in Procs, RemoveRepeatable(p) PROVE TypeOK'
  <2>1. repeat' \subseteq Names \X Crons BY <1>4 DEF RemoveRepeatable
  <2>2. keys' \in [Procs -> SUBSET (Names \X Crons)] BY <1>4 DEF RemoveRepeatable
  <2>3. undisturbed' \in BOOLEAN BY <1>4 DEF RemoveRepeatable, Meets
  <2>4. UNCHANGED <<override, pc, job, patch, seen, cfg, todo, want, boots, faults, clean>>
    BY <1>4 DEF RemoveRepeatable, reqVars, bootVars, faultVars
  <2>5. QED BY <2>1, <2>2, <2>3, <2>4
<1>5. ASSUME NEW p \in Procs, ResolveConfig(p) PROVE TypeOK'
  <2>0. Effective(job[p]) \in Crons \union {Unset}
    BY <1>5, EffectiveType DEF ResolveConfig, WorkOK
  <2>1. pc' \in [Procs -> Stages] BY <1>5 DEF ResolveConfig, Goto, Stages, Procs
  <2>2. cfg' \in [Procs -> Crons \union {Unset}] BY <1>5, <2>0 DEF ResolveConfig
  <2>3. undisturbed' \in BOOLEAN BY <1>5 DEF ResolveConfig, Meets
  <2>4. UNCHANGED <<override, repeat, job, patch, seen, keys, todo, want, boots,
                    faults, clean>>
    BY <1>5 DEF ResolveConfig, reqVars, bootVars, faultVars
  <2>5. QED BY <2>1, <2>2, <2>3, <2>4
<1>6. ASSUME NEW p \in Procs, AddRepeatable(p) PROVE TypeOK'
  <2>0. job[p] \in Names BY <1>6 DEF AddRepeatable, WorkOK, Names
  <2>1. repeat' \subseteq Names \X Crons BY <1>6, <2>0 DEF AddRepeatable
  <2>2. pc' \in [Procs -> Stages] BY <1>6 DEF AddRepeatable, Goto, Stages, Procs
  <2>3. job' \in [Procs -> Names \union {Unset}] BY <1>6 DEF AddRepeatable, Leave
  <2>4. keys' \in [Procs -> SUBSET (Names \X Crons)] BY <1>6 DEF AddRepeatable, Leave
  <2>5. cfg' \in [Procs -> Crons \union {Unset}] BY <1>6 DEF AddRepeatable, Leave
  <2>6. undisturbed' \in BOOLEAN BY <1>6 DEF AddRepeatable, Meets
  <2>7. UNCHANGED <<override, patch, seen, todo, want, boots, faults, clean>>
    BY <1>6 DEF AddRepeatable, reqVars, bootVars, faultVars
  <2>8. QED BY <2>1, <2>2, <2>3, <2>4, <2>5, <2>6, <2>7
<1>7. ASSUME StartBoot PROVE TypeOK'
  <2>1. pc' \in [Procs -> Stages] BY <1>7 DEF StartBoot, Goto, Stages, Procs
  <2>2. todo' \subseteq Names \union Queues BY <1>7 DEF StartBoot, Names
  <2>3. boots' \in 0..MaxBoots BY <1>7 DEF StartBoot
  <2>4. undisturbed' \in BOOLEAN /\ clean' \in BOOLEAN BY <1>7 DEF StartBoot
  <2>5. UNCHANGED <<override, repeat, job, patch, seen, keys, cfg, want, faults>>
    BY <1>7 DEF StartBoot, reqVars, bootVars, faultVars
  <2>6. QED BY <2>1, <2>2, <2>3, <2>4, <2>5
<1>8. ASSUME NextJob PROVE TypeOK'
  <2>1. pc' \in [Procs -> Stages] BY <1>8 DEF NextJob, Goto, Stages, Procs
  <2>2. job' \in [Procs -> Names \union {Unset}]
    BY <1>8 DEF NextJob, Names, Procs, WorkOK
  <2>3. todo' \subseteq Names \union Queues BY <1>8 DEF NextJob
  <2>4. UNCHANGED <<override, repeat, patch, seen, keys, cfg, want, boots, faults, clean,
                    undisturbed>>
    BY <1>8 DEF NextJob, reqVars, bootVars, faultVars
  <2>5. QED BY <2>1, <2>2, <2>3, <2>4
<1>9. ASSUME StartCleanup PROVE TypeOK'
  <2>1. pc' \in [Procs -> Stages] BY <1>9 DEF StartCleanup, Goto, Stages, Procs
  <2>2. todo' \subseteq Names \union Queues BY <1>9 DEF StartCleanup, Names
  <2>3. UNCHANGED <<override, repeat, job, patch, seen, keys, cfg, want, boots,
                    faults, clean, undisturbed>>
    BY <1>9 DEF StartCleanup, reqVars, bootVars, faultVars
  <2>4. QED BY <2>1, <2>2, <2>3
<1>10. ASSUME Desire PROVE TypeOK'
  <2>0. PICK j \in Jobs : want' = [want EXCEPT ![j] = Effective(j)]
    BY <1>10 DEF Desire, WorkOK
  <2>10. Effective(j) \in Crons \union {Unset} BY EffectiveType
  <2>1. want' \in [Jobs -> Crons \union {Unset}] BY <1>10, <2>0, <2>10
  <2>2. todo' \subseteq Names \union Queues BY <1>10 DEF Desire
  <2>3. UNCHANGED <<override, repeat, pc, job, patch, seen, keys, cfg, boots, faults, clean,
                    undisturbed>>
    BY <1>10 DEF Desire, reqVars, bootVars, faultVars
  <2>4. QED BY <2>1, <2>2, <2>3
<1>11. ASSUME StartSweep PROVE TypeOK'
  <2>1. pc' \in [Procs -> Stages] BY <1>11 DEF StartSweep, Goto, Stages, Procs
  <2>2. todo' \subseteq Names \union Queues BY <1>11 DEF StartSweep
  <2>3. UNCHANGED <<override, repeat, job, patch, seen, keys, cfg, want, boots,
                    faults, clean, undisturbed>>
    BY <1>11 DEF StartSweep, reqVars, bootVars, faultVars
  <2>4. QED BY <2>1, <2>2, <2>3
<1>12. ASSUME ListQueue PROVE TypeOK'
  <2>1. pc' \in [Procs -> Stages] BY <1>12 DEF ListQueue, Goto, Stages, Procs
  <2>2. keys' \in [Procs -> SUBSET (Names \X Crons)] BY <1>12 DEF ListQueue, Procs
  <2>3. todo' \subseteq Names \union Queues BY <1>12 DEF ListQueue
  <2>4. UNCHANGED <<override, repeat, job, patch, seen, cfg, want, boots, faults, clean,
                    undisturbed>>
    BY <1>12 DEF ListQueue, reqVars, bootVars, faultVars
  <2>5. QED BY <2>1, <2>2, <2>3, <2>4
<1>13. ASSUME DropStale PROVE TypeOK'
  <2>1. repeat' \subseteq Names \X Crons BY <1>13 DEF DropStale
  <2>2. keys' \in [Procs -> SUBSET (Names \X Crons)] BY <1>13 DEF DropStale, Procs
  <2>3. UNCHANGED <<override, pc, job, patch, seen, cfg, todo, want, boots, faults, clean,
                    undisturbed>>
    BY <1>13 DEF DropStale, reqVars, bootVars, faultVars
  <2>4. QED BY <2>1, <2>2, <2>3
<1>14. ASSUME DropFails PROVE TypeOK'
  <2>1. keys' \in [Procs -> SUBSET (Names \X Crons)] BY <1>14 DEF DropFails, Procs
  <2>2. faults' \in 0..MaxFaults BY <1>14 DEF DropFails
  <2>3. undisturbed' \in BOOLEAN /\ clean' \in BOOLEAN BY <1>14 DEF DropFails, Disturb
  <2>4. UNCHANGED <<override, repeat, pc, job, patch, seen, cfg, todo, want, boots>>
    BY <1>14 DEF DropFails, reqVars, bootVars, faultVars
  <2>5. QED BY <2>1, <2>2, <2>3, <2>4
<1>15. ASSUME NextQueue PROVE TypeOK'
  <2>1. pc' \in [Procs -> Stages] BY <1>15 DEF NextQueue, Goto, Stages, Procs
  <2>2. UNCHANGED <<override, repeat, job, patch, seen, keys, cfg, todo, want, boots,
                    faults, clean, undisturbed>>
    BY <1>15 DEF NextQueue, reqVars, bootVars, faultVars
  <2>3. QED BY <2>1, <2>2
<1>16. ASSUME FinishBoot PROVE TypeOK'
  <2>1. pc' \in [Procs -> Stages] BY <1>16 DEF FinishBoot, Goto, Stages, Procs
  <2>2. want' \in [Jobs -> Crons \union {Unset}] BY <1>16 DEF FinishBoot
  <2>10. clean' \in BOOLEAN BY <1>16 DEF FinishBoot
  <2>3. UNCHANGED <<override, repeat, job, patch, seen, keys, cfg, todo, boots,
                    faults, undisturbed>>
    BY <1>16 DEF FinishBoot, reqVars, bootVars, faultVars
  <2>4. QED BY <2>1, <2>2, <2>3, <2>10
<1>17. ASSUME NEW p \in Procs, Fail(p) PROVE TypeOK'
  <2>1. pc' \in [Procs -> Stages] BY <1>17 DEF Fail, Goto, Stages, Procs
  <2>2. job' \in [Procs -> Names \union {Unset}] BY <1>17 DEF Fail, Leave
  <2>3. keys' \in [Procs -> SUBSET (Names \X Crons)] BY <1>17 DEF Fail, Leave
  <2>4. cfg' \in [Procs -> Crons \union {Unset}] BY <1>17 DEF Fail, Leave
  <2>5. faults' \in 0..MaxFaults BY <1>17 DEF Fail
  <2>6. undisturbed' \in BOOLEAN /\ clean' \in BOOLEAN BY <1>17 DEF Fail, Disturb
  <2>7. todo' \subseteq Names \union Queues BY <1>17 DEF Fail, bootVars
  <2>8. want' \in [Jobs -> Crons \union {Unset}] BY <1>17 DEF Fail, bootVars
  <2>9. patch' \in [Reqs -> Patches \union {Unset}]
    BY <1>17 DEF Fail, Forget, reqVars, Procs
  <2>10. seen' \in [Reqs -> Rows \union {Unset}]
    BY <1>17 DEF Fail, Forget, reqVars, Procs
  <2>11. boots' \in 0..MaxBoots BY <1>17 DEF Fail, bootVars
  <2>12. UNCHANGED <<override, repeat>>
    BY <1>17 DEF Fail, reqVars, bootVars, faultVars
  <2>13. QED BY <2>1, <2>2, <2>3, <2>4, <2>5, <2>6, <2>7, <2>8, <2>9, <2>10, <2>11, <2>12
<1>18. CASE Terminated BY <1>18 DEF Terminated, vars
<1>19. QED
  BY <1>1, <1>2, <1>3, <1>4, <1>5, <1>6, <1>7, <1>8, <1>9, <1>10, <1>11, <1>12, <1>13,
     <1>14, <1>15, <1>16, <1>17, <1>18
  DEF Next, Request, Reconcile, BootStep

\* Every step keeps the locals of its actor in order and touches no other's.
LEMMA StepWork ==
  ASSUME TypeOK, WorkOK, Next
  PROVE WorkOK'
<1> USE ScheduleAssumption DEF TypeOK, WorkOK, Procs, Goto, bootVars, reqVars, faultVars
<1>1. ASSUME NEW r \in Reqs, ReadOverride(r) PROVE WorkOK'
  <2>1. PICK j \in Jobs, e \in {"yes", "no", Unset}, c \in Crons \union {"none", Unset} :
          /\ job' = [job EXCEPT ![r] = j]
          /\ patch' = [patch EXCEPT ![r] = [enabled |-> e, preset |-> c]]
    BY <1>1 DEF ReadOverride
  <2>2. [enabled |-> e, preset |-> c] \in Patches BY DEF Patches
  <2>3. pc' = [pc EXCEPT ![r] = "write"] /\ UNCHANGED <<keys, todo>>
    BY <1>1 DEF ReadOverride
  <2>4. QED BY <2>1, <2>2, <2>3
<1>2. ASSUME NEW r \in Reqs, WriteOverride(r) PROVE WorkOK'
  BY <1>2 DEF WriteOverride, Leave, Forget
<1>3. ASSUME NEW p \in Procs, ListRepeatables(p) PROVE WorkOK'
  BY <1>3 DEF ListRepeatables
<1>4. ASSUME NEW p \in Procs, RemoveRepeatable(p) PROVE WorkOK'
  BY <1>4 DEF RemoveRepeatable
<1>5. ASSUME NEW p \in Procs, ResolveConfig(p) PROVE WorkOK'
  BY <1>5 DEF ResolveConfig
<1>6. ASSUME NEW p \in Procs, AddRepeatable(p) PROVE WorkOK'
  BY <1>6 DEF AddRepeatable, Leave
<1>7. ASSUME StartBoot PROVE WorkOK'
  BY <1>7 DEF StartBoot
<1>8. ASSUME NextJob PROVE WorkOK'
  BY <1>8 DEF NextJob
<1>9. ASSUME StartCleanup PROVE WorkOK'
  BY <1>9 DEF StartCleanup
<1>10. ASSUME Desire PROVE WorkOK'
  BY <1>10 DEF Desire
<1>11. ASSUME StartSweep PROVE WorkOK'
  BY <1>11 DEF StartSweep
<1>12. ASSUME ListQueue PROVE WorkOK'
  BY <1>12 DEF ListQueue
<1>13. ASSUME DropStale PROVE WorkOK'
  BY <1>13 DEF DropStale
<1>14. ASSUME DropFails PROVE WorkOK'
  BY <1>14 DEF DropFails
<1>15. ASSUME NextQueue PROVE WorkOK'
  BY <1>15 DEF NextQueue
<1>16. ASSUME FinishBoot PROVE WorkOK'
  BY <1>16 DEF FinishBoot
<1>17. ASSUME NEW p \in Procs, Fail(p) PROVE WorkOK'
  BY <1>17 DEF Fail, Leave, Forget
<1>18. CASE Terminated BY <1>18 DEF Terminated, vars
<1>19. QED
  BY <1>1, <1>2, <1>3, <1>4, <1>5, <1>6, <1>7, <1>8, <1>9, <1>10, <1>11, <1>12, <1>13,
     <1>14, <1>15, <1>16, <1>17, <1>18
  DEF Next, Request, Reconcile, BootStep

\* Both initial conditions are typed and nobody is at work in them.
LEMMA InitTypes ==
  ASSUME Init \/ InitStale
  PROVE TypeOK /\ WorkOK
<1> USE ScheduleAssumption
<1>1. repeat \subseteq Names \X Crons BY DEF Init, InitStale, Wanted, Names
<1>2. override \in [Jobs -> Rows \union {Unset}] /\ InitRest BY DEF Init, InitStale
<1>3. TypeOK
  <2>1. pc \in [Procs -> Stages] /\ job \in [Procs -> Names \union {Unset}]
    BY <1>2 DEF InitRest, Stages
  <2>2. patch \in [Reqs -> Patches \union {Unset}] /\ seen \in [Reqs -> Rows \union {Unset}]
    BY <1>2 DEF InitRest
  <2>3. keys \in [Procs -> SUBSET (Names \X Crons)] BY <1>2 DEF InitRest
  <2>4. cfg \in [Procs -> Crons \union {Unset}] /\ want \in [Jobs -> Crons \union {Unset}]
    BY <1>2 DEF InitRest
  <2>5. todo = {} /\ boots \in 0..MaxBoots /\ faults \in 0..MaxFaults
    BY <1>2 DEF InitRest
  <2>6. undisturbed \in BOOLEAN /\ clean \in BOOLEAN
    BY <1>2 DEF Init, InitStale, InitRest
  <2>7. QED BY <1>1, <1>2, <2>1, <2>2, <2>3, <2>4, <2>5, <2>6 DEF TypeOK
<1>4. WorkOK BY <1>2 DEF InitRest, WorkOK, Procs
<1>5. QED BY <1>3, <1>4

\* Every variable keeps its type, from a reconciled Redis and from any other: the
\* rows requests merge are rows, and the pattern a reconcile adds is a pattern.
THEOREM TypeCorrect == (Spec => []TypeOK) /\ (StaleSpec => []TypeOK)
<1>1. TypeOK /\ WorkOK /\ [Next]_vars => TypeOK' /\ WorkOK'
  <2>1. ASSUME TypeOK, WorkOK, Next PROVE TypeOK' /\ WorkOK'
    BY <2>1, StepTypes, StepWork
  <2>2. ASSUME TypeOK, WorkOK, UNCHANGED vars PROVE TypeOK' /\ WorkOK'
    BY <2>2 DEF TypeOK, WorkOK, vars, reqVars, bootVars, faultVars
  <2>3. QED BY <2>1, <2>2
<1>2. QED BY <1>1, InitTypes, PTL DEF Spec, StaleSpec

-----------------------------------------------------------------------------
(***************************************************************************)
(* While the system is clean, what an override asks for is in Redis, or     *)
(* somebody is still going to read that override, or has read it and is    *)
(* about to add what it asks for.  The second case is why the order in     *)
(* reconcileScheduledJob matters: whoever removes a schedule has not read  *)
(* the override yet.                                                       *)
(***************************************************************************)
Pending(j) ==
  \E r \in Reqs :
    job[r] = j /\ (pc[r] \in {"list", "remove"} \/ (pc[r] = "add" /\ cfg[r] = Effective(j)))

Covered ==
  \A j \in Jobs : Effective(j) # Unset => <<j, Effective(j)>> \in repeat \/ Pending(j)

NoBoot == pc[Boot] \in {"idle", "done"}

\* A write leaves the other jobs' overrides, and so what they ask for, alone.
LEMMA EffectiveFrame ==
  ASSUME NEW j \in Jobs, override'[j] = override[j]
  PROVE Effective(j)' = Effective(j)
BY DEF Effective

\* No step of a request breaks it, and no other step leaves the system clean, but the
\* last of an undisturbed boot.
LEMMA CoveredStep ==
  ASSUME TypeOK, WorkOK, NoBoot, Covered, clean, Next, clean'
  PROVE Covered' /\ NoBoot'
<1> USE ScheduleAssumption DEF TypeOK, Procs, Goto
<1>1. ASSUME NEW r \in Reqs, ReadOverride(r) PROVE Covered' /\ NoBoot'
  <2>1. NoBoot' BY <1>1 DEF ReadOverride, NoBoot
  <2>2. UNCHANGED <<override, repeat, cfg>> BY <1>1 DEF ReadOverride
  <2>3. \A q \in Reqs : q # r => job'[q] = job[q] /\ pc'[q] = pc[q]
    BY <1>1 DEF ReadOverride
  <2>4. pc[r] = "idle" BY <1>1 DEF ReadOverride
  <2>5. \A j \in Jobs : Effective(j)' = Effective(j) BY <2>2, EffectiveFrame
  <2>6. Covered' BY <2>2, <2>3, <2>4, <2>5 DEF Covered, Pending
  <2>7. QED BY <2>1, <2>6
<1>2. ASSUME NEW r \in Reqs, WriteOverride(r) PROVE Covered' /\ NoBoot'
  <2>1. NoBoot' BY <1>2 DEF WriteOverride, NoBoot
  <2>2. pc[r] = "write" /\ UNCHANGED repeat BY <1>2 DEF WriteOverride
  <2>3. \A q \in Reqs : q # r => job'[q] = job[q] /\ pc'[q] = pc[q] /\ cfg'[q] = cfg[q]
    BY <1>2 DEF WriteOverride, Leave
  <2>4. CASE UNCHANGED override
    <3>1. \A j \in Jobs : Effective(j)' = Effective(j) BY <2>4, EffectiveFrame
    <3>2. QED BY <2>1, <2>2, <2>3, <3>1 DEF Covered, Pending
  <2>5. CASE override' # override
    <3>1. job'[r] = job[r] /\ pc'[r] = "list" BY <1>2, <2>5 DEF WriteOverride
    <3>2. \A j \in Jobs : j # job[r] => override'[j] = override[j]
      BY <1>2, <2>5 DEF WriteOverride
    <3>3. ASSUME NEW j \in Jobs, Effective(j)' # Unset
          PROVE (<<j, Effective(j)>> \in repeat)' \/ Pending(j)'
      <4>1. CASE j = job[r] BY <3>1, <4>1 DEF Pending
      <4>2. CASE j # job[r]
        <5>1. Effective(j)' = Effective(j) BY <3>2, <4>2, EffectiveFrame
        <5>2. QED BY <2>2, <2>3, <3>3, <5>1 DEF Covered, Pending
      <4>3. QED BY <4>1, <4>2
    <3>4. QED BY <2>1, <3>3 DEF Covered
  <2>6. QED BY <2>4, <2>5
<1>3. ASSUME NEW p \in Procs, Reconcile(p) PROVE Covered' /\ NoBoot'
  <2>1. p \in Reqs /\ NoBoot'
    BY <1>3
    DEF Reconcile, ListRepeatables, RemoveRepeatable, ResolveConfig, AddRepeatable, NoBoot
  <2>2. UNCHANGED override
    BY <1>3 DEF Reconcile, ListRepeatables, RemoveRepeatable, ResolveConfig, AddRepeatable
  <2>3. \A j \in Jobs : Effective(j)' = Effective(j) BY <2>2, EffectiveFrame
  <2>4. \A q \in Reqs : q # p => job'[q] = job[q] /\ pc'[q] = pc[q] /\ cfg'[q] = cfg[q]
    BY <1>3, <2>1
    DEF Reconcile, ListRepeatables, RemoveRepeatable, ResolveConfig, AddRepeatable, Leave
  <2>5. CASE ListRepeatables(p)
    <3>1. pc[p] = "list" /\ pc'[p] = "remove" /\ UNCHANGED <<repeat, job, cfg>>
      BY <2>5 DEF ListRepeatables
    <3>2. QED BY <2>1, <2>3, <2>4, <3>1 DEF Covered, Pending
  <2>6. CASE RemoveRepeatable(p)
    <3>1. pc[p] = "remove" /\ UNCHANGED <<pc, job, cfg>> BY <2>6 DEF RemoveRepeatable
    <3>2. PICK s \in keys[p] : repeat' = repeat \ {s} BY <2>6 DEF RemoveRepeatable
    <3>3. s[1] = job[p] BY <3>1, <3>2 DEF WorkOK
    <3>4. ASSUME NEW j \in Jobs, Effective(j)' # Unset
          PROVE (<<j, Effective(j)>> \in repeat)' \/ Pending(j)'
      <4>1. CASE j = job[p] BY <2>1, <3>1, <4>1 DEF Pending
      <4>2. CASE j # job[p]
        <5>1. <<j, Effective(j)>> # s BY <3>3, <4>2
        <5>2. CASE <<j, Effective(j)>> \in repeat BY <2>3, <3>2, <5>1, <5>2
        <5>3. CASE Pending(j) BY <2>3, <3>1, <5>3 DEF Pending
        <5>4. QED BY <2>3, <3>4, <5>2, <5>3 DEF Covered
      <4>3. QED BY <4>1, <4>2
    <3>5. QED BY <2>1, <3>4 DEF Covered
  <2>7. CASE ResolveConfig(p)
    <3>1. pc[p] = "remove" /\ pc'[p] = "add" /\ cfg'[p] = Effective(job[p])
      BY <2>7 DEF ResolveConfig
    <3>2. UNCHANGED <<repeat, job>> BY <2>7 DEF ResolveConfig
    <3>3. ASSUME NEW j \in Jobs, Pending(j) PROVE Pending(j)'
      <4>1. PICK q \in Reqs : /\ job[q] = j
                              /\ \/ pc[q] \in {"list", "remove"}
                                 \/ pc[q] = "add" /\ cfg[q] = Effective(j)
        BY <3>3 DEF Pending
      <4>2. CASE q = p BY <2>3, <3>1, <3>2, <4>1, <4>2 DEF Pending
      <4>3. CASE q # p BY <2>3, <2>4, <3>2, <4>1, <4>3 DEF Pending
      <4>4. QED BY <4>2, <4>3
    <3>4. QED BY <2>1, <2>3, <3>2, <3>3 DEF Covered
  <2>8. CASE AddRepeatable(p)
    <3>1. pc[p] = "add" BY <2>8 DEF AddRepeatable
    <3>2. repeat' = repeat \union (IF cfg[p] = Unset THEN {} ELSE {<<job[p], cfg[p]>>})
      BY <2>8 DEF AddRepeatable
    <3>3. ASSUME NEW j \in Jobs, Effective(j)' # Unset
          PROVE (<<j, Effective(j)>> \in repeat)' \/ Pending(j)'
      <4>1. CASE <<j, Effective(j)>> \in repeat BY <2>3, <3>2, <4>1
      <4>2. CASE Pending(j)
        <5>1. PICK q \in Reqs : /\ job[q] = j
                                /\ \/ pc[q] \in {"list", "remove"}
                                   \/ pc[q] = "add" /\ cfg[q] = Effective(j)
          BY <4>2 DEF Pending
        <5>2. CASE q = p BY <2>3, <3>1, <3>2, <3>3, <5>1, <5>2
        <5>3. CASE q # p BY <2>3, <2>4, <5>1, <5>3 DEF Pending
        <5>4. QED BY <5>2, <5>3
      <4>3. QED BY <2>3, <3>3, <4>1, <4>2 DEF Covered
    <3>4. QED BY <2>1, <3>3 DEF Covered
  <2>9. QED BY <1>3, <2>5, <2>6, <2>7, <2>8 DEF Reconcile
<1>4. ASSUME BootStep PROVE FALSE
  BY <1>4
  DEF BootStep, StartBoot, NextJob, StartCleanup, Desire, StartSweep, ListQueue,
      DropStale, DropFails, NextQueue, FinishBoot, NoBoot
<1>5. ASSUME NEW p \in Procs, Fail(p) PROVE FALSE BY <1>5 DEF Fail
<1>6. CASE Terminated
  <2>1. UNCHANGED <<override, repeat, pc, job, cfg>> BY <1>6 DEF Terminated, vars
  <2>2. \A j \in Jobs : Effective(j)' = Effective(j) BY <2>1, EffectiveFrame
  <2>3. QED BY <2>1, <2>2 DEF Covered, Pending, NoBoot
<1>7. QED BY <1>1, <1>2, <1>3, <1>4, <1>5, <1>6 DEF Next, Request

-----------------------------------------------------------------------------
(***************************************************************************)
(* What an undisturbed boot has established at each of its stages.         *)
(***************************************************************************)
Reconciled(j) == \A c \in Crons : <<j, c>> \in repeat <=> Effective(j) = c

Visited == {s \in repeat : QueueOf[s[1]] \in Managed \ todo}

BootInv ==
  /\ \A r \in Reqs : Quiet(r)
  /\ pc[Boot] = "next" => \A j \in Jobs \ todo : Reconciled(j)
  /\ pc[Boot] \in {"list", "remove", "add"} =>
       \A j \in Jobs \ todo : j # job[Boot] => Reconciled(j)
  /\ pc[Boot] = "remove" => \A s \in repeat : s[1] = job[Boot] => s \in keys[Boot]
  /\ pc[Boot] = "add" =>
       (\A s \in repeat : s[1] # job[Boot]) /\ cfg[Boot] = Effective(job[Boot])
  /\ pc[Boot] \in {"desire", "sweep", "drop", "done"} => \A j \in Jobs : Reconciled(j)
  /\ pc[Boot] = "desire" => \A j \in Jobs \ todo : want[j] = Effective(j)
  /\ pc[Boot] \in {"sweep", "drop"} => \A j \in Jobs : want[j] = Effective(j)
  /\ pc[Boot] \in {"sweep", "done"} => Visited \subseteq Wanted
  /\ pc[Boot] = "done" => todo = {}
  /\ pc[Boot] = "drop" => Visited \subseteq Wanted \union keys[Boot]
  /\ pc[Boot] \notin {"idle", "failed"}

\* A stuttering step keeps it.
LEMMA BootStutter ==
  ASSUME TypeOK, WorkOK, BootInv, UNCHANGED vars
  PROVE BootInv'
<1> USE DEF vars, bootVars
<1>1. \A j \in Jobs : Effective(j)' = Effective(j) BY EffectiveFrame
<1>2. Wanted' = Wanted /\ Visited' = Visited BY <1>1 DEF Wanted, Visited
<1>3. pc[Boot] = "add" => Effective(job[Boot])' = Effective(job[Boot])
  BY <1>1 DEF WorkOK, Procs
<1>4. QED BY <1>1, <1>2, <1>3 DEF BootInv, Reconciled, Quiet

\* Each step of an undisturbed boot establishes the next stage.
LEMMA BootStepInv ==
  ASSUME TypeOK, WorkOK, undisturbed => BootInv, Next, undisturbed'
  PROVE BootInv'
<1> USE ScheduleAssumption DEF TypeOK, Procs, Goto, Quiet
<1>1. CASE StartBoot
  <2>1. /\ \A r \in Reqs : Quiet(r) /\ pc'[r] = pc[r]
        /\ pc'[Boot] = "next" /\ todo' = Jobs
    BY <1>1 DEF StartBoot
  <2>2. QED BY <2>1 DEF BootInv
<1>2. SUFFICES ASSUME ~StartBoot PROVE BootInv' BY <1>1
<1>3. undisturbed
  <2>1. ASSUME NEW r \in Reqs, Request(r) PROVE FALSE
    BY <2>1 DEF Request, ReadOverride, WriteOverride, Disturb
  <2>2. ASSUME NEW p \in Procs, Reconcile(p) PROVE undisturbed
    BY <2>2
    DEF Reconcile, ListRepeatables, RemoveRepeatable, ResolveConfig, AddRepeatable, Meets
  <2>3. ASSUME NEW p \in Procs, Fail(p) PROVE FALSE BY <2>3 DEF Fail, Disturb
  <2>4. CASE BootStep
    BY <1>2, <2>4
    DEF BootStep, NextJob, StartCleanup, Desire, StartSweep, ListQueue, DropStale,
        DropFails, NextQueue, FinishBoot, Disturb
  <2>5. CASE Terminated BY <2>5 DEF Terminated, vars
  <2>6. QED BY <2>1, <2>2, <2>3, <2>4, <2>5 DEF Next
<1>4. BootInv BY <1>3
<1>5. ASSUME NEW p \in Procs, Reconcile(p) PROVE BootInv'
  <2>1. p = Boot
    BY <1>4, <1>5
    DEF BootInv, Reconcile, ListRepeatables, RemoveRepeatable, ResolveConfig, AddRepeatable
  <2>2. /\ \A r \in Reqs : pc'[r] = pc[r]
        /\ UNCHANGED <<override, todo, want>>
    BY <1>5, <2>1
    DEF Reconcile, ListRepeatables, RemoveRepeatable, ResolveConfig, AddRepeatable, bootVars
  <2>3. \A j \in Jobs : Effective(j)' = Effective(j) BY <2>2, EffectiveFrame
  <2>4. CASE ListRepeatables(Boot)
    <3>1. /\ pc[Boot] = "list" /\ pc'[Boot] = "remove" /\ UNCHANGED <<repeat, job>>
          /\ keys'[Boot] = {s \in repeat : s[1] = job[Boot]}
      BY <2>4 DEF ListRepeatables
    <3>2. QED BY <1>4, <2>2, <2>3, <3>1 DEF BootInv, Reconciled
  <2>5. CASE RemoveRepeatable(Boot)
    <3>1. PICK s \in keys[Boot] : /\ repeat' = repeat \ {s}
                                  /\ keys' = [keys EXCEPT ![Boot] = @ \ {s}]
      BY <2>5 DEF RemoveRepeatable
    <3>2. pc[Boot] = "remove" /\ UNCHANGED <<pc, job>> BY <2>5 DEF RemoveRepeatable
    <3>3. s[1] = job[Boot] BY <3>1, <3>2 DEF WorkOK
    <3>4. \A j \in Jobs : j # job[Boot] /\ Reconciled(j) => Reconciled(j)'
      <4>1. \A j \in Jobs, c \in Crons : j # job[Boot] => <<j, c>> # s BY <3>3
      <4>2. QED BY <2>3, <3>1, <4>1 DEF Reconciled
    <3>5. keys'[Boot] = keys[Boot] \ {s} BY <3>1
    <3>6. QED BY <1>4, <2>2, <3>1, <3>2, <3>4, <3>5 DEF BootInv
  <2>6. CASE ResolveConfig(Boot)
    <3>1. /\ pc[Boot] = "remove" /\ keys[Boot] = {} /\ pc'[Boot] = "add"
          /\ cfg'[Boot] = Effective(job[Boot]) /\ UNCHANGED <<repeat, job>>
      BY <2>6 DEF ResolveConfig
    <3>2. job[Boot] \in Jobs BY <3>1 DEF WorkOK
    <3>3. QED BY <1>4, <2>2, <2>3, <3>1, <3>2 DEF BootInv, Reconciled
  <2>7. CASE AddRepeatable(Boot)
    <3>1. pc[Boot] = "add" /\ pc'[Boot] = "next" BY <2>7 DEF AddRepeatable
    <3>2. repeat' = repeat \union
                    (IF cfg[Boot] = Unset THEN {} ELSE {<<job[Boot], cfg[Boot]>>})
      BY <2>7 DEF AddRepeatable
    <3>3. job[Boot] \in Jobs BY <3>1 DEF WorkOK
    <3>4. /\ \A s \in repeat : s[1] # job[Boot]
          /\ cfg[Boot] = Effective(job[Boot])
      BY <1>4, <3>1 DEF BootInv
    <3>5. ASSUME NEW j \in Jobs \ todo PROVE Reconciled(j)'
      <4>1. CASE j = job[Boot]
        <5>1. \A c \in Crons : <<j, c>> \notin repeat BY <3>4, <4>1
        <5>2. \A c \in Crons : <<j, c>> \in repeat' <=> cfg[Boot] = c
          BY <3>2, <4>1, <5>1
        <5>3. QED BY <2>3, <3>4, <4>1, <5>2 DEF Reconciled
      <4>2. CASE j # job[Boot]
        <5>1. Reconciled(j) BY <1>4, <3>1, <4>2 DEF BootInv
        <5>2. QED BY <2>3, <3>2, <4>2, <5>1 DEF Reconciled
      <4>3. QED BY <4>1, <4>2
    <3>6. QED BY <1>4, <2>2, <3>1, <3>5 DEF BootInv
  <2>8. QED BY <1>5, <2>1, <2>4, <2>5, <2>6, <2>7 DEF Reconcile
<1>6. CASE NextJob
  <2>1. /\ pc[Boot] = "next" /\ pc'[Boot] = "list" /\ \A r \in Reqs : pc'[r] = pc[r]
        /\ UNCHANGED <<override, repeat>>
    BY <1>6 DEF NextJob
  <2>2. todo' = todo \ {job'[Boot]} BY <1>6 DEF NextJob
  <2>3. \A j \in Jobs : Effective(j)' = Effective(j) BY <2>1, EffectiveFrame
  <2>4. QED BY <1>4, <2>1, <2>2, <2>3 DEF BootInv, Reconciled
<1>7. CASE StartCleanup
  <2>1. /\ pc[Boot] = "next" /\ pc'[Boot] = "desire" /\ \A r \in Reqs : pc'[r] = pc[r]
        /\ todo = {} /\ todo' = Jobs /\ UNCHANGED <<override, repeat>>
    BY <1>7 DEF StartCleanup
  <2>2. \A j \in Jobs : Effective(j)' = Effective(j) BY <2>1, EffectiveFrame
  <2>3. QED BY <1>4, <2>1, <2>2 DEF BootInv, Reconciled
<1>8. CASE Desire
  <2>1. pc[Boot] = "desire" /\ UNCHANGED <<override, repeat, pc>> BY <1>8 DEF Desire
  <2>2. PICK j \in todo : want' = [want EXCEPT ![j] = Effective(j)] /\ todo' = todo \ {j}
    BY <1>8 DEF Desire
  <2>3. \A i \in Jobs : Effective(i)' = Effective(i) BY <2>1, EffectiveFrame
  <2>4. \A i \in Jobs \ todo' : want'[i] = Effective(i)
    BY <1>4, <2>1, <2>2 DEF BootInv
  <2>5. QED BY <1>4, <2>1, <2>3, <2>4 DEF BootInv, Reconciled
<1>9. CASE StartSweep
  <2>1. /\ pc[Boot] = "desire" /\ pc'[Boot] = "sweep" /\ \A r \in Reqs : pc'[r] = pc[r]
        /\ todo = {} /\ todo' = Managed /\ UNCHANGED <<override, repeat, want>>
    BY <1>9 DEF StartSweep
  <2>2. \A j \in Jobs : Effective(j)' = Effective(j) BY <2>1, EffectiveFrame
  <2>3. Visited' = {} BY <2>1 DEF Visited
  <2>4. QED BY <1>4, <2>1, <2>2, <2>3 DEF BootInv, Reconciled
<1>10. CASE ListQueue
  <2>1. /\ pc[Boot] = "sweep" /\ pc'[Boot] = "drop" /\ \A r \in Reqs : pc'[r] = pc[r]
        /\ UNCHANGED <<override, repeat, want>>
    BY <1>10 DEF ListQueue
  <2>2. PICK q \in todo : /\ keys'[Boot] = {s \in repeat : QueueOf[s[1]] = q}
                          /\ todo' = todo \ {q}
    BY <1>10 DEF ListQueue
  <2>3. \A j \in Jobs : Effective(j)' = Effective(j) BY <2>1, EffectiveFrame
  <2>4. Wanted' = Wanted BY <2>3 DEF Wanted
  <2>5. Visited' \subseteq Visited \union keys'[Boot] BY <2>1, <2>2 DEF Visited
  <2>6. Visited' \subseteq Wanted' \union keys'[Boot]
    BY <1>4, <2>1, <2>4, <2>5 DEF BootInv
  <2>7. QED BY <1>4, <2>1, <2>3, <2>6 DEF BootInv, Reconciled
<1>11. CASE DropStale
  <2>1. pc[Boot] = "drop" /\ UNCHANGED <<override, pc, todo, want>>
    BY <1>11 DEF DropStale, bootVars
  <2>2. PICK s \in keys[Boot] : /\ repeat' = IF Stale(s) THEN repeat \ {s} ELSE repeat
                                /\ keys' = [keys EXCEPT ![Boot] = @ \ {s}]
    BY <1>11 DEF DropStale
  <2>3. \A j \in Jobs : Effective(j)' = Effective(j) BY <2>1, EffectiveFrame
  <2>4. Wanted' = Wanted BY <2>3 DEF Wanted
  <2>5. keys'[Boot] = keys[Boot] \ {s} BY <2>2
  <2>6. \A j \in Jobs : want[j] = Effective(j) /\ Reconciled(j) BY <1>4, <2>1 DEF BootInv
  <2>7. s \in Names \X Crons BY <2>2
  <2>8. ASSUME NEW j \in Jobs PROVE Reconciled(j)'
    <3>1. Stale(s) => <<j, Effective(j)>> # s BY <2>6 DEF Stale
    <3>2. QED BY <2>2, <2>3, <2>6, <3>1 DEF Reconciled
  <2>9. ~Stale(s) => s \in Wanted BY <2>6, <2>7 DEF Stale, Wanted
  <2>10. Visited' \subseteq Visited /\ (Stale(s) => s \notin Visited')
    BY <2>1, <2>2 DEF Visited
  <2>11. Visited \subseteq Wanted \union keys[Boot] BY <1>4, <2>1 DEF BootInv
  <2>12. Visited' \subseteq Wanted' \union keys'[Boot] BY <2>4, <2>5, <2>9, <2>10, <2>11
  <2>13. QED BY <1>4, <2>1, <2>3, <2>8, <2>12 DEF BootInv
<1>12. CASE DropFails BY <1>12 DEF DropFails, Disturb
<1>13. CASE NextQueue
  <2>1. /\ pc[Boot] = "drop" /\ pc'[Boot] = "sweep" /\ \A r \in Reqs : pc'[r] = pc[r]
        /\ keys[Boot] = {} /\ UNCHANGED <<override, repeat, todo, want>>
    BY <1>13 DEF NextQueue, bootVars
  <2>2. \A j \in Jobs : Effective(j)' = Effective(j) BY <2>1, EffectiveFrame
  <2>3. Wanted' = Wanted /\ Visited' = Visited BY <2>1, <2>2 DEF Wanted, Visited
  <2>4. QED BY <1>4, <2>1, <2>2, <2>3 DEF BootInv, Reconciled
<1>14. CASE FinishBoot
  <2>1. /\ pc[Boot] = "sweep" /\ pc'[Boot] = "done" /\ \A r \in Reqs : pc'[r] = pc[r]
        /\ todo = {} /\ UNCHANGED <<override, repeat, todo>>
    BY <1>14 DEF FinishBoot
  <2>2. \A j \in Jobs : Effective(j)' = Effective(j) BY <2>1, EffectiveFrame
  <2>3. Wanted' = Wanted /\ Visited' = Visited BY <2>1, <2>2 DEF Wanted, Visited
  <2>4. QED BY <1>4, <2>1, <2>2, <2>3 DEF BootInv, Reconciled
<1>15. CASE Terminated BY <1>4, <1>15, BootStutter DEF Terminated
<1>16. ASSUME NEW r \in Reqs, Request(r) PROVE BootInv'
  BY <1>16 DEF Request, ReadOverride, WriteOverride, Disturb
<1>17. ASSUME NEW p \in Procs, Fail(p) PROVE BootInv' BY <1>17 DEF Fail, Disturb
<1>18. QED
  BY <1>2, <1>5, <1>6, <1>7, <1>8, <1>9, <1>10, <1>11, <1>12, <1>13, <1>14, <1>15, <1>16,
     <1>17
  DEF Next, BootStep

\* Whatever a boot finds in Redis, and whatever the overrides say, a boot that no
\* request and no fault disturbs leaves exactly what they ask for.
THEOREM BootRepairsHolds == (Spec => []BootRepairs) /\ (StaleSpec => []BootRepairs)
<1> DEFINE IInv == TypeOK /\ WorkOK /\ (undisturbed => BootInv)
<1>1. Init \/ InitStale => IInv
  BY InitTypes DEF Init, InitStale, InitRest
<1>2. IInv /\ [Next]_vars => IInv'
  <2>1. ASSUME IInv, Next PROVE IInv' BY <2>1, StepTypes, StepWork, BootStepInv
  <2>2. ASSUME IInv, UNCHANGED vars PROVE IInv'
    <3>1. TypeOK' /\ WorkOK' BY <2>2 DEF TypeOK, WorkOK, vars, reqVars, bootVars, faultVars
    <3>2. undisturbed' = undisturbed BY <2>2 DEF vars
    <3>3. QED BY <2>2, <3>1, <3>2, BootStutter
  <2>3. QED BY <2>1, <2>2
<1>3. IInv => BootRepairs
  <2>1. ASSUME IInv, pc[Boot] = "done", undisturbed, NEW s \in Names \X Crons,
               QueueOf[s[1]] \in Managed \/ s[1] \in Jobs
        PROVE s \in repeat <=> s \in Wanted
    <3>1. /\ \A j \in Jobs : Reconciled(j)
          /\ Visited \subseteq Wanted /\ todo = {}
      BY <2>1 DEF BootInv
    <3>2. PICK n \in Names, c \in Crons : s = <<n, c>> BY <2>1
    <3>3. CASE n \in Jobs BY <3>1, <3>2, <3>3 DEF Reconciled, Wanted
    <3>4. CASE n \notin Jobs
      <4>1. s \notin Wanted BY <3>2, <3>4 DEF Wanted
      <4>2. s \in repeat => s \in Visited BY <2>1, <3>1, <3>2, <3>4 DEF Visited
      <4>3. QED BY <3>1, <4>1, <4>2
    <3>5. QED BY <3>3, <3>4
  <2>2. QED BY <2>1 DEF BootRepairs
<1>4. QED BY <1>1, <1>2, <1>3, PTL DEF Spec, StaleSpec

-----------------------------------------------------------------------------
\* Only the last step of a boot that nothing disturbed makes the system clean.
LEMMA CleanStep ==
  ASSUME TypeOK, WorkOK, Next, clean', ~clean
  PROVE FinishBoot /\ undisturbed
<1>1. ASSUME NEW r \in Reqs, Request(r) PROVE clean' = clean
  BY <1>1 DEF Request, ReadOverride, WriteOverride, faultVars
<1>2. ASSUME NEW p \in Procs, Reconcile(p) PROVE clean' = clean
  BY <1>2
  DEF Reconcile, ListRepeatables, RemoveRepeatable, ResolveConfig, AddRepeatable, faultVars
<1>3. ASSUME NEW p \in Procs, Fail(p) PROVE clean' = FALSE BY <1>3 DEF Fail
<1>4. CASE BootStep
  BY <1>4
  DEF BootStep, StartBoot, NextJob, StartCleanup, Desire, StartSweep, ListQueue, DropStale,
      DropFails, NextQueue, FinishBoot, faultVars
<1>5. CASE Terminated BY <1>5 DEF Terminated, vars
<1>6. QED BY <1>1, <1>2, <1>3, <1>4, <1>5 DEF Next

\* A boot that nothing disturbed hands over with every schedule in place.
LEMMA FinishCovers ==
  ASSUME TypeOK, WorkOK, BootInv, FinishBoot
  PROVE NoBoot' /\ Covered'
<1> USE ScheduleAssumption DEF TypeOK, Procs, Goto
<1>1. pc[Boot] = "sweep" /\ pc'[Boot] = "done" /\ UNCHANGED <<override, repeat>>
  BY DEF FinishBoot
<1>2. \A j \in Jobs : Effective(j)' = Effective(j) BY <1>1, EffectiveFrame
<1>3. ASSUME NEW j \in Jobs, Effective(j) # Unset PROVE <<j, Effective(j)>> \in repeat
  <2>1. Effective(j) \in Crons BY <1>3, EffectiveType
  <2>2. Reconciled(j) BY <1>1 DEF BootInv
  <2>3. QED BY <2>1, <2>2 DEF Reconciled
<1>4. QED BY <1>1, <1>2, <1>3 DEF NoBoot, Covered

\* However many requests reconcile a job beside each other, and whatever the last
\* undisturbed boot had found, when they are through each enabled job has the schedule
\* its override asks for, as long as no further boot and no fault has come.
THEOREM LatestScheduleSurvivesHolds ==
  (Spec => []LatestScheduleSurvives) /\ (StaleSpec => []LatestScheduleSurvives)
<1> DEFINE IInv == /\ TypeOK /\ WorkOK /\ (undisturbed => BootInv)
                   /\ clean => NoBoot /\ Covered
<1>1. Init \/ InitStale => IInv
  <2>1. ASSUME Init \/ InitStale PROVE TypeOK /\ WorkOK /\ ~undisturbed
    BY <2>1, InitTypes DEF Init, InitStale, InitRest
  <2>2. ASSUME Init \/ InitStale, clean PROVE NoBoot /\ Covered
    <3>1. Init BY <2>2 DEF InitStale
    <3>2. NoBoot BY <3>1 DEF Init, InitRest, NoBoot, Procs
    <3>3. ASSUME NEW j \in Jobs, Effective(j) # Unset PROVE <<j, Effective(j)>> \in repeat
      <4>1. Effective(j) \in Crons BY <2>1, <2>2, <3>3, EffectiveType
      <4>2. QED BY <3>1, <4>1 DEF Init, Wanted
    <3>4. QED BY <3>2, <3>3 DEF Covered
  <2>3. QED BY <2>1, <2>2
<1>2. IInv /\ [Next]_vars => IInv'
  <2>1. ASSUME IInv, Next PROVE IInv'
    <3>1. TypeOK' /\ WorkOK' BY <2>1, StepTypes, StepWork
    <3>2. undisturbed' => BootInv' BY <2>1, BootStepInv
    <3>3. CASE clean' /\ clean BY <2>1, <3>1, <3>2, <3>3, CoveredStep
    <3>4. CASE clean' /\ ~clean BY <2>1, <3>1, <3>2, <3>4, CleanStep, FinishCovers
    <3>5. QED BY <3>1, <3>2, <3>3, <3>4
  <2>2. ASSUME IInv, UNCHANGED vars PROVE IInv'
    <3>1. \A j \in Jobs : Effective(j)' = Effective(j)
      BY <2>2, EffectiveFrame DEF vars
    <3>2. TypeOK' /\ WorkOK' BY <2>2 DEF TypeOK, WorkOK, vars, reqVars, bootVars
    <3>3. undisturbed' => BootInv' BY <2>2, BootStutter DEF vars
    <3>4. clean' => NoBoot' /\ Covered'
      BY <2>2, <3>1 DEF NoBoot, Covered, Pending, vars
    <3>5. QED BY <3>1, <3>2, <3>3, <3>4
  <2>3. QED BY <2>1, <2>2
<1>3. IInv => LatestScheduleSurvives
  <2>1. ASSUME IInv, Settled, clean, NEW w \in Wanted PROVE w \in repeat
    <3>1. PICK j \in Jobs, c \in Crons : w = <<j, c>> /\ Effective(j) = c
      BY <2>1 DEF Wanted
    <3>2. Effective(j) # Unset BY <3>1, ScheduleAssumption
    <3>3. ~Pending(j) BY <2>1 DEF Settled, Quiet, Pending, Procs
    <3>4. QED BY <2>1, <3>1, <3>2, <3>3 DEF Covered
  <2>2. QED BY <2>1 DEF LatestScheduleSurvives
<1>4. QED BY <1>1, <1>2, <1>3, PTL DEF Spec, StaleSpec
=============================================================================
