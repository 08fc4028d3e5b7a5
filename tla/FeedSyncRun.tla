----------------------------- MODULE FeedSyncRun -----------------------------
(***************************************************************************)
(* A feed-sync job, the feed_sync_runs rows its executions write, and the  *)
(* enrichment batches they fan out                                         *)
(* (queues/workers/feedSyncWorker.ts, feedBatchWorker.ts,                  *)
(* enrichmentWorker.ts, services/configStore.ts).                          *)
(*                                                                         *)
(* BullMQ runs a job again after it threw, up to Attempts times, and after *)
(* the lock of its execution expired (a stall), up to MaxStalls times.  A  *)
(* lock expires when its process died, and also when the process is alive  *)
(* but its event loop was blocked for longer than the lock: then two       *)
(* executions of one job are under way, and the result of the older one is *)
(* refused, but not what it wrote.  Every execution opens a row of its     *)
(* own, so a row is named by its execution.                                *)
(*                                                                         *)
(* Children added by flowProducer.add get no default job options: a child  *)
(* has one attempt, and so has the parent.  The parent becomes ready when  *)
(* all its children have completed.                                        *)
(***************************************************************************)
EXTENDS Naturals

CONSTANTS
  Jobs,       \* feed-sync jobs
  Iocs,       \* indicators a sync can bring in
  Batches,    \* bound: which of them a sync may have come up with for its batch
  Attempts,   \* attempts of feedSyncQueue's defaultJobOptions
  MaxStalls,  \* BullMQ's maxStalledCount
  MaxFaults   \* bound: crashes, blocked event loops, failing Postgres or Redis calls

ASSUME FeedSyncAssumption ==
  /\ Batches \subseteq SUBSET Iocs
  /\ Attempts \in Nat \ {0} /\ MaxStalls \in Nat /\ MaxFaults \in Nat

\* An execution ends in an attempt made or in a stall, so there are no more.
Turns == 1..(Attempts + MaxStalls)
Execs == Jobs \X Turns

VARIABLES
  state,     \* of the job: "wait" (or delayed), "active", "completed", "failed"
  made,      \* attemptsMade
  stalls,
  turn,      \* executions started; the last one holds the job's lock
  stage,     \* where every execution is
  found,     \* newIOCs of an execution
  status,    \* feed_sync_runs.status, "none" before the INSERT
  total,     \* the children enrichment_children_total counts
  enriched,  \* "yes" when enriched_at is set
  done,      \* the children enrichment_children_done counts
  batch,     \* the flow's parent job
  child,     \* the flow's children
  faults

jobVars == <<state, made, stalls, turn>>
rowVars == <<status, total, enriched, done>>
flowVars == <<batch, child>>
vars == <<jobVars, stage, found, rowVars, flowVars, faults>>

Live == {"start", "check", "flow", "complete", "catch", "return", "throw"}
Stages == Live \union {"none", "over", "gone"}

TypeOK ==
  /\ state \in [Jobs -> {"wait", "active", "completed", "failed"}]
  /\ made \in [Jobs -> 0..Attempts] /\ stalls \in [Jobs -> 0..MaxStalls]
  /\ turn \in [Jobs -> 0..(Attempts + MaxStalls)]
  /\ stage \in [Execs -> Stages]
  /\ found \in [Execs -> SUBSET Iocs]
  /\ status \in [Execs -> {"none", "running", "completed", "failed"}]
  /\ total \in [Execs -> SUBSET Iocs] /\ done \in [Execs -> SUBSET Iocs]
  /\ enriched \in [Execs -> {"no", "yes"}]
  /\ batch \in [Execs -> {"none", "waiting", "active", "completed", "failed"}]
  /\ child \in [Execs -> [Iocs -> {"none", "wait", "active", "completed", "failed"}]]
  /\ faults \in 0..MaxFaults

Init ==
  /\ state = [j \in Jobs |-> "wait"] /\ made = [j \in Jobs |-> 0]
  /\ stalls = [j \in Jobs |-> 0] /\ turn = [j \in Jobs |-> 0]
  /\ stage = [e \in Execs |-> "none"] /\ found = [e \in Execs |-> {}]
  /\ status = [e \in Execs |-> "none"] /\ enriched = [e \in Execs |-> "no"]
  /\ total = [e \in Execs |-> {}] /\ done = [e \in Execs |-> {}]
  /\ batch = [e \in Execs |-> "none"]
  /\ child = [e \in Execs |-> [i \in Iocs |-> "none"]]
  /\ faults = 0

Goto(e, s) == stage' = [stage EXCEPT ![e] = s]
Holds(e) == state[e[1]] = "active" /\ turn[e[1]] = e[2]
Fault == faults < MaxFaults /\ faults' = faults + 1

-----------------------------------------------------------------------------
(***************************************************************************)
(* The processor of feedSyncWorker.                                        *)
(***************************************************************************)
Start(j) ==
  /\ state[j] = "wait"
  /\ turn' = [turn EXCEPT ![j] = @ + 1]
  /\ state' = [state EXCEPT ![j] = "active"]
  /\ Goto(<<j, turn[j] + 1>>, "start")
  /\ UNCHANGED <<made, stalls, found, rowVars, flowVars, faults>>

\* FEED_SYNC_ENABLED is "false".
SkipAll(e) ==
  /\ stage[e] = "start" /\ Goto(e, "return")
  /\ UNCHANGED <<jobVars, found, rowVars, flowVars, faults>>

OpenRun(e) ==
  /\ stage[e] = "start" /\ Goto(e, "check")
  /\ status' = [status EXCEPT ![e] = "running"]
  /\ UNCHANGED <<jobVars, found, total, enriched, done, flowVars, faults>>

\* The INSERT is before the try: nothing catches it.
OpenFails(e) ==
  /\ stage[e] = "start" /\ Goto(e, "throw") /\ Fault
  /\ \/ UNCHANGED status
     \/ status' = [status EXCEPT ![e] = "running"]
  /\ UNCHANGED <<jobVars, found, total, enriched, done, flowVars>>

\* The feed itself is disabled: the processor returns from inside the try.
SkipFeed(e) ==
  /\ stage[e] = "check" /\ Goto(e, "return")
  /\ UNCHANGED <<jobVars, found, rowVars, flowVars, faults>>

\* The handler ran; what is new and of a priority type goes into a batch.
Ingest(e) ==
  /\ stage[e] = "check" /\ Goto(e, "flow")
  /\ \E new \in Batches : found' = [found EXCEPT ![e] = new]
  /\ UNCHANGED <<jobVars, rowVars, flowVars, faults>>

\* Mutant of IngestThrows: nothing catches what the handler throws.
IngestUncaught(e) ==
  /\ stage[e] = "check" /\ Goto(e, "throw")
  /\ UNCHANGED <<jobVars, found, rowVars, flowVars, faults>>

\* No handler, the handler throws, or an updateProgress before the flow does.
IngestThrows(e) ==
  /\ stage[e] = "check" /\ Goto(e, "catch")
  /\ UNCHANGED <<jobVars, found, rowVars, flowVars, faults>>

\* flowProducer.add: parent and children in one transaction.
Flow(e) ==
  /\ batch' = [batch EXCEPT ![e] = "waiting"]
  /\ child' = [child EXCEPT ![e] =
                 [i \in Iocs |-> IF i \in found[e] THEN "wait" ELSE "none"]]

AddFlow(e) ==
  /\ stage[e] = "flow" /\ Goto(e, "complete")
  /\ IF found[e] = {} THEN UNCHANGED flowVars ELSE Flow(e)
  /\ UNCHANGED <<jobVars, found, rowVars, faults>>

AddFlowFails(e) ==
  /\ stage[e] = "flow" /\ found[e] # {} /\ Goto(e, "catch") /\ Fault
  /\ UNCHANGED flowVars \/ Flow(e)
  /\ UNCHANGED <<jobVars, found, rowVars>>

\* Mutant of CloseRun: an update that only touches the status.
CloseStatusOnly(e, s, counted) ==
  status' = [status EXCEPT ![e] = s] /\ UNCHANGED <<total, enriched, done>>

\* completeFeedSyncRun: one UPDATE, whatever the row says.
CloseRun(e, s, counted) ==
  /\ status' = [status EXCEPT ![e] = s] /\ total' = [total EXCEPT ![e] = counted]
  /\ UNCHANGED <<enriched, done>>

CompleteRun(e) ==
  /\ stage[e] = "complete" /\ Goto(e, "return")
  /\ CloseRun(e, "completed", found[e])
  /\ UNCHANGED <<jobVars, found, flowVars, faults>>

\* The call fails, before or after Postgres has committed it, or the updateProgress
\* before it does.
CompleteFails(e) ==
  /\ stage[e] = "complete" /\ Goto(e, "catch") /\ Fault
  /\ UNCHANGED rowVars \/ CloseRun(e, "completed", found[e])
  /\ UNCHANGED <<jobVars, found, flowVars>>

\* Mutant of FailRun: the error is swallowed.
FailRunSwallows(e) ==
  /\ stage[e] = "catch" /\ Goto(e, "return")
  /\ CloseRun(e, "failed", {})
  /\ UNCHANGED <<jobVars, found, flowVars, faults>>

FailRun(e) ==
  /\ stage[e] = "catch" /\ Goto(e, "throw")
  /\ CloseRun(e, "failed", {})
  /\ UNCHANGED <<jobVars, found, flowVars, faults>>

FailRunFails(e) ==
  /\ stage[e] = "catch" /\ Goto(e, "throw") /\ Fault
  /\ UNCHANGED <<jobVars, found, rowVars, flowVars>>

-----------------------------------------------------------------------------
(***************************************************************************)
(* BullMQ settles the execution, if it still holds the job's lock.         *)
(***************************************************************************)
Return(e) ==
  /\ stage[e] = "return" /\ Goto(e, "over")
  /\ state' = IF Holds(e) THEN [state EXCEPT ![e[1]] = "completed"] ELSE state
  /\ UNCHANGED <<made, stalls, turn, found, rowVars, flowVars, faults>>

\* Mutant of Retries: off by one.
RetriesOnceMore(j) == made[j] < Attempts
Retries(j) == made[j] + 1 < Attempts

Throw(e) ==
  /\ stage[e] = "throw" /\ Goto(e, "over")
  /\ IF Holds(e)
     THEN /\ made' = [made EXCEPT ![e[1]] = @ + 1]
          /\ state' = [state EXCEPT ![e[1]] = IF Retries(e[1]) THEN "wait" ELSE "failed"]
     ELSE UNCHANGED <<made, state>>
  /\ UNCHANGED <<stalls, turn, found, rowVars, flowVars, faults>>

\* Mutant of Requeue: a stalled job is left active.
RequeueNever(j) == state' = state /\ stalls' = stalls

Requeue(j) ==
  IF stalls[j] < MaxStalls
  THEN state' = [state EXCEPT ![j] = "wait"] /\ stalls' = [stalls EXCEPT ![j] = @ + 1]
  ELSE state' = [state EXCEPT ![j] = "failed"] /\ UNCHANGED stalls

\* The stalled-job check finds the lock expired: its process is gone ...
Stall(j) ==
  /\ state[j] = "active" /\ stage[<<j, turn[j]>>] = "gone"
  /\ Requeue(j)
  /\ UNCHANGED <<made, turn, stage, found, rowVars, flowVars, faults>>

\* ... or was blocked, and goes on.
FalseStall(j) ==
  /\ state[j] = "active" /\ stage[<<j, turn[j]>>] \in Live /\ Fault
  /\ Requeue(j)
  /\ UNCHANGED <<made, turn, stage, found, rowVars, flowVars>>

\* The process of the workers dies; the children and batches it was working on
\* stall in their turn.
Crash ==
  /\ \E e \in Execs : \/ stage[e] \in Live \/ batch[e] = "active"
                     \/ \E i \in Iocs : child[e][i] = "active"
  /\ Fault
  /\ stage' = [e \in Execs |-> IF stage[e] \in Live THEN "gone" ELSE stage[e]]
  /\ batch' = [e \in Execs |-> IF batch[e] = "active" THEN "waiting" ELSE batch[e]]
  /\ child' = [e \in Execs |-> [i \in Iocs |->
                 IF child[e][i] = "active" THEN "wait" ELSE child[e][i]]]
  /\ UNCHANGED <<jobVars, found, rowVars>>

-----------------------------------------------------------------------------
(***************************************************************************)
(* enrichmentWorker and feedBatchWorker.                                   *)
(***************************************************************************)
SetChild(e, i, s) == child' = [child EXCEPT ![e][i] = s]

StartChild(e, i) ==
  /\ child[e][i] = "wait" /\ SetChild(e, i, "active")
  /\ UNCHANGED <<jobVars, stage, found, rowVars, batch, faults>>

\* Enriched, or skipped: disabled, a value of no known type, a failing UPDATE.
ChildReturns(e, i) ==
  /\ child[e][i] = "active" /\ SetChild(e, i, "completed")
  /\ UNCHANGED <<jobVars, stage, found, rowVars, batch, faults>>

\* enrichIOC throws: there is no second attempt.
ChildThrows(e, i) ==
  /\ child[e][i] = "active" /\ SetChild(e, i, "failed")
  /\ UNCHANGED <<jobVars, stage, found, rowVars, batch, faults>>

Completed(e) == {i \in Iocs : child[e][i] = "completed"}
Ready(e) == \A i \in Iocs : child[e][i] \in {"none", "completed"}

StartBatch(e) ==
  /\ batch[e] = "waiting" /\ Ready(e)
  /\ batch' = [batch EXCEPT ![e] = "active"]
  /\ UNCHANGED <<jobVars, stage, found, rowVars, child, faults>>

\* Mutant of MarkEnriched: only a completed run is stamped.
MarkIfCompleted(e) ==
  /\ batch[e] = "active"
  /\ enriched' = [enriched EXCEPT ![e] = IF status[e] = "completed" THEN "yes" ELSE @]
  /\ done' = [done EXCEPT ![e] = Completed(e)]
  /\ batch' = [batch EXCEPT ![e] = "completed"]
  /\ UNCHANGED <<jobVars, stage, found, status, total, child, faults>>

\* markFeedSyncRunEnriched.
MarkEnriched(e) ==
  /\ batch[e] = "active"
  /\ enriched' = [enriched EXCEPT ![e] = "yes"]
  /\ done' = [done EXCEPT ![e] = Completed(e)]
  /\ batch' = [batch EXCEPT ![e] = "completed"]
  /\ UNCHANGED <<jobVars, stage, found, status, total, child, faults>>

MarkFails(e) ==
  /\ batch[e] = "active" /\ Fault
  /\ batch' = [batch EXCEPT ![e] = "failed"]
  /\ UNCHANGED <<jobVars, stage, found, rowVars, child>>

-----------------------------------------------------------------------------
\* What an execution does by itself, and what goes wrong with it.
Step(e) ==
  \/ SkipAll(e) \/ OpenRun(e) \/ SkipFeed(e) \/ Ingest(e) \/ IngestThrows(e)
  \/ AddFlow(e) \/ CompleteRun(e) \/ FailRun(e) \/ Return(e) \/ Throw(e)
Trouble(e) ==
  OpenFails(e) \/ AddFlowFails(e) \/ CompleteFails(e) \/ FailRunFails(e)

Enrich(e) ==
  \/ \E i \in Iocs : StartChild(e, i) \/ ChildReturns(e, i) \/ ChildThrows(e, i)
  \/ StartBatch(e) \/ MarkEnriched(e) \/ MarkFails(e)

Next ==
  \/ \E j \in Jobs : Start(j) \/ Stall(j) \/ FalseStall(j)
  \/ \E e \in Execs : Step(e) \/ Trouble(e) \/ Enrich(e)
  \/ Crash

Spec == Init /\ [][Next]_vars

\* The workers take what is queued, the event loop serves every execution, and the
\* stalled-job check runs.
Fairness ==
  /\ \A j \in Jobs : WF_vars(Start(j)) /\ WF_vars(Stall(j))
  /\ \A e \in Execs : WF_vars(Step(e)) /\ WF_vars(Enrich(e))
FairSpec == Spec /\ Fairness

-----------------------------------------------------------------------------
(***************************************************************************)
(* Properties.                                                             *)
(***************************************************************************)

\* A completed run that is stamped enriched says that all the children it announced
\* are done: the stamp may come before, while or after the row is closed, and both
\* may come from an execution that was overtaken.
StampsAgree ==
  \A e \in Execs : enriched[e] = "yes" /\ status[e] = "completed" =>
    done[e] = total[e] /\ total[e] # {}

\* A job BullMQ calls completed was skipped, or its last execution's row says
\* completed and announces exactly the batch that exists: no execution that was
\* overtaken, and no call that failed after its UPDATE, can spoil that row.
CompletedHasRun ==
  \A j \in Jobs : state[j] = "completed" =>
    LET e == <<j, turn[j]>> IN
      \/ status[e] \in {"none", "running"} /\ batch[e] = "none"
      \/ status[e] = "completed" /\ total[e] = {i \in Iocs : child[e][i] # "none"}

\* Unless something failed, the only rows that stay open are those of a disabled
\* feed, and their job is completed.
OnlySkipsStayOpen ==
  \A e \in Execs : stage[e] = "over" /\ status[e] = "running" /\ faults = 0 =>
    state[e[1]] = "completed"

\* Whatever fails, throws, stalls or dies, a job ends.
SyncSettles == \A j \in Jobs : <>(state[j] \in {"completed", "failed"})

\* A batch none of whose children fails stamps its run, whatever becomes of the
\* execution that added it.
BatchStamps ==
  \A e \in Execs :
    batch[e] = "waiting" ~>
      \/ enriched[e] = "yes" \/ batch[e] = "failed"
      \/ \E i \in Iocs : child[e][i] = "failed"
=============================================================================
