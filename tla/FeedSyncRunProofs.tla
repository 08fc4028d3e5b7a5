--------------------------- MODULE FeedSyncRunProofs ---------------------------
(***************************************************************************)
(* Proofs about FeedSyncRun, for any number of jobs, any batch, any number *)
(* of attempts and stalls, and any number of faults.                       *)
(*                                                                         *)
(* The properties relate a row to the batch its execution added, so the    *)
(* inductive invariant says, for every execution, what the batch looks     *)
(* like at each stage (FlowOK), what the row says then (RowOK), and what   *)
(* a completed job leaves behind (JobOK).                                  *)
(***************************************************************************)
EXTENDS FeedSyncEvents, TLAPS

-----------------------------------------------------------------------------
(***************************************************************************)
(* The invariant.                                                          *)
(***************************************************************************)

\* Every execution started has ended in an attempt made or in a stall, except the
\* one under way: this is why Turns names them all.
TurnsOK ==
  \A j \in Jobs :
    /\ state[j] = "wait" => turn[j] = made[j] + stalls[j] /\ made[j] < Attempts
    /\ state[j] = "active" => turn[j] = made[j] + stalls[j] + 1 /\ made[j] < Attempts

\* The batch of an execution: its children are what was found, a batch that has run
\* has only completed children, and only a completed batch stamps the row.
FlowOK(e) ==
  /\ batch[e] = "none" => enriched[e] = "no" /\ \A i \in Iocs : child[e][i] = "none"
  /\ batch[e] # "none" =>
       found[e] # {} /\ \A i \in Iocs : child[e][i] # "none" <=> i \in found[e]
  /\ batch[e] \in {"active", "completed", "failed"} =>
       \A i \in found[e] : child[e][i] = "completed"
  /\ enriched[e] = "yes" => batch[e] = "completed" /\ done[e] = found[e]

\* The row of an execution that returns, and of a completed job.
Closed(e) ==
  \/ status[e] = "completed"
  \/ status[e] \in {"none", "running"} /\ batch[e] = "none"

\* The row of an execution, and the batch that goes with its stage.
RowOK(e) ==
  /\ stage[e] \in {"none", "start", "check", "flow"} =>
       batch[e] = "none" /\ status[e] \in {"none", "running"}
  /\ stage[e] = "complete" => batch[e] # "none" \/ found[e] = {}
  /\ status[e] = "completed" =>
       total[e] = found[e] /\ (batch[e] # "none" \/ found[e] = {})
  /\ stage[e] = "return" => Closed(e)

\* An execution that was not started has done nothing.
FreshOK == \A e \in Execs : e[2] > turn[e[1]] => stage[e] = "none"

ExecOK == FreshOK /\ \A e \in Execs : FlowOK(e) /\ RowOK(e)

\* A completed job was completed by its last execution.
JobOK ==
  \A j \in Jobs : state[j] = "completed" =>
    LET e == <<j, turn[j]>> IN e \in Execs /\ stage[e] = "over" /\ Closed(e)

\* As long as nothing failed, no execution is overtaken or lost.
QuietOK ==
  faults = 0 =>
    \A e \in Execs :
      /\ stage[e] # "gone"
      /\ stage[e] \in Live => Holds(e)
      /\ stage[e] = "throw" => status[e] # "running"
      /\ stage[e] = "over" /\ status[e] = "running" => state[e[1]] = "completed"

Inv == TypeOK /\ TurnsOK /\ ExecOK /\ JobOK

-----------------------------------------------------------------------------
(***************************************************************************)
(* The invariant holds at first, and every step keeps it.                  *)
(***************************************************************************)

\* Nothing was started.
LEMMA InitInv ==
  ASSUME Init
  PROVE Inv /\ QuietOK
<1> USE FeedSyncAssumption DEF Init
<1>1. TypeOK BY DEF TypeOK, Stages, Live
<1>2. TurnsOK
  <2>1. 0 < Attempts BY DEF FeedSyncAssumption
  <2>2. ASSUME NEW j \in Jobs
        PROVE  /\ turn[j] = made[j] + stalls[j] /\ made[j] < Attempts
               /\ state[j] # "active"
    <3>1. state[j] = "wait" /\ turn[j] = 0 /\ made[j] = 0 /\ stalls[j] = 0 OBVIOUS
    <3>2. turn[j] = made[j] + stalls[j] BY <3>1
    <3>3. made[j] < Attempts BY <2>1, <3>1
    <3>4. state[j] # "active" BY <3>1
    <3>5. QED BY <3>2, <3>3, <3>4
  <2>3. QED BY <2>2 DEF TurnsOK
<1>3. FreshOK BY DEF FreshOK
<1>4. ASSUME NEW e \in Execs PROVE FlowOK(e) /\ RowOK(e)
  BY <1>4 DEF FlowOK, RowOK, Closed
<1>5. JobOK BY DEF JobOK
<1>6. QuietOK BY DEF QuietOK, Live
<1>7. QED BY <1>1, <1>2, <1>3, <1>4, <1>5, <1>6 DEF Inv, ExecOK

\* Every step keeps the types: first what it changes, then what it leaves alone.
LEMMA StepTypes ==
  ASSUME TypeOK, TurnsOK, Next
  PROVE TypeOK'
<1> USE FeedSyncAssumption DEF TypeOK, jobVars, rowVars, flowVars
<1>1. ASSUME NEW j \in Jobs, Start(j) PROVE TypeOK'
  <2>10. turn[j] + 1 \in 0..(Attempts + MaxStalls) BY <1>1 DEF Start, TurnsOK
  <2>11. turn' = [turn EXCEPT ![j] = turn[j] + 1] BY <1>1 DEF Start
  <2>12. <<j, turn[j] + 1>> \in Execs BY <2>10 DEF Execs, Turns
  <2>1. turn' \in [Jobs -> 0..(Attempts + MaxStalls)] BY <1>1, <2>10, <2>11
  <2>2. state' \in [Jobs -> {"wait", "active", "completed", "failed"}]
    BY <1>1 DEF Start
  <2>3. stage' \in [Execs -> Stages]
    BY <1>1, <2>10, <2>12 DEF Start, Goto, Stages, Live
  <2>4. UNCHANGED <<made, stalls, found, status, total, done, enriched, batch, child,
                    faults>>
    BY <1>1 DEF Start
  <2>5. QED BY <2>1, <2>2, <2>3, <2>4
<1>2. ASSUME NEW e \in Execs, SkipAll(e) PROVE TypeOK'
  <2>1. stage' \in [Execs -> Stages] BY <1>2 DEF SkipAll, Goto, Stages, Live
  <2>2. UNCHANGED <<state, made, stalls, turn, found, status, total, done, enriched,
                    batch, child, faults>>
    BY <1>2 DEF SkipAll
  <2>3. QED BY <2>1, <2>2
<1>3. ASSUME NEW e \in Execs, SkipFeed(e) PROVE TypeOK'
  <2>1. stage' \in [Execs -> Stages] BY <1>3 DEF SkipFeed, Goto, Stages, Live
  <2>2. UNCHANGED <<state, made, stalls, turn, found, status, total, done, enriched,
                    batch, child, faults>>
    BY <1>3 DEF SkipFeed
  <2>3. QED BY <2>1, <2>2
<1>4. ASSUME NEW e \in Execs, IngestThrows(e) PROVE TypeOK'
  <2>1. stage' \in [Execs -> Stages] BY <1>4 DEF IngestThrows, Goto, Stages, Live
  <2>2. UNCHANGED <<state, made, stalls, turn, found, status, total, done, enriched,
                    batch, child, faults>>
    BY <1>4 DEF IngestThrows
  <2>3. QED BY <2>1, <2>2
<1>5. ASSUME NEW e \in Execs, FailRunFails(e) PROVE TypeOK'
  <2>1. stage' \in [Execs -> Stages] BY <1>5 DEF FailRunFails, Goto, Stages, Live
  <2>2. faults' \in 0..MaxFaults BY <1>5 DEF FailRunFails, Fault
  <2>3. UNCHANGED <<state, made, stalls, turn, found, status, total, done, enriched,
                    batch, child>>
    BY <1>5 DEF FailRunFails
  <2>4. QED BY <2>1, <2>2, <2>3
<1>6. ASSUME NEW e \in Execs, OpenRun(e) PROVE TypeOK'
  <2>1. stage' \in [Execs -> Stages] BY <1>6 DEF OpenRun, Goto, Stages, Live
  <2>2. status' \in [Execs -> {"none", "running", "completed", "failed"}]
    BY <1>6 DEF OpenRun
  <2>3. UNCHANGED <<state, made, stalls, turn, found, total, done, enriched, batch,
                    child, faults>>
    BY <1>6 DEF OpenRun
  <2>4. QED BY <2>1, <2>2, <2>3
<1>7. ASSUME NEW e \in Execs, OpenFails(e) PROVE TypeOK'
  <2>1. stage' \in [Execs -> Stages] BY <1>7 DEF OpenFails, Goto, Stages, Live
  <2>2. status' \in [Execs -> {"none", "running", "completed", "failed"}]
    BY <1>7 DEF OpenFails
  <2>3. faults' \in 0..MaxFaults BY <1>7 DEF OpenFails, Fault
  <2>4. UNCHANGED <<state, made, stalls, turn, found, total, done, enriched, batch,
                    child>>
    BY <1>7 DEF OpenFails
  <2>5. QED BY <2>1, <2>2, <2>3, <2>4
<1>8. ASSUME NEW e \in Execs, Ingest(e) PROVE TypeOK'
  <2>1. stage' \in [Execs -> Stages] BY <1>8 DEF Ingest, Goto, Stages, Live
  <2>2. found' \in [Execs -> SUBSET Iocs] BY <1>8, FeedSyncAssumption DEF Ingest
  <2>3. UNCHANGED <<state, made, stalls, turn, status, total, done, enriched, batch,
                    child, faults>>
    BY <1>8 DEF Ingest
  <2>4. QED BY <2>1, <2>2, <2>3
<1>9. ASSUME NEW e \in Execs, AddFlow(e) PROVE TypeOK'
  <2>10. [i \in Iocs |-> IF i \in found[e] THEN "wait" ELSE "none"]
           \in [Iocs -> {"none", "wait", "active", "completed", "failed"}]
    OBVIOUS
  <2>1. stage' \in [Execs -> Stages] BY <1>9 DEF AddFlow, Goto, Stages, Live
  <2>2. batch' \in [Execs -> {"none", "waiting", "active", "completed", "failed"}]
    BY <1>9 DEF AddFlow, Flow
  <2>3. child' \in [Execs -> [Iocs -> {"none", "wait", "active", "completed",
     "failed"}]]
    <3> DEFINE all == [i \in Iocs |-> IF i \in found[e] THEN "wait" ELSE "none"]
    <3>1. child' = child \/ child' = [child EXCEPT ![e] = all]
      BY <1>9 DEF AddFlow, Flow
    <3> HIDE DEF all
    <3>2. all \in [Iocs -> {"none", "wait", "active", "completed", "failed"}]
      BY <2>10 DEF all
    <3> QED BY <3>1, <3>2
  <2>4. UNCHANGED <<state, made, stalls, turn, found, status, total, done, enriched,
                    faults>>
    BY <1>9 DEF AddFlow
  <2>5. QED BY <2>1, <2>2, <2>3, <2>4
<1>10. ASSUME NEW e \in Execs, AddFlowFails(e) PROVE TypeOK'
  <2>10. [i \in Iocs |-> IF i \in found[e] THEN "wait" ELSE "none"]
           \in [Iocs -> {"none", "wait", "active", "completed", "failed"}]
    OBVIOUS
  <2>1. stage' \in [Execs -> Stages] BY <1>10 DEF AddFlowFails, Goto, Stages, Live
  <2>2. batch' \in [Execs -> {"none", "waiting", "active", "completed", "failed"}]
    BY <1>10 DEF AddFlowFails, Flow
  <2>3. child' \in [Execs -> [Iocs -> {"none", "wait", "active", "completed",
     "failed"}]]
    BY <1>10, <2>10 DEF AddFlowFails, Flow
  <2>4. faults' \in 0..MaxFaults BY <1>10 DEF AddFlowFails, Fault
  <2>5. UNCHANGED <<state, made, stalls, turn, found, status, total, done, enriched>>
    BY <1>10 DEF AddFlowFails
  <2>6. QED BY <2>1, <2>2, <2>3, <2>4, <2>5
<1>11. ASSUME NEW e \in Execs, CompleteRun(e) PROVE TypeOK'
  <2>1. stage' \in [Execs -> Stages] BY <1>11 DEF CompleteRun, Goto, Stages, Live
  <2>2. status' \in [Execs -> {"none", "running", "completed", "failed"}]
    BY <1>11 DEF CompleteRun, CloseRun
  <2>3. total' \in [Execs -> SUBSET Iocs] BY <1>11 DEF CompleteRun, CloseRun
  <2>4. UNCHANGED <<state, made, stalls, turn, found, done, enriched, batch, child,
                    faults>>
    BY <1>11 DEF CompleteRun, CloseRun
  <2>5. QED BY <2>1, <2>2, <2>3, <2>4
<1>12. ASSUME NEW e \in Execs, CompleteFails(e) PROVE TypeOK'
  <2>1. stage' \in [Execs -> Stages] BY <1>12 DEF CompleteFails, Goto, Stages, Live
  <2>2. status' \in [Execs -> {"none", "running", "completed", "failed"}]
    BY <1>12 DEF CompleteFails, CloseRun
  <2>3. total' \in [Execs -> SUBSET Iocs]
    <3>1. UNCHANGED total \/ total' = [total EXCEPT ![e] = found[e]]
      BY <1>12 DEF CompleteFails, CloseRun
    <3>2. found[e] \in SUBSET Iocs OBVIOUS
    <3>3. QED BY <3>1, <3>2
  <2>4. faults' \in 0..MaxFaults BY <1>12 DEF CompleteFails, Fault
  <2>5. UNCHANGED <<state, made, stalls, turn, found, done, enriched, batch, child>>
    BY <1>12 DEF CompleteFails, CloseRun
  <2>6. QED BY <2>1, <2>2, <2>3, <2>4, <2>5
<1>13. ASSUME NEW e \in Execs, FailRun(e) PROVE TypeOK'
  <2>1. stage' \in [Execs -> Stages] BY <1>13 DEF FailRun, Goto, Stages, Live
  <2>2. status' \in [Execs -> {"none", "running", "completed", "failed"}]
    BY <1>13 DEF FailRun, CloseRun
  <2>3. total' \in [Execs -> SUBSET Iocs] BY <1>13 DEF FailRun, CloseRun
  <2>4. UNCHANGED <<state, made, stalls, turn, found, done, enriched, batch, child,
                    faults>>
    BY <1>13 DEF FailRun, CloseRun
  <2>5. QED BY <2>1, <2>2, <2>3, <2>4
<1>14. ASSUME NEW e \in Execs, Return(e) PROVE TypeOK'
  <2>1. stage' \in [Execs -> Stages] BY <1>14 DEF Return, Goto, Stages, Live
  <2>2. state' \in [Jobs -> {"wait", "active", "completed", "failed"}]
    BY <1>14 DEF Return, Execs
  <2>3. UNCHANGED <<made, stalls, turn, found, status, total, done, enriched, batch,
                    child, faults>>
    BY <1>14 DEF Return
  <2>4. QED BY <2>1, <2>2, <2>3
<1>15. ASSUME NEW e \in Execs, Throw(e) PROVE TypeOK'
  <2>10. made' \in [Jobs -> 0..Attempts]
    <3>1. CASE Holds(e)
      <4>1. made[e[1]] + 1 \in 0..Attempts BY <3>1 DEF Holds, TurnsOK, Execs
      <4>2. made' = [made EXCEPT ![e[1]] = made[e[1]] + 1] BY <1>15, <3>1 DEF Throw
      <4>3. QED BY <4>1, <4>2
    <3>2. CASE ~Holds(e) BY <1>15, <3>2 DEF Throw
    <3>3. QED BY <3>1, <3>2
  <2>1. stage' \in [Execs -> Stages] BY <1>15 DEF Throw, Goto, Stages, Live
  <2>2. made' \in [Jobs -> 0..Attempts] BY <1>15, <2>10
  <2>3. state' \in [Jobs -> {"wait", "active", "completed", "failed"}]
    BY <1>15 DEF Throw, Execs
  <2>4. UNCHANGED <<stalls, turn, found, status, total, done, enriched, batch, child,
                    faults>>
    BY <1>15 DEF Throw
  <2>5. QED BY <2>1, <2>2, <2>3, <2>4
<1>16. ASSUME NEW j \in Jobs, Stall(j) PROVE TypeOK'
  <2>10. stalls' \in [Jobs -> 0..MaxStalls]
    <3>1. CASE stalls[j] < MaxStalls
      <4>1. stalls[j] + 1 \in 0..MaxStalls BY <3>1
      <4>2. stalls' = [stalls EXCEPT ![j] = stalls[j] + 1]
        BY <1>16, <3>1 DEF Stall, Requeue
      <4>3. QED BY <4>1, <4>2
    <3>2. CASE ~(stalls[j] < MaxStalls) BY <1>16, <3>2 DEF Stall, Requeue
    <3>3. QED BY <3>1, <3>2
  <2>1. state' \in [Jobs -> {"wait", "active", "completed", "failed"}]
    <3>1. \/ state' = [state EXCEPT ![j] = "wait"]
          \/ state' = [state EXCEPT ![j] = "failed"]
      BY <1>16 DEF Stall, Requeue
    <3>2. QED BY <3>1
  <2>2. stalls' \in [Jobs -> 0..MaxStalls] BY <1>16, <2>10
  <2>3. UNCHANGED <<made, turn, stage, found, status, total, done, enriched, batch,
                    child, faults>>
    BY <1>16 DEF Stall, Requeue
  <2>4. QED BY <2>1, <2>2, <2>3
<1>17. ASSUME NEW j \in Jobs, FalseStall(j) PROVE TypeOK'
  <2>10. stalls' \in [Jobs -> 0..MaxStalls]
    <3>1. CASE stalls[j] < MaxStalls
      <4>1. stalls[j] + 1 \in 0..MaxStalls BY <3>1
      <4>2. stalls' = [stalls EXCEPT ![j] = stalls[j] + 1]
        BY <1>17, <3>1 DEF FalseStall, Requeue
      <4>3. QED BY <4>1, <4>2
    <3>2. CASE ~(stalls[j] < MaxStalls) BY <1>17, <3>2 DEF FalseStall, Requeue
    <3>3. QED BY <3>1, <3>2
  <2>1. state' \in [Jobs -> {"wait", "active", "completed", "failed"}]
    <3>1. \/ state' = [state EXCEPT ![j] = "wait"]
          \/ state' = [state EXCEPT ![j] = "failed"]
      BY <1>17 DEF FalseStall, Requeue
    <3>2. QED BY <3>1
  <2>2. stalls' \in [Jobs -> 0..MaxStalls] BY <1>17, <2>10
  <2>3. faults' \in 0..MaxFaults BY <1>17 DEF FalseStall, Fault
  <2>4. UNCHANGED <<made, turn, stage, found, status, total, done, enriched, batch,
                    child>>
    BY <1>17 DEF FalseStall, Requeue
  <2>5. QED BY <2>1, <2>2, <2>3, <2>4
<1>18. ASSUME Crash PROVE TypeOK'
  <2>1. stage' \in [Execs -> Stages] BY <1>18 DEF Crash, Stages
  <2>2. batch' \in [Execs -> {"none", "waiting", "active", "completed", "failed"}]
    BY <1>18 DEF Crash
  <2>3. child' \in [Execs -> [Iocs -> {"none", "wait", "active", "completed",
     "failed"}]]
    BY <1>18 DEF Crash
  <2>4. faults' \in 0..MaxFaults BY <1>18 DEF Crash, Fault
  <2>5. UNCHANGED <<state, made, stalls, turn, found, status, total, done, enriched>>
    BY <1>18 DEF Crash
  <2>6. QED BY <2>1, <2>2, <2>3, <2>4, <2>5
<1>19. ASSUME NEW e \in Execs, NEW i \in Iocs, StartChild(e, i) PROVE TypeOK'
  <2>1. child' \in [Execs -> [Iocs -> {"none", "wait", "active", "completed",
     "failed"}]]
    BY <1>19 DEF StartChild, SetChild
  <2>2. UNCHANGED <<state, made, stalls, turn, stage, found, status, total, done,
                    enriched, batch, faults>>
    BY <1>19 DEF StartChild
  <2>3. QED BY <2>1, <2>2
<1>20. ASSUME NEW e \in Execs, NEW i \in Iocs, ChildReturns(e, i) PROVE TypeOK'
  <2>1. child' \in [Execs -> [Iocs -> {"none", "wait", "active", "completed",
     "failed"}]]
    BY <1>20 DEF ChildReturns, SetChild
  <2>2. UNCHANGED <<state, made, stalls, turn, stage, found, status, total, done,
                    enriched, batch, faults>>
    BY <1>20 DEF ChildReturns
  <2>3. QED BY <2>1, <2>2
<1>21. ASSUME NEW e \in Execs, NEW i \in Iocs, ChildThrows(e, i) PROVE TypeOK'
  <2>1. child' \in [Execs -> [Iocs -> {"none", "wait", "active", "completed",
     "failed"}]]
    BY <1>21 DEF ChildThrows, SetChild
  <2>2. UNCHANGED <<state, made, stalls, turn, stage, found, status, total, done,
                    enriched, batch, faults>>
    BY <1>21 DEF ChildThrows
  <2>3. QED BY <2>1, <2>2
<1>22. ASSUME NEW e \in Execs, StartBatch(e) PROVE TypeOK'
  <2>1. batch' \in [Execs -> {"none", "waiting", "active", "completed", "failed"}]
    BY <1>22 DEF StartBatch
  <2>2. UNCHANGED <<state, made, stalls, turn, stage, found, status, total, done,
                    enriched, child, faults>>
    BY <1>22 DEF StartBatch
  <2>3. QED BY <2>1, <2>2
<1>23. ASSUME NEW e \in Execs, MarkEnriched(e) PROVE TypeOK'
  <2>1. batch' \in [Execs -> {"none", "waiting", "active", "completed", "failed"}]
    BY <1>23 DEF MarkEnriched
  <2>2. enriched' \in [Execs -> {"no", "yes"}] BY <1>23 DEF MarkEnriched
  <2>3. done' \in [Execs -> SUBSET Iocs] BY <1>23 DEF MarkEnriched, Completed
  <2>4. UNCHANGED <<state, made, stalls, turn, stage, found, status, total, child,
                    faults>>
    BY <1>23 DEF MarkEnriched
  <2>5. QED BY <2>1, <2>2, <2>3, <2>4
<1>24. ASSUME NEW e \in Execs, MarkFails(e) PROVE TypeOK'
  <2>1. batch' \in [Execs -> {"none", "waiting", "active", "completed", "failed"}]
    BY <1>24 DEF MarkFails
  <2>2. faults' \in 0..MaxFaults BY <1>24 DEF MarkFails, Fault
  <2>3. UNCHANGED <<state, made, stalls, turn, stage, found, status, total, done,
                    enriched, child>>
    BY <1>24 DEF MarkFails
  <2>4. QED BY <2>1, <2>2, <2>3
<1>25. QED
  BY <1>1, <1>2, <1>3, <1>4, <1>5, <1>6, <1>7, <1>8, <1>9, <1>10, <1>11, <1>12,
     <1>13, <1>14, <1>15, <1>16, <1>17, <1>18, <1>19, <1>20, <1>21, <1>22, <1>23, <1>24
  DEF Next, Step, Trouble, Enrich

\* A step that starts an execution comes from a settled one.
LEMMA StepTurns ==
  ASSUME TypeOK, TurnsOK, Next
  PROVE TurnsOK'
<1> USE FeedSyncAssumption DEF TypeOK
<1>1. ASSUME NEW j \in Jobs, Start(j) PROVE TurnsOK'
  BY <1>1 DEF Start, TurnsOK
<1>2. ASSUME NEW e \in Execs, Return(e) PROVE TurnsOK'
  BY <1>2 DEF Return, TurnsOK, Execs
<1>3. ASSUME NEW e \in Execs, Throw(e) PROVE TurnsOK'
  <2>1. CASE ~Holds(e)
    <3>1. UNCHANGED jobVars BY <1>3, <2>1 DEF Throw, jobVars
    <3>2. QED BY <3>1 DEF TurnsOK, jobVars
  <2>2. CASE Holds(e)
    <3> DEFINE job == e[1]
    <3>1. job \in Jobs BY DEF Execs
    <3>2. state[job] = "active" BY <2>2 DEF Holds
    <3>3. turn' = turn /\ stalls' = stalls
          /\ made' = [made EXCEPT ![job] = made[job] + 1]
      BY <1>3, <2>2 DEF Throw
    <3>4. state' = [state EXCEPT ![job] = IF Retries(job) THEN "wait" ELSE "failed"]
      BY <1>3, <2>2 DEF Throw
    <3> HIDE DEF job
    <3>5. QED BY <3>1, <3>2, <3>3, <3>4 DEF TurnsOK, Retries
  <2>3. QED BY <2>1, <2>2
<1>4. ASSUME NEW j \in Jobs, Stall(j) \/ FalseStall(j) PROVE TurnsOK'
  BY <1>4 DEF Stall, FalseStall, Requeue, TurnsOK
<1>5. CASE UNCHANGED jobVars BY <1>5 DEF TurnsOK, jobVars
<1>6. QED
  BY <1>1, <1>2, <1>3, <1>4, <1>5
  DEF Next, Step, Trouble, Enrich, SkipAll, OpenRun, SkipFeed, Ingest, IngestThrows,
      AddFlow, CompleteRun, FailRun, OpenFails, AddFlowFails, CompleteFails,
      FailRunFails, StartChild, ChildReturns, ChildThrows, StartBatch, MarkEnriched,
      MarkFails, Crash

\* Only the last turn of a job is started.
LEMMA StepFresh ==
  ASSUME TypeOK, TurnsOK, FreshOK, Next
  PROVE FreshOK'
<1> USE FeedSyncAssumption DEF TypeOK
<1>1. ASSUME NEW j \in Jobs, Start(j) PROVE FreshOK'
  BY <1>1 DEF Start, FreshOK, TurnsOK, Goto, Execs, Turns
<1>2. ASSUME NEW e \in Execs, Step(e) PROVE FreshOK'
  BY <1>2 DEF Step, FreshOK, Goto, jobVars, SkipAll, OpenRun, SkipFeed, Ingest,
              IngestThrows, AddFlow, CompleteRun, FailRun, Return, Throw
<1>3. ASSUME NEW e \in Execs, Trouble(e) PROVE FreshOK'
  BY <1>3 DEF Trouble, FreshOK, Goto, jobVars, OpenFails, AddFlowFails, CompleteFails,
              FailRunFails
<1>4. CASE Crash BY <1>4 DEF Crash, FreshOK, Live, jobVars
<1>5. CASE UNCHANGED <<turn, stage>> BY <1>5 DEF FreshOK
<1>6. QED
  BY <1>1, <1>2, <1>3, <1>4, <1>5
  DEF Next, Enrich, jobVars, Stall, FalseStall, StartChild, ChildReturns, ChildThrows,
      StartBatch, MarkEnriched, MarkFails

\* What an execution, its children and its batch do keeps row and batch together.
LEMMA StepExec ==
  ASSUME TypeOK, TurnsOK, ExecOK, Next
  PROVE ExecOK'
<1> USE DEF TypeOK, jobVars, rowVars, flowVars, Goto, ExecOK, FlowOK, RowOK, Closed
<1>0. FreshOK' BY StepFresh
<1>s. SUFFICES ASSUME NEW d \in Execs PROVE FlowOK(d)' /\ RowOK(d)' BY <1>0
<1>1. ASSUME NEW j \in Jobs, Start(j) PROVE FlowOK(d)' /\ RowOK(d)'
  <2>1. CASE d = <<j, turn[j] + 1>>
    <3>1. d[1] = j /\ d[2] = turn[j] + 1 /\ turn[j] \in Nat BY <2>1
    <3>2. stage[d] = "none" BY <3>1 DEF FreshOK
    <3>3. stage'[d] = "start" /\ UNCHANGED <<found, rowVars, flowVars>>
      BY <1>1, <2>1 DEF Start
    <3>4. QED BY <3>2, <3>3
  <2>2. CASE d # <<j, turn[j] + 1>> BY <1>1, <2>2 DEF Start
  <2>3. QED BY <2>1, <2>2
<1>2. ASSUME NEW e \in Execs, SkipAll(e) PROVE FlowOK(d)' /\ RowOK(d)'
  <2>1. FlowOK(d)' BY <1>2 DEF SkipAll
  <2>2. RowOK(d)' BY <1>2 DEF SkipAll
  <2>3. QED BY <2>1, <2>2
<1>3. ASSUME NEW e \in Execs, OpenRun(e) PROVE FlowOK(d)' /\ RowOK(d)'
  <2>1. FlowOK(d)' BY <1>3 DEF OpenRun
  <2>2. RowOK(d)' BY <1>3 DEF OpenRun
  <2>3. QED BY <2>1, <2>2
<1>4. ASSUME NEW e \in Execs, SkipFeed(e) PROVE FlowOK(d)' /\ RowOK(d)'
  <2>1. FlowOK(d)' BY <1>4 DEF SkipFeed
  <2>2. RowOK(d)' BY <1>4 DEF SkipFeed
  <2>3. QED BY <2>1, <2>2
<1>5. ASSUME NEW e \in Execs, Ingest(e) PROVE FlowOK(d)' /\ RowOK(d)'
  <2>1. FlowOK(d)' BY <1>5 DEF Ingest
  <2>2. RowOK(d)' BY <1>5 DEF Ingest
  <2>3. QED BY <2>1, <2>2
<1>6. ASSUME NEW e \in Execs, IngestThrows(e) PROVE FlowOK(d)' /\ RowOK(d)'
  <2>1. FlowOK(d)' BY <1>6 DEF IngestThrows
  <2>2. RowOK(d)' BY <1>6 DEF IngestThrows
  <2>3. QED BY <2>1, <2>2
<1>7. ASSUME NEW e \in Execs, AddFlow(e) PROVE FlowOK(d)' /\ RowOK(d)'
  <2>1. FlowOK(d)' BY <1>7 DEF AddFlow, Flow
  <2>2. RowOK(d)' BY <1>7 DEF AddFlow, Flow
  <2>3. QED BY <2>1, <2>2
<1>8. ASSUME NEW e \in Execs, CompleteRun(e) PROVE FlowOK(d)' /\ RowOK(d)'
  <2>1. FlowOK(d)' BY <1>8 DEF CompleteRun, CloseRun
  <2>2. RowOK(d)' BY <1>8 DEF CompleteRun, CloseRun
  <2>3. QED BY <2>1, <2>2
<1>9. ASSUME NEW e \in Execs, FailRun(e) PROVE FlowOK(d)' /\ RowOK(d)'
  <2>1. FlowOK(d)' BY <1>9 DEF FailRun, CloseRun
  <2>2. RowOK(d)' BY <1>9 DEF FailRun, CloseRun
  <2>3. QED BY <2>1, <2>2
<1>10. ASSUME NEW e \in Execs, Return(e) PROVE FlowOK(d)' /\ RowOK(d)'
  <2>1. FlowOK(d)' BY <1>10 DEF Return
  <2>2. RowOK(d)' BY <1>10 DEF Return
  <2>3. QED BY <2>1, <2>2
<1>11. ASSUME NEW e \in Execs, Throw(e) PROVE FlowOK(d)' /\ RowOK(d)'
  <2>1. FlowOK(d)' BY <1>11 DEF Throw
  <2>2. RowOK(d)' BY <1>11 DEF Throw
  <2>3. QED BY <2>1, <2>2
<1>12. ASSUME NEW e \in Execs, OpenFails(e) PROVE FlowOK(d)' /\ RowOK(d)'
  <2>1. FlowOK(d)' BY <1>12 DEF OpenFails
  <2>2. RowOK(d)' BY <1>12 DEF OpenFails
  <2>3. QED BY <2>1, <2>2
<1>13. ASSUME NEW e \in Execs, AddFlowFails(e) PROVE FlowOK(d)' /\ RowOK(d)'
  <2>1. FlowOK(d)' BY <1>13 DEF AddFlowFails, Flow
  <2>2. RowOK(d)' BY <1>13 DEF AddFlowFails, Flow
  <2>3. QED BY <2>1, <2>2
<1>14. ASSUME NEW e \in Execs, CompleteFails(e) PROVE FlowOK(d)' /\ RowOK(d)'
  <2>1. FlowOK(d)' BY <1>14 DEF CompleteFails, CloseRun
  <2>2. RowOK(d)' BY <1>14 DEF CompleteFails, CloseRun
  <2>3. QED BY <2>1, <2>2
<1>15. ASSUME NEW e \in Execs, FailRunFails(e) PROVE FlowOK(d)' /\ RowOK(d)'
  <2>1. FlowOK(d)' BY <1>15 DEF FailRunFails
  <2>2. RowOK(d)' BY <1>15 DEF FailRunFails
  <2>3. QED BY <2>1, <2>2
<1>16. ASSUME NEW e \in Execs, StartBatch(e) PROVE FlowOK(d)' /\ RowOK(d)'
  <2>1. FlowOK(d)' BY <1>16 DEF StartBatch, Ready
  <2>2. RowOK(d)' BY <1>16 DEF StartBatch, Ready
  <2>3. QED BY <2>1, <2>2
<1>17. ASSUME NEW e \in Execs, MarkEnriched(e) PROVE FlowOK(d)' /\ RowOK(d)'
  <2>1. FlowOK(d)' BY <1>17 DEF MarkEnriched, Completed
  <2>2. RowOK(d)' BY <1>17 DEF MarkEnriched, Completed
  <2>3. QED BY <2>1, <2>2
<1>18. ASSUME NEW e \in Execs, MarkFails(e) PROVE FlowOK(d)' /\ RowOK(d)'
  <2>1. FlowOK(d)' BY <1>18 DEF MarkFails
  <2>2. RowOK(d)' BY <1>18 DEF MarkFails
  <2>3. QED BY <2>1, <2>2
<1>19. ASSUME NEW e \in Execs, NEW i \in Iocs, StartChild(e, i)
      PROVE FlowOK(d)' /\ RowOK(d)'
  <2>1. FlowOK(d)' BY <1>19 DEF StartChild, SetChild
  <2>2. RowOK(d)' BY <1>19 DEF StartChild, SetChild
  <2>3. QED BY <2>1, <2>2
<1>20. ASSUME NEW e \in Execs, NEW i \in Iocs, ChildReturns(e, i)
      PROVE FlowOK(d)' /\ RowOK(d)'
  <2>1. FlowOK(d)' BY <1>20 DEF ChildReturns, SetChild
  <2>2. RowOK(d)' BY <1>20 DEF ChildReturns, SetChild
  <2>3. QED BY <2>1, <2>2
<1>21. ASSUME NEW e \in Execs, NEW i \in Iocs, ChildThrows(e, i)
      PROVE FlowOK(d)' /\ RowOK(d)'
  <2>1. FlowOK(d)' BY <1>21 DEF ChildThrows, SetChild
  <2>2. RowOK(d)' BY <1>21 DEF ChildThrows, SetChild
  <2>3. QED BY <2>1, <2>2
<1>22. ASSUME NEW j \in Jobs, Stall(j) \/ FalseStall(j) PROVE FlowOK(d)' /\ RowOK(d)'
  BY <1>22 DEF Stall, FalseStall
<1>23. CASE Crash
  <2>1. FlowOK(d)' BY <1>23 DEF Crash
  <2>2. RowOK(d)' BY <1>23 DEF Crash, Live
  <2>3. QED BY <2>1, <2>2
<1>24. QED
  BY <1>1, <1>2, <1>3, <1>4, <1>5, <1>6, <1>7, <1>8, <1>9, <1>10, <1>11, <1>12, <1>13,
     <1>14, <1>15, <1>16, <1>17, <1>18, <1>19, <1>20, <1>21, <1>22, <1>23
  DEF Next, Step, Trouble, Enrich

\* A job is completed by the execution that holds its lock, and nothing touches it
\* afterwards but its batch.
LEMMA StepJob ==
  ASSUME TypeOK, TurnsOK, ExecOK, JobOK, Next
  PROVE JobOK'
<1> USE DEF TypeOK, jobVars, rowVars, flowVars, Goto, Closed
<1>s. SUFFICES ASSUME NEW j \in Jobs, state'[j] = "completed",
                      NEW e, e = <<j, turn'[j]>>
               PROVE e \in Execs /\ stage'[e] = "over" /\ Closed(e)'
  BY DEF JobOK
<1>1. ASSUME state[j] = "completed"
      PROVE e \in Execs /\ stage'[e] = "over" /\ Closed(e)'
  <2>1. turn'[j] = turn[j]
    <3>1. ASSUME NEW k \in Jobs, Start(k) PROVE turn'[j] = turn[j]
      BY <1>1, <3>1 DEF Start
    <3>2. ASSUME NEW d \in Execs, Step(d) \/ Trouble(d) PROVE UNCHANGED turn
      BY <3>2 DEF Step, Trouble, SkipAll, OpenRun, SkipFeed, Ingest, IngestThrows, AddFlow,
           Flow, CompleteRun, FailRun, Return, Throw, OpenFails, AddFlowFails,
           CompleteFails, FailRunFails, CloseRun
    <3>3. ASSUME NEW d \in Execs, Enrich(d) PROVE UNCHANGED turn
      BY <3>3 DEF Enrich, StartChild, ChildReturns, ChildThrows, StartBatch, MarkEnriched,
           MarkFails
    <3>4. ASSUME NEW k \in Jobs, Stall(k) \/ FalseStall(k) PROVE UNCHANGED turn
      BY <3>4 DEF Stall, FalseStall, Requeue
    <3>5. CASE Crash
      BY <3>5 DEF Crash
    <3> QED BY <3>1, <3>2, <3>3, <3>4, <3>5 DEF Next
  <2>2. e \in Execs /\ stage[e] = "over" /\ Closed(e) BY <1>1, <1>s, <2>1 DEF JobOK
  <2>3. ASSUME NEW k \in Jobs, Start(k) PROVE stage'[e] = "over" /\ Closed(e)'
    BY <1>1, <1>s, <2>1, <2>2, <2>3 DEF Start
  <2>4. ASSUME NEW d \in Execs, Step(d) PROVE stage'[e] = "over" /\ Closed(e)'
    BY <2>2, <2>4 DEF Step, SkipAll, OpenRun, SkipFeed, Ingest, IngestThrows, AddFlow,
         Flow, CompleteRun, FailRun, Return, Throw, CloseRun
  <2>5. ASSUME NEW d \in Execs, Trouble(d) PROVE stage'[e] = "over" /\ Closed(e)'
    BY <2>2, <2>5 DEF Trouble, OpenFails, AddFlowFails, CompleteFails, FailRunFails,
         Flow, CloseRun
  <2>6. ASSUME NEW d \in Execs, Enrich(d) PROVE stage'[e] = "over" /\ Closed(e)'
    BY <2>2, <2>6 DEF Enrich, StartChild, ChildReturns, ChildThrows, StartBatch,
         MarkEnriched, MarkFails
  <2>7. ASSUME NEW k \in Jobs, Stall(k) \/ FalseStall(k)
        PROVE stage'[e] = "over" /\ Closed(e)'
    BY <2>2, <2>7 DEF Stall, FalseStall
  <2>8. CASE Crash BY <2>2, <2>8 DEF Crash, Live
  <2>9. QED BY <2>2, <2>3, <2>4, <2>5, <2>6, <2>7, <2>8 DEF Next
<1>2. ASSUME state[j] # "completed"
      PROVE e \in Execs /\ stage'[e] = "over" /\ Closed(e)'
  <2>1. PICK d \in Execs : Return(d) /\ Holds(d) /\ d[1] = j
    <3>1. ASSUME NEW k \in Jobs, Start(k) \/ Stall(k) \/ FalseStall(k) PROVE FALSE
      BY <1>2, <1>s, <3>1 DEF Start, Stall, FalseStall, Requeue
    <3>2. ASSUME NEW d \in Execs, Throw(d) PROVE FALSE
      BY <1>2, <1>s, <3>2 DEF Throw, Execs
    <3>3. CASE UNCHANGED state BY <1>2, <1>s, <3>3
    <3>4. ASSUME NEW d \in Execs, Return(d) PROVE Holds(d) /\ d[1] = j
      BY <1>2, <1>s, <3>4 DEF Return, Execs
    <3>5. QED
      BY <3>1, <3>2, <3>3, <3>4
      DEF Next, Crash, Step, Trouble, Enrich, SkipAll, OpenRun, SkipFeed, Ingest,
          IngestThrows, AddFlow, CompleteRun, FailRun, OpenFails, AddFlowFails,
          CompleteFails, FailRunFails, StartChild, ChildReturns, ChildThrows,
          StartBatch, MarkEnriched, MarkFails
  <2>2. e = d BY <1>s, <2>1 DEF Return, Holds, Execs
  <2>3. QED BY <2>1, <2>2 DEF Return, ExecOK, RowOK
<1>3. QED BY <1>1, <1>2

\* Without a fault the execution under way is the only one alive.
LEMMA StepQuiet ==
  ASSUME TypeOK, TurnsOK, ExecOK, QuietOK, Next
  PROVE QuietOK'
<1> USE FeedSyncAssumption DEF TypeOK, jobVars, rowVars, flowVars, Goto
<1>s. SUFFICES ASSUME faults' = 0, NEW d \in Execs
               PROVE /\ stage'[d] # "gone"
                     /\ stage'[d] \in Live => Holds(d)'
                     /\ stage'[d] = "throw" => status'[d] # "running"
                     /\ stage'[d] = "over" /\ status'[d] = "running" =>
                          state'[d[1]] = "completed"
  BY DEF QuietOK
<1> DEFINE Quiet(e) ==
      /\ stage[e] # "gone"
      /\ stage[e] \in Live => Holds(e)
      /\ stage[e] = "throw" => status[e] # "running"
      /\ stage[e] = "over" /\ status[e] = "running" => state[e[1]] = "completed"
<1>1. ~Fault BY <1>s DEF Fault
<1>2. faults = 0
  BY <1>s, <1>1 DEF Next, Crash, Trouble, OpenFails, AddFlowFails, CompleteFails,
       FailRunFails, Start, Stall, FalseStall, Requeue, Step, Trouble, Enrich,
       SkipAll, OpenRun, SkipFeed, Ingest, IngestThrows, AddFlow, Flow, CompleteRun,
       FailRun, Return, Throw, OpenFails, AddFlowFails, CompleteFails, FailRunFails,
       CloseRun, StartChild, ChildReturns, ChildThrows, StartBatch, MarkEnriched,
       MarkFails
<1>3. \A e \in Execs : Quiet(e) BY <1>2 DEF QuietOK
<1>4. ASSUME NEW k \in Jobs, Start(k) PROVE Quiet(d)'
  <2>1. d[1] \in Jobs /\ d[2] \in Turns /\ d = <<d[1], d[2]>> BY DEF Execs
  <2>2. CASE d[1] = k BY <2>1, <2>2, <1>3, <1>4 DEF Start, Holds, Live
  <2>3. CASE d[1] # k BY <2>1, <2>3, <1>3, <1>4 DEF Start, Holds, Live
  <2>4. QED BY <2>2, <2>3
<1>5. ASSUME NEW e \in Execs, SkipAll(e) PROVE Quiet(d)'
  BY <1>3, <1>5 DEF SkipAll, Holds, Live
<1>6. ASSUME NEW e \in Execs, OpenRun(e) PROVE Quiet(d)'
  BY <1>3, <1>6 DEF OpenRun, Holds, Live
<1>7. ASSUME NEW e \in Execs, SkipFeed(e) PROVE Quiet(d)'
  BY <1>3, <1>7 DEF SkipFeed, Holds, Live
<1>8. ASSUME NEW e \in Execs, Ingest(e) PROVE Quiet(d)'
  BY <1>3, <1>8 DEF Ingest, Holds, Live
<1>9. ASSUME NEW e \in Execs, IngestThrows(e) PROVE Quiet(d)'
  BY <1>3, <1>9 DEF IngestThrows, Holds, Live
<1>10. ASSUME NEW e \in Execs, AddFlow(e) PROVE Quiet(d)'
  BY <1>3, <1>10 DEF AddFlow, Holds, Live
<1>11. ASSUME NEW e \in Execs, CompleteRun(e) PROVE Quiet(d)'
  BY <1>3, <1>11 DEF CompleteRun, Holds, Live, CloseRun
<1>12. ASSUME NEW e \in Execs, FailRun(e) PROVE Quiet(d)'
  BY <1>3, <1>12 DEF FailRun, Holds, Live, CloseRun
<1>13. ASSUME NEW e \in Execs, Return(e) PROVE Quiet(d)'
  <2>1. Holds(e) BY <1>3, <1>13 DEF Return, Live
  <2>2. stage'[e] = "over" /\ UNCHANGED <<turn, status>> BY <1>13 DEF Return
  <2>3. CASE d = e BY <1>3, <1>13, <2>1, <2>2, <2>3 DEF Return, Live, Execs
  <2>4. CASE d # e
    <3>1. stage'[d] = stage[d] BY <1>13, <2>4 DEF Return
    <3>2. state'[d[1]] = state[d[1]] \/ d[1] = e[1] BY <1>13 DEF Return, Execs
    <3>3. d[1] # e[1] \/ d[2] # e[2]
      <4>1. d = <<d[1], d[2]>> /\ e = <<e[1], e[2]>> BY DEF Execs
      <4>2. QED BY <2>4, <4>1
    <3>4. QED BY <1>3, <2>1, <2>2, <3>1, <3>2, <3>3 DEF Holds, Live
  <2>5. QED BY <2>3, <2>4
<1>14. ASSUME NEW e \in Execs, Throw(e) PROVE Quiet(d)'
  <2>1. Holds(e) BY <1>3, <1>14 DEF Throw, Live
  <2>2. stage'[e] = "over" /\ UNCHANGED <<turn, status>> BY <1>14 DEF Throw
  <2>3. CASE d = e BY <1>3, <1>14, <2>1, <2>2, <2>3 DEF Throw, Live, Execs, Retries
  <2>4. CASE d # e
    <3>1. stage'[d] = stage[d] BY <1>14, <2>4 DEF Throw
    <3>2. state'[d[1]] = state[d[1]] \/ d[1] = e[1] BY <1>14 DEF Throw, Execs
    <3>3. d[1] # e[1] \/ d[2] # e[2]
      <4>1. d = <<d[1], d[2]>> /\ e = <<e[1], e[2]>> BY DEF Execs
      <4>2. QED BY <2>4, <4>1
    <3>4. QED BY <1>3, <2>1, <2>2, <3>1, <3>2, <3>3 DEF Holds, Live
  <2>5. QED BY <2>3, <2>4
<1>15. ASSUME NEW k \in Jobs, Stall(k) PROVE Quiet(d)'
  <2>1. turn[k] \in Turns BY <1>15 DEF Stall, TurnsOK, Turns
  <2>2. <<k, turn[k]>> \in Execs BY <2>1 DEF Execs
  <2>3. QED BY <1>3, <1>15, <2>2 DEF Stall
<1>16. ASSUME NEW e \in Execs, Enrich(e) PROVE Quiet(d)'
  BY <1>3, <1>16 DEF Enrich, StartChild, ChildReturns, ChildThrows, StartBatch,
       MarkEnriched, MarkFails, Holds
<1>17. QED
  BY <1>1, <1>4, <1>5, <1>6, <1>7, <1>8, <1>9, <1>10, <1>11, <1>12, <1>13, <1>14,
     <1>15, <1>16
  DEF Next, Step, Trouble, FalseStall, Crash, OpenFails, AddFlowFails, CompleteFails,
      FailRunFails

\* A step of the specification, or a stutter, keeps all of it.
LEMMA StepInv ==
  ASSUME Inv, [Next]_vars
  PROVE Inv' /\ (QuietOK => QuietOK')
<1>1. CASE Next
  <2>1. TypeOK' BY <1>1, StepTypes DEF Inv
  <2>2. TurnsOK' BY <1>1, StepTurns DEF Inv
  <2>3. ExecOK' BY <1>1, StepExec DEF Inv
  <2>4. JobOK' BY <1>1, StepJob DEF Inv
  <2>5. QuietOK => QuietOK' BY <1>1, StepQuiet DEF Inv
  <2>6. QED BY <2>1, <2>2, <2>3, <2>4, <2>5 DEF Inv
<1>2. CASE UNCHANGED vars
  <2>1. UNCHANGED <<state, made, stalls, turn, stage, found, status, total, done,
                    enriched, batch, child, faults>>
    BY <1>2 DEF vars, jobVars, rowVars, flowVars
  <2>2. TypeOK' BY <2>1 DEF TypeOK, Inv
  <2>3. TurnsOK' BY <2>1 DEF TurnsOK, Inv
  <2>4. ExecOK' BY <2>1 DEF ExecOK, FreshOK, FlowOK, RowOK, Closed, Inv
  <2>5. JobOK' BY <2>1 DEF JobOK, Closed, Inv
  <2>6. QuietOK => QuietOK' BY <2>1 DEF QuietOK, Holds
  <2>7. QED BY <2>2, <2>3, <2>4, <2>5, <2>6 DEF Inv
<1>3. QED BY <1>1, <1>2

\* Every reachable state satisfies the invariant.
LEMMA InvHolds == Spec => [](Inv /\ QuietOK)
<1>1. Init => Inv /\ QuietOK BY InitInv
<1>2. Inv /\ QuietOK /\ [Next]_vars => (Inv /\ QuietOK)' BY StepInv
<1>3. QED BY <1>1, <1>2, PTL DEF Spec

-----------------------------------------------------------------------------
(***************************************************************************)
(* The theorems.                                                           *)
(***************************************************************************)

\* The types, and with them the bound Turns puts on the executions of a job.
THEOREM TypeCorrect == Spec => []TypeOK
<1>1. Inv => TypeOK BY DEF Inv
<1>2. QED BY <1>1, InvHolds, PTL

\* configStore.ts: whichever comes first, closing the row or stamping it, a row that
\* has both says that everything it announced was enriched.
THEOREM StampsAgreeHolds == Spec => []StampsAgree
<1>1. Inv => StampsAgree
  <2>1. SUFFICES ASSUME Inv, NEW e \in Execs,
                        enriched[e] = "yes", status[e] = "completed"
                 PROVE done[e] = total[e] /\ total[e] # {}
    BY DEF StampsAgree
  <2>2. FlowOK(e) /\ RowOK(e) BY <2>1 DEF Inv, ExecOK
  <2>3. batch[e] = "completed" /\ done[e] = found[e] BY <2>1, <2>2 DEF FlowOK
  <2>4. total[e] = found[e] BY <2>1, <2>2 DEF RowOK
  <2>5. found[e] # {} BY <2>2, <2>3 DEF FlowOK
  <2>6. QED BY <2>3, <2>4, <2>5
<1>2. QED BY <1>1, InvHolds, PTL

\* feedSyncWorker.ts: the row of a completed job is that of its last execution, and
\* announces the children that exist.
THEOREM CompletedHasRunHolds == Spec => []CompletedHasRun
<1>1. Inv => CompletedHasRun
  <2> SUFFICES ASSUME Inv, NEW j \in Jobs, state[j] = "completed",
                      NEW e, e = <<j, turn[j]>>
               PROVE \/ status[e] \in {"none", "running"} /\ batch[e] = "none"
                     \/ /\ status[e] = "completed"
                        /\ total[e] = {i \in Iocs : child[e][i] # "none"}
    BY DEF CompletedHasRun
  <2>1. e \in Execs /\ Closed(e) BY DEF Inv, JobOK
  <2>2. FlowOK(e) /\ RowOK(e) BY <2>1 DEF Inv, ExecOK
  <2>3. found[e] \in SUBSET Iocs BY <2>1 DEF Inv, TypeOK
  <2>4. CASE status[e] = "completed"
    <3>1. total[e] = found[e] /\ (batch[e] # "none" \/ found[e] = {})
      BY <2>2, <2>4 DEF RowOK
    <3>2. CASE batch[e] # "none" BY <2>2, <2>3, <2>4, <3>1, <3>2 DEF FlowOK
    <3>3. CASE batch[e] = "none" BY <2>2, <2>4, <3>1, <3>3 DEF FlowOK
    <3>4. QED BY <3>2, <3>3
  <2>5. CASE status[e] # "completed" BY <2>1, <2>5 DEF Closed
  <2>6. QED BY <2>4, <2>5
<1>2. QED BY <1>1, InvHolds, PTL

\* feedSyncWorker.ts: without a fault, a row stays open only when the feed is
\* disabled.
THEOREM OnlySkipsStayOpenHolds == Spec => []OnlySkipsStayOpen
<1>1. QuietOK => OnlySkipsStayOpen BY DEF QuietOK, OnlySkipsStayOpen
<1>2. QED BY <1>1, InvHolds, PTL

-----------------------------------------------------------------------------
(***************************************************************************)
(* How a job comes to its end.                                             *)
(***************************************************************************)
Last(j) == <<j, turn[j]>>
Ended(j) == state[j] \in {"completed", "failed"}

\* An active job has an execution that is under way, or whose process is gone.
UnderWay == \A j \in Jobs : state[j] = "active" => stage[Last(j)] \in Live \union {"gone"}

\* How far an execution is from its end, and a job from its last.
Rank(s) ==
  CASE s = "start" -> 8 [] s = "check" -> 7 [] s = "flow" -> 6 [] s = "complete" -> 5
    [] s = "catch" -> 4 [] s = "return" -> 3 [] s = "throw" -> 2 [] OTHER -> 1

Left(j) ==
  CASE state[j] = "wait" -> 9 * (Attempts + MaxStalls - turn[j])
    [] state[j] = "active" -> 9 * (Attempts + MaxStalls - turn[j]) + Rank(stage[Last(j)])
    [] OTHER -> 0

LEMMA RankRange == \A s \in Stages : Rank(s) \in 1..8
BY DEF Rank

\* The execution of an active job is one of Execs, and a waiting job has a turn left.
LEMMA LastExec ==
  ASSUME TypeOK, TurnsOK, NEW j \in Jobs
  PROVE  /\ state[j] = "active" => Last(j) \in Execs
         /\ state[j] = "wait" => turn[j] + 1 \in Turns
<1>1. made[j] \in Nat /\ stalls[j] \in 0..MaxStalls /\ turn[j] \in Nat
  BY FeedSyncAssumption DEF TypeOK
<1>2. CASE state[j] = "active"
  <2>1. turn[j] = made[j] + stalls[j] + 1 /\ made[j] < Attempts
    BY <1>2 DEF TurnsOK
  <2>2. turn[j] \in Turns
    BY <1>1, <2>1, FeedSyncAssumption DEF Turns
  <2> QED BY <1>2, <2>2 DEF Last, Execs
<1>3. CASE state[j] = "wait"
  <2>1. turn[j] = made[j] + stalls[j] /\ made[j] < Attempts
    BY <1>3 DEF TurnsOK
  <2>2. turn[j] + 1 \in Turns
    BY <1>1, <2>1, FeedSyncAssumption DEF Turns
  <2> QED BY <1>3, <2>2
<1> QED BY <1>2, <1>3

LEMMA LeftType ==
  ASSUME TypeOK, TurnsOK, NEW j \in Jobs
  PROVE  /\ Left(j) \in Nat
         /\ state[j] = "wait" => Left(j) >= 9
         /\ state[j] = "active" => Left(j) > 0
         /\ Ended(j) <=> Left(j) = 0
<1>1. turn[j] \in 0..(Attempts + MaxStalls) /\ state[j] \in {"wait", "active", "completed", "failed"}
  BY DEF TypeOK
<1>2. CASE state[j] = "wait"
  <2>1. turn[j] + 1 <= Attempts + MaxStalls
    BY <1>2, LastExec, FeedSyncAssumption DEF Turns
  <2> QED BY <1>1, <1>2, <2>1, FeedSyncAssumption DEF Left, Ended
<1>3. CASE state[j] = "active"
  <2>1. Rank(stage[Last(j)]) \in 1..8
    BY <1>3, LastExec, RankRange DEF TypeOK
  <2> HIDE DEF Rank
  <2>2. Left(j) = 9 * (Attempts + MaxStalls - turn[j]) + Rank(stage[Last(j)])
    BY <1>3 DEF Left
  <2> QED BY <1>1, <1>3, <2>1, <2>2, FeedSyncAssumption DEF Ended
<1>4. CASE Ended(j)
  BY <1>4 DEF Left, Ended
<1> QED BY <1>1, <1>2, <1>3, <1>4 DEF Ended

\* A step of an execution, other than its last, takes it one stage further, and leaves
\* the jobs to BullMQ.
Proceeds(e) == (Step(e) /\ ~Return(e) /\ ~Throw(e)) \/ Trouble(e)

LEMMA ProceedsGoes ==
  ASSUME NEW e \in Execs, Proceeds(e)
  PROVE  /\ stage[e] \in Live /\ UNCHANGED jobVars
         /\ \E s \in Live : Goto(e, s) /\ Rank(s) < Rank(stage[e])
<1> USE DEF Live, Rank
<1>1. CASE SkipAll(e)
  BY <1>1 DEF SkipAll
<1>2. CASE OpenRun(e)
  BY <1>2 DEF OpenRun
<1>3. CASE SkipFeed(e)
  BY <1>3 DEF SkipFeed
<1>4. CASE Ingest(e)
  BY <1>4 DEF Ingest
<1>5. CASE IngestThrows(e)
  BY <1>5 DEF IngestThrows
<1>6. CASE AddFlow(e)
  BY <1>6 DEF AddFlow
<1>7. CASE CompleteRun(e)
  BY <1>7 DEF CompleteRun
<1>8. CASE FailRun(e)
  BY <1>8 DEF FailRun
<1>9. CASE OpenFails(e)
  BY <1>9 DEF OpenFails
<1>10. CASE AddFlowFails(e)
  BY <1>10 DEF AddFlowFails
<1>11. CASE CompleteFails(e)
  BY <1>11 DEF CompleteFails
<1>12. CASE FailRunFails(e)
  BY <1>12 DEF FailRunFails
<1> QED BY <1>1, <1>2, <1>3, <1>4, <1>5, <1>6, <1>7, <1>8, <1>9, <1>10, <1>11, <1>12
           DEF Proceeds, Step, Trouble

\* Only the job's own steps change what is left of it.
LEMMA LeftFrame ==
  ASSUME NEW j \in Jobs, state'[j] = state[j], turn'[j] = turn[j],
         state[j] = "active" => stage'[Last(j)] = stage[Last(j)]
  PROVE  Left(j)' = Left(j)
BY DEF Left, Last, Rank

\* What a proceeding execution does for its job, and for the others.
LEMMA LeftProceeds ==
  ASSUME TypeOK, TurnsOK, UnderWay, NEW e \in Execs, Proceeds(e), NEW j \in Jobs
  PROVE  /\ state[j] = "active" /\ e = Last(j) => Left(j)' < Left(j)
         /\ Left(j)' <= Left(j)
         /\ state'[j] = "active" => stage'[Last(j)'] \in Live \union {"gone"}
<1>1. PICK s \in Live : Goto(e, s) /\ Rank(s) < Rank(stage[e])
  BY ProceedsGoes
<1>2. state' = state /\ turn' = turn
  BY ProceedsGoes DEF jobVars
<1>3. stage' = [stage EXCEPT ![e] = s] /\ stage \in [Execs -> Stages]
  BY <1>1 DEF Goto, TypeOK
<1>4. turn[j] \in Nat /\ (state[j] = "active" => Last(j) \in Execs) /\ Last(j)' = Last(j)
  BY <1>2, LastExec, FeedSyncAssumption DEF TypeOK, Last
<1>5. CASE state[j] = "active" /\ e = Last(j)
  <2>1. stage'[Last(j)] = s
    BY <1>3, <1>5
  <2>2. Rank(s) \in 1..8 /\ Rank(stage[e]) \in 1..8
    BY <1>3, RankRange DEF Stages
  <2> HIDE DEF Rank
  <2>3. /\ Left(j) = 9 * (Attempts + MaxStalls - turn[j]) + Rank(stage[e])
        /\ Left(j)' = 9 * (Attempts + MaxStalls - turn[j]) + Rank(s)
    BY <1>2, <1>4, <1>5, <2>1 DEF Left, Last
  <2>4. Left(j)' < Left(j) /\ Left(j)' <= Left(j)
    BY <1>1, <1>4, <2>2, <2>3, FeedSyncAssumption
  <2> QED BY <1>4, <1>5, <2>1, <2>4
<1>6. CASE ~(state[j] = "active" /\ e = Last(j))
  <2>1. state[j] = "active" => stage'[Last(j)] = stage[Last(j)]
    BY <1>3, <1>4, <1>6
  <2>2. Left(j)' = Left(j) /\ Left(j) \in Nat
    BY <1>2, <2>1, LeftFrame, LeftType
  <2> QED BY <1>2, <1>4, <1>6, <2>1, <2>2 DEF UnderWay
<1> QED BY <1>5, <1>6

\* The same of the steps by which BullMQ settles an execution.
LEMMA LeftSettles ==
  ASSUME TypeOK, TurnsOK, UnderWay, NEW e \in Execs, Return(e) \/ Throw(e), NEW j \in Jobs
  PROVE  /\ state[j] = "active" /\ e = Last(j) => Left(j)' < Left(j)
         /\ Left(j)' <= Left(j)
         /\ state'[j] = "active" => stage'[Last(j)'] \in Live \union {"gone"}
<1>1. stage' = [stage EXCEPT ![e] = "over"] /\ turn' = turn /\ stage \in [Execs -> Stages]
  BY DEF Return, Throw, Goto, TypeOK
<1>2. turn[j] \in Nat /\ (state[j] = "active" => Last(j) \in Execs) /\ Last(j)' = Last(j)
  BY <1>1, LastExec, FeedSyncAssumption DEF TypeOK, Last
<1>3. e[1] \in Jobs /\ e = <<e[1], e[2]>> /\ e[2] \in Nat
  BY FeedSyncAssumption DEF Execs, Turns
<1>4. Holds(e) /\ e[1] = j <=> state[j] = "active" /\ e = Last(j)
  BY <1>3 DEF Holds, Last
<1>5. CASE state[j] = "active" /\ e = Last(j)
  <2>1. state'[j] \in {"wait", "completed", "failed"}
    BY <1>3, <1>4, <1>5 DEF Return, Throw, TypeOK
  <2>2. Rank(stage[e]) \in 1..8
    BY <1>1, RankRange
  <2> HIDE DEF Rank
  <2>3. /\ Left(j) = 9 * (Attempts + MaxStalls - turn[j]) + Rank(stage[e])
        /\ turn[j] \in 0..(Attempts + MaxStalls)
    BY <1>5 DEF Left, TypeOK
  <2>4. Left(j)' = 9 * (Attempts + MaxStalls - turn[j]) \/ Left(j)' = 0
    BY <1>1, <2>1 DEF Left
  <2>5. Left(j)' < Left(j) /\ Left(j)' <= Left(j)
    BY <2>2, <2>3, <2>4, FeedSyncAssumption
  <2> QED BY <1>5, <2>1, <2>5
<1>6. CASE ~(state[j] = "active" /\ e = Last(j))
  <2>1. state'[j] = state[j]
    BY <1>3, <1>4, <1>6 DEF Return, Throw, TypeOK
  <2>2. state[j] = "active" => stage'[Last(j)] = stage[Last(j)]
    BY <1>1, <1>2, <1>6
  <2>3. Left(j)' = Left(j) /\ Left(j) \in Nat
    BY <1>1, <2>1, <2>2, LeftFrame, LeftType
  <2> QED BY <1>2, <1>6, <2>1, <2>2, <2>3 DEF UnderWay
<1> QED BY <1>5, <1>6

\* The same of the steps BullMQ makes with a job k.
LEMMA LeftQueue ==
  ASSUME TypeOK, TurnsOK, UnderWay, NEW k \in Jobs, Start(k) \/ Stall(k) \/ FalseStall(k),
         NEW j \in Jobs
  PROVE  /\ k = j => Left(j)' < Left(j)
         /\ Left(j)' <= Left(j)
         /\ state'[j] = "active" => stage'[Last(j)'] \in Live \union {"gone"}
<1>1. turn[j] \in 0..(Attempts + MaxStalls) /\ (state[j] = "active" => Last(j) \in Execs)
  BY LastExec DEF TypeOK
<1>2. CASE k # j
  <2>1. state'[j] = state[j] /\ turn'[j] = turn[j]
    BY <1>2 DEF Start, Stall, FalseStall, Requeue, TypeOK
  <2>2. state[j] = "active" => stage'[Last(j)] = stage[Last(j)]
    BY <1>1, <1>2 DEF Start, Stall, FalseStall, Goto, TypeOK, Last
  <2>3. Left(j)' = Left(j) /\ Left(j) \in Nat
    BY <2>1, <2>2, LeftFrame, LeftType
  <2> QED BY <1>2, <2>1, <2>2, <2>3 DEF UnderWay, Last
<1>3. CASE k = j /\ Start(j)
  <2>1. state[j] = "wait" /\ turn[j] + 1 \in Turns
    BY <1>3, LastExec DEF Start
  <2>2. /\ state'[j] = "active" /\ turn'[j] = turn[j] + 1
        /\ stage'[<<j, turn[j] + 1>>] = "start"
    BY <1>3, <2>1 DEF Start, Goto, TypeOK, Execs
  <2>3. Left(j) = 9 * (Attempts + MaxStalls - turn[j])
    BY <2>1 DEF Left
  <2>4. Left(j)' = 9 * (Attempts + MaxStalls - (turn[j] + 1)) + 8
    BY <2>2 DEF Left, Last, Rank
  <2>5. Left(j)' < Left(j) /\ Left(j)' <= Left(j)
    BY <1>1, <2>3, <2>4, FeedSyncAssumption
  <2> QED BY <1>3, <2>2, <2>5 DEF Last, Live
<1>4. CASE k = j /\ (Stall(j) \/ FalseStall(j))
  <2>1. /\ state[j] = "active" /\ turn' = turn
        /\ state'[j] = "wait" \/ state'[j] = "failed"
    BY <1>4 DEF Stall, FalseStall, Requeue, TypeOK
  <2>2. Rank(stage[Last(j)]) \in 1..8
    BY <1>1, <2>1, RankRange DEF TypeOK
  <2> HIDE DEF Rank
  <2>3. Left(j) = 9 * (Attempts + MaxStalls - turn[j]) + Rank(stage[Last(j)])
    BY <2>1 DEF Left
  <2>4. Left(j)' = 9 * (Attempts + MaxStalls - turn[j]) \/ Left(j)' = 0
    BY <2>1 DEF Left
  <2>5. Left(j)' < Left(j) /\ Left(j)' <= Left(j)
    BY <1>1, <2>2, <2>3, <2>4, FeedSyncAssumption
  <2> QED BY <1>4, <2>1, <2>5
<1> QED BY <1>2, <1>3, <1>4

\* And of what leaves the jobs alone: the children, and a crash.
LEMMA LeftElse ==
  ASSUME TypeOK, TurnsOK, UnderWay,
         Crash \/ (\E e \in Execs : Enrich(e)) \/ UNCHANGED vars, NEW j \in Jobs
  PROVE  /\ Left(j)' <= Left(j)
         /\ state'[j] = "active" => stage'[Last(j)'] \in Live \union {"gone"}
<1>1. UNCHANGED jobVars
  BY DEF Crash, Enrich, StartChild, ChildReturns, ChildThrows, StartBatch, MarkEnriched,
         MarkFails, vars
<1>2. state' = state /\ turn' = turn /\ Last(j)' = Last(j)
  BY <1>1 DEF jobVars, Last
<1>3. Left(j) \in Nat /\ (state[j] = "active" => Last(j) \in Execs)
  BY LeftType, LastExec
<1>4. CASE Crash
  <2>1. ASSUME state[j] = "active"
        PROVE  /\ stage'[Last(j)] \in Live \union {"gone"}
               /\ stage'[Last(j)] = stage[Last(j)] \/ stage'[Last(j)] = "gone"
    BY <1>3, <1>4, <2>1 DEF Crash, UnderWay
  <2>2. CASE state[j] = "active" /\ stage'[Last(j)] = "gone"
    <3>1. Rank(stage[Last(j)]) \in 1..8 /\ Rank("gone") = 1
      BY <1>3, <2>2, RankRange DEF TypeOK, Rank
    <3> HIDE DEF Rank
    <3>2. /\ Left(j) = 9 * (Attempts + MaxStalls - turn[j]) + Rank(stage[Last(j)])
          /\ Left(j)' = 9 * (Attempts + MaxStalls - turn[j]) + Rank("gone")
          /\ turn[j] \in Nat
      BY <1>2, <2>2, FeedSyncAssumption DEF Left, TypeOK
    <3> QED BY <1>2, <2>1, <2>2, <3>1, <3>2, FeedSyncAssumption
  <2>3. CASE state[j] = "active" => stage'[Last(j)] = stage[Last(j)]
    <3>1. Left(j)' = Left(j)
      BY <1>2, <2>3, LeftFrame
    <3> QED BY <1>2, <1>3, <2>1, <3>1
  <2> QED BY <2>1, <2>2, <2>3
<1>5. CASE stage' = stage
  <2>1. Left(j)' = Left(j)
    BY <1>2, <1>5, LeftFrame
  <2> QED BY <1>2, <1>3, <1>5, <2>1 DEF UnderWay
<1> QED BY <1>4, <1>5 DEF Enrich, StartChild, ChildReturns, ChildThrows, StartBatch,
                          MarkEnriched, MarkFails, vars

LEMMA LeftStep ==
  ASSUME TypeOK, TurnsOK, UnderWay, [Next]_vars, NEW j \in Jobs
  PROVE  /\ Left(j)' <= Left(j)
         /\ state'[j] = "active" => stage'[Last(j)'] \in Live \union {"gone"}
<1>1. CASE \E e \in Execs : Proceeds(e)
  BY <1>1, LeftProceeds
<1>2. CASE \E e \in Execs : Return(e) \/ Throw(e)
  BY <1>2, LeftSettles
<1>3. CASE \E k \in Jobs : Start(k) \/ Stall(k) \/ FalseStall(k)
  BY <1>3, LeftQueue
<1>4. CASE Crash \/ (\E e \in Execs : Enrich(e)) \/ UNCHANGED vars
  BY <1>4, LeftElse
<1> QED BY <1>1, <1>2, <1>3, <1>4 DEF Next, Proceeds, Step

LEMMA UnderWayHolds == Spec => []UnderWay
<1>1. Init => UnderWay
  BY DEF Init, UnderWay
<1>2. Inv /\ UnderWay /\ [Next]_vars => UnderWay'
  <2>1. Inv => TypeOK /\ TurnsOK
    BY DEF Inv
  <2> QED BY <2>1, LeftStep DEF UnderWay
<1> QED BY <1>1, <1>2, InvHolds, PTL DEF Spec

\* A job that has not ended waits, with a turn left, or its last execution is at a
\* stage from which it goes on, or its process is gone, which the stalled-job check
\* sees: BullMQ never keeps a job for an execution that is over.
NeverStranded ==
  \A j \in Jobs :
    \/ Ended(j)
    \/ state[j] = "wait" /\ turn[j] + 1 \in Turns
    \/ state[j] = "active" /\ Last(j) \in Execs /\ stage[Last(j)] \in Live \union {"gone"}

\* NeverStranded, whatever fails, throws, stalls or dies: the half of SyncSettles that
\* says there is always something to be done.
THEOREM NeverStrandedHolds == Spec => []NeverStranded
<1>1. Inv /\ UnderWay => NeverStranded
  <2> SUFFICES ASSUME TypeOK, TurnsOK, UnderWay, NEW j \in Jobs, ~Ended(j)
               PROVE  \/ state[j] = "wait" /\ turn[j] + 1 \in Turns
                      \/ /\ state[j] = "active" /\ Last(j) \in Execs
                         /\ stage[Last(j)] \in Live \union {"gone"}
    BY DEF Inv, NeverStranded
  <2>1. state[j] \in {"wait", "active"}
    BY DEF TypeOK, Ended
  <2> QED BY <2>1, LastExec DEF UnderWay
<1> QED BY <1>1, UnderWayHolds, InvHolds, PTL

\* What is left of a job never grows, and every step its fairness promises makes it
\* less: the start, a step of its last execution, the stalled-job check.
SyncDescends ==
  [][\A j \in Jobs :
       /\ Left(j) \in Nat /\ (Left(j) = 0 <=> Ended(j))
       /\ Left(j)' <= Left(j)
       /\ Start(j) \/ Stall(j) \/ (state[j] = "active" /\ Step(Last(j)))
            => Left(j)' < Left(j)]_vars

\* SyncDescends: with NeverStranded, the argument for SyncSettles (a job ends) but for
\* the fairness; attempts and stalls are used up, and an overtaken execution, a crash
\* or a retry gives none of them back.
THEOREM SyncDescendsHolds == Spec => SyncDescends
<1>1. ASSUME TypeOK, TurnsOK, UnderWay, [Next]_vars, NEW j \in Jobs
      PROVE  /\ Left(j) \in Nat /\ (Left(j) = 0 <=> Ended(j))
             /\ Left(j)' <= Left(j)
             /\ Start(j) \/ Stall(j) \/ (state[j] = "active" /\ Step(Last(j)))
                  => Left(j)' < Left(j)
  <2>1. Start(j) \/ Stall(j) => Left(j)' < Left(j)
    BY <1>1, LeftQueue
  <2>2. ASSUME state[j] = "active", Step(Last(j)) PROVE Left(j)' < Left(j)
    <3>1. Last(j) \in Execs
      BY <1>1, <2>2, LastExec
    <3>2. CASE Return(Last(j)) \/ Throw(Last(j))
      BY <1>1, <2>2, <3>1, <3>2, LeftSettles
    <3>3. CASE Proceeds(Last(j))
      BY <1>1, <2>2, <3>1, <3>3, LeftProceeds
    <3> QED BY <2>2, <3>2, <3>3 DEF Proceeds
  <2> QED BY <1>1, <2>1, <2>2, LeftType, LeftStep
<1>2. Inv => TypeOK /\ TurnsOK
  BY DEF Inv
<1>3. Inv /\ UnderWay /\ [Next]_vars =>
        [\A j \in Jobs :
           /\ Left(j) \in Nat /\ (Left(j) = 0 <=> Ended(j))
           /\ Left(j)' <= Left(j)
           /\ Start(j) \/ Stall(j) \/ (state[j] = "active" /\ Step(Last(j)))
                => Left(j)' < Left(j)]_vars
  BY <1>1, <1>2
<1> QED BY <1>3, UnderWayHolds, InvHolds, PTL DEF Spec, SyncDescends

\* An execution that is over, or whose process is gone, starts no more and writes its
\* row no more; what may still be written is what its batch counts.
LEMMA OverStays ==
  ASSUME TypeOK, FreshOK, [Next]_vars, NEW d \in Execs, stage[d] \in {"over", "gone"}
  PROVE  stage'[d] = stage[d] /\ status'[d] = status[d] /\ total'[d] = total[d]
<1> USE DEF TypeOK, Goto, rowVars
<1>1. ASSUME NEW k \in Jobs, Start(k)
      PROVE  stage'[d] = stage[d] /\ status'[d] = status[d] /\ total'[d] = total[d]
  <2>1. CASE d = <<k, turn[k] + 1>>
    <3>1. d[1] = k /\ d[2] = turn[k] + 1 /\ turn[k] \in Nat
      BY <2>1, FeedSyncAssumption
    <3>2. d[2] > turn[d[1]]
      BY <3>1
    <3> QED BY <3>2 DEF FreshOK
  <2>2. CASE d # <<k, turn[k] + 1>>
    BY <1>1, <2>2 DEF Start
  <2> QED BY <2>1, <2>2
<1>2. ASSUME NEW k \in Jobs, Stall(k) \/ FalseStall(k)
      PROVE  stage'[d] = stage[d] /\ status'[d] = status[d] /\ total'[d] = total[d]
  BY <1>2 DEF Stall, FalseStall
<1>3. ASSUME NEW e \in Execs, Proceeds(e)
      PROVE  stage'[d] = stage[d] /\ status'[d] = status[d] /\ total'[d] = total[d]
  <2>1. stage[e] \in Live /\ \E s \in Live : Goto(e, s)
    BY <1>3, ProceedsGoes
  <2>2. e # d
    BY <2>1 DEF Live
  <2>3. status'[d] = status[d] /\ total'[d] = total[d]
    BY <1>3, <2>2 DEF Proceeds, Step, Trouble, SkipAll, OpenRun, SkipFeed, Ingest,
      IngestThrows, AddFlow, CompleteRun, FailRun, OpenFails, AddFlowFails, CompleteFails,
      FailRunFails, CloseRun
  <2> QED BY <2>1, <2>2, <2>3
<1>4. ASSUME NEW e \in Execs, Return(e) \/ Throw(e)
      PROVE  stage'[d] = stage[d] /\ status'[d] = status[d] /\ total'[d] = total[d]
  BY <1>4 DEF Return, Throw
<1>5. ASSUME NEW e \in Execs, Enrich(e)
      PROVE  stage'[d] = stage[d] /\ status'[d] = status[d] /\ total'[d] = total[d]
  BY <1>5 DEF Enrich, StartChild, ChildReturns, ChildThrows, StartBatch, MarkEnriched, MarkFails
<1>6. CASE Crash
  BY <1>6 DEF Crash, Live
<1>7. CASE UNCHANGED vars
  BY <1>7 DEF vars
<1> QED BY <1>1, <1>2, <1>3, <1>4, <1>5, <1>6, <1>7 DEF Next, Proceeds, Step

\* A job that has ended is left alone by BullMQ.
LEMMA JobStays ==
  ASSUME TypeOK, [Next]_vars, NEW j \in Jobs, Ended(j)
  PROVE  /\ state'[j] = state[j] /\ turn'[j] = turn[j]
         /\ made'[j] = made[j] /\ stalls'[j] = stalls[j]
<1> USE DEF TypeOK, jobVars, Ended
<1>1. ASSUME NEW k \in Jobs, Start(k) \/ Stall(k) \/ FalseStall(k)
      PROVE  /\ state'[j] = state[j] /\ turn'[j] = turn[j]
             /\ made'[j] = made[j] /\ stalls'[j] = stalls[j]
  BY <1>1 DEF Start, Stall, FalseStall, Requeue
<1>2. ASSUME NEW e \in Execs, Return(e) \/ Throw(e)
      PROVE  /\ state'[j] = state[j] /\ turn'[j] = turn[j]
             /\ made'[j] = made[j] /\ stalls'[j] = stalls[j]
  BY <1>2 DEF Return, Throw, Holds, Execs
<1>3. CASE \E e \in Execs : Proceeds(e)
  BY <1>3, ProceedsGoes
<1>4. CASE Crash \/ (\E e \in Execs : Enrich(e)) \/ UNCHANGED vars
  BY <1>4 DEF Crash, Enrich, StartChild, ChildReturns, ChildThrows, StartBatch,
              MarkEnriched, MarkFails, vars
<1> QED BY <1>1, <1>2, <1>3, <1>4 DEF Next, Proceeds, Step

\* Once a job has ended, BullMQ's record of it stays, and so does the row its last
\* execution closed if it completed: what status and total say is final, although
\* executions it overtook may still be writing.
SettledStays ==
  [][\A j \in Jobs : Ended(j) =>
       /\ state'[j] = state[j] /\ turn'[j] = turn[j]
       /\ made'[j] = made[j] /\ stalls'[j] = stalls[j]
       /\ state[j] = "completed" =>
            status'[Last(j)] = status[Last(j)] /\ total'[Last(j)] = total[Last(j)]]_vars

\* SettledStays: completeFeedSyncRun and failFeedSyncRun update by id alone, and it is
\* the id of an execution's own row that keeps a late one away from a settled row.
THEOREM SettledStaysHolds == Spec => SettledStays
<1>1. ASSUME Inv, [Next]_vars, NEW j \in Jobs, Ended(j)
      PROVE  /\ state'[j] = state[j] /\ turn'[j] = turn[j]
             /\ made'[j] = made[j] /\ stalls'[j] = stalls[j]
             /\ state[j] = "completed" =>
                  status'[Last(j)] = status[Last(j)] /\ total'[Last(j)] = total[Last(j)]
  <2>1. TypeOK /\ FreshOK /\ JobOK
    BY <1>1 DEF Inv, ExecOK
  <2>2. state[j] = "completed" => Last(j) \in Execs /\ stage[Last(j)] = "over"
    BY <2>1 DEF JobOK, Last
  <2>3. state[j] = "completed" =>
          status'[Last(j)] = status[Last(j)] /\ total'[Last(j)] = total[Last(j)]
    BY <1>1, <2>1, <2>2, OverStays
  <2> QED BY <1>1, <2>1, <2>3, JobStays
<1>2. Inv /\ [Next]_vars =>
        [\A j \in Jobs : Ended(j) =>
           /\ state'[j] = state[j] /\ turn'[j] = turn[j]
           /\ made'[j] = made[j] /\ stalls'[j] = stalls[j]
           /\ state[j] = "completed" =>
                status'[Last(j)] = status[Last(j)] /\ total'[Last(j)] = total[Last(j)]]_vars
  BY <1>1
<1> QED BY <1>2, InvHolds, PTL DEF Spec, SettledStays

-----------------------------------------------------------------------------
(***************************************************************************)
(* The events.                                                             *)
(***************************************************************************)

\* What a listener has posted or is about to post says how its job has ended.
EventsInv ==
  /\ EventsTypeOK
  /\ \A j \in Jobs :
       /\ listener[j] = "alert" => state[j] = "failed"
       /\ listener[j] \in News => state[j] = "completed"
  /\ AnnouncedAsSettled

\* The events only watch.
LEMMA EventsRefine == [EventsNext]_allVars => [Next]_vars
<1> SUFFICES ASSUME [EventsNext]_allVars PROVE [Next]_vars
  OBVIOUS
<1>1. ASSUME NEW j \in Jobs,
             StartUnheard(j) \/ StallHeard(j) \/ Listen(j) \/ ListenerFails(j)
      PROVE  [Next]_vars
  <2>1. CASE StartUnheard(j) \/ StallHeard(j)
    BY <2>1 DEF Next, StartUnheard, StallHeard
  <2>2. CASE Listen(j)
    BY <2>2 DEF Listen, PostBell, PostNews, PostIocs, PostActors, PostCves, PostScores,
         PostAlert, Post
  <2>3. CASE ListenerFails(j)
    BY <2>3 DEF ListenerFails
  <2> QED BY <1>1, <2>1, <2>2, <2>3
<1>2. ASSUME NEW e \in Execs, StepHeard(e) \/ TroubleUnheard(e) \/ EnrichUnheard(e)
      PROVE  [Next]_vars
  BY <1>2 DEF Next, StepHeard, Unheard, SkipUnread, DeltaCheck, Insert, InsertThrows,
       ReturnHeard, ThrowHeard, TroubleUnheard, EnrichUnheard, Step
<1>3. CASE CrashHeard
  BY <1>3 DEF CrashHeard, Next
<1>4. CASE UNCHANGED allVars
  BY <1>4 DEF allVars
<1> QED BY <1>1, <1>2, <1>3, <1>4 DEF EventsNext

\* A job that has ended stays as it is.
LEMMA EndedStays ==
  ASSUME TypeOK, [Next]_vars, NEW j \in Jobs, state[j] \in {"completed", "failed"}
  PROVE  state'[j] = state[j]
BY JobStays DEF Ended

\* Where nothing is heard, the invariant stays because ended jobs do.
LEMMA Unheeded ==
  ASSUME TypeOK, EventsInv, [Next]_vars, EventsTypeOK', UNCHANGED posted,
         \A j \in Jobs : listener'[j] = listener[j] \/ listener'[j] \in {"none", "done", "lost"}
  PROVE  EventsInv'
<1>1. \A j \in Jobs : state[j] \in {"completed", "failed"} => state'[j] = state[j]
  BY EndedStays
<1> QED BY <1>1 DEF EventsInv, AnnouncedAsSettled, News

\* What comes after a job of a listener: another job for its feed, in the lists' order,
\* or nothing more.
AfterPost(l, s) ==
  CASE l = "bell" -> AfterBell(s)
    [] l = "iocs" -> AfterIocs(s)
    [] l = "actors" -> AfterActors(s)
    [] l = "cves" -> AfterCves(s)
    [] OTHER -> "done"

\* A listener adds the job it has come to, and turns to what comes after.
LEMMA ListenStep ==
  ASSUME EventsTypeOK, NEW j \in Jobs, Listen(j)
  PROVE  /\ UNCHANGED <<vars, syncVars>>
         /\ listener[j] \in Busy
         /\ posted' = [posted EXCEPT ![j] = @ \union {listener[j]}]
         /\ \E s \in Sources \union {"open"} :
              /\ listener' = [listener EXCEPT ![j] = AfterPost(listener[j], s)]
              /\ source' = [source EXCEPT ![j] = s]
              /\ listener[j] # "bell" => s = source[j]
<1> USE DEF Hear, Post, PostNews, EventsTypeOK, Busy, News
<1>1. CASE PostBell(j)
  <2>1. PICK s \in Sources :
          Post(j, "bell", AfterBell(s)) /\ source' = [source EXCEPT ![j] = s]
    BY <1>1 DEF PostBell
  <2> QED BY <2>1 DEF AfterPost
<1>2. ASSUME NEW l \in Busy \ {"bell"}, PostNews(j, l, AfterPost(l, source[j]))
      PROVE  /\ UNCHANGED <<vars, syncVars>> /\ listener[j] = l
             /\ posted' = [posted EXCEPT ![j] = @ \union {l}]
             /\ listener' = [listener EXCEPT ![j] = AfterPost(l, source[j])]
             /\ source' = [source EXCEPT ![j] = source[j]]
  BY <1>2
<1>3. \/ PostBell(j)
      \/ \E l \in Busy \ {"bell"} : PostNews(j, l, AfterPost(l, source[j]))
  BY DEF Listen, PostIocs, PostActors, PostCves, PostScores, PostAlert, AfterPost
<1>4. source[j] \in Sources \union {"open"}
  OBVIOUS
<1> QED BY <1>1, <1>2, <1>3, <1>4

LEMMA AfterPostType ==
  ASSUME NEW l \in Busy, NEW s
  PROVE  /\ AfterPost(l, s) \in (News \ {"bell"}) \union {"done"}
         /\ l = "alert" => AfterPost(l, s) = "done"
BY DEF AfterPost, AfterBell, AfterIocs, AfterActors, AfterCves, Busy, News

LEMMA EventsStep ==
  ASSUME TypeOK, TypeOK', EventsInv, [EventsNext]_allVars
  PROVE  EventsInv'
<1>0. [Next]_vars /\ EventsTypeOK
  BY EventsRefine DEF EventsInv
<1> USE DEF EventsTypeOK, syncVars, eventVars, Hear, Busy, News
<1>1. ASSUME NEW j \in Jobs, StartUnheard(j) PROVE EventsInv'
  <2>1. EventsTypeOK' /\ UNCHANGED <<listener, posted>>
    BY <1>0, <1>1 DEF StartUnheard
  <2> QED BY <1>0, <2>1, Unheeded
<1>2. ASSUME NEW j \in Jobs, StallHeard(j) PROVE EventsInv'
  <2>1. state[j] = "active" /\ \A k \in Jobs \ {j} : state'[k] = state[k]
    BY <1>2 DEF StallHeard, Stall, FalseStall, Requeue, TypeOK
  <2>2. EventsTypeOK' /\ UNCHANGED posted
    BY <1>0, <1>2 DEF StallHeard, Failed
  <2>3. \A k \in Jobs \ {j} : listener'[k] = listener[k]
    BY <1>0, <1>2 DEF StallHeard
  <2>4. CASE state'[j] = "failed"
    <3>1. listener'[j] \in {"alert", "none"}
      BY <1>0, <1>2, <2>4 DEF StallHeard, Failed
    <3> QED BY <2>1, <2>2, <2>3, <2>4, <3>1 DEF EventsInv, AnnouncedAsSettled
  <2>5. CASE state'[j] # "failed"
    <3>1. UNCHANGED listener
      BY <1>2, <2>5 DEF StallHeard
    <3> QED BY <1>0, <2>2, <3>1, Unheeded
  <2> QED BY <2>4, <2>5
<1>3. ASSUME NEW j \in Jobs, Listen(j) PROVE EventsInv'
  <2>1. PICK s \in Sources \union {"open"} :
          /\ listener' = [listener EXCEPT ![j] = AfterPost(listener[j], s)]
          /\ source' = [source EXCEPT ![j] = s]
    BY <1>0, <1>3, ListenStep
  <2>2. /\ UNCHANGED <<state, table, checked, fresh>> /\ listener[j] \in Busy
        /\ posted' = [posted EXCEPT ![j] = @ \union {listener[j]}]
    BY <1>0, <1>3, ListenStep DEF vars, jobVars
  <2>3. /\ AfterPost(listener[j], s) \in (News \ {"bell"}) \union {"done"}
        /\ listener[j] = "alert" => AfterPost(listener[j], s) = "done"
    BY <2>2, AfterPostType
  <2>4. EventsTypeOK'
    BY <1>0, <2>1, <2>2, <2>3
  <2>5. \A k \in Jobs \ {j} : listener'[k] = listener[k] /\ posted'[k] = posted[k]
    BY <1>0, <2>1, <2>2
  <2>6. posted'[j] = posted[j] \union {listener[j]} /\ listener'[j] = AfterPost(listener[j], s)
    BY <1>0, <2>1, <2>2
  <2> QED BY <2>2, <2>3, <2>4, <2>5, <2>6 DEF EventsInv, AnnouncedAsSettled
<1>4. ASSUME NEW j \in Jobs, ListenerFails(j) PROVE EventsInv'
  <2>1. EventsTypeOK' /\ UNCHANGED posted
    BY <1>0, <1>4 DEF ListenerFails
  <2>2. \A k \in Jobs : listener'[k] = listener[k] \/ listener'[k] = "lost"
    BY <1>0, <1>4 DEF ListenerFails
  <2> QED BY <1>0, <2>1, <2>2, Unheeded
<1>5. ASSUME NEW e \in Execs, ReturnHeard(e) \/ ThrowHeard(e) PROVE EventsInv'
  <2>0. e[1] \in Jobs
    BY DEF Execs
  <2>1. UNCHANGED <<source, posted, table, checked, fresh>>
    BY <1>5 DEF ReturnHeard, ThrowHeard
  <2>2. CASE ~Holds(e)
    <3>1. UNCHANGED listener
      BY <1>5, <2>2 DEF ReturnHeard, ThrowHeard
    <3> QED BY <1>0, <2>1, <3>1, Unheeded
  <2>3. CASE Holds(e)
    <3>1. state[e[1]] = "active"
      BY <2>3 DEF Holds
    <3>2. \A k \in Jobs \ {e[1]} : listener'[k] = listener[k]
      BY <1>0, <1>5, <2>3 DEF ReturnHeard, ThrowHeard
    <3>3. \A k \in Jobs \ {e[1]} : state'[k] = state[k]
      BY <1>5, <2>3 DEF ReturnHeard, ThrowHeard, Return, Throw, TypeOK
    <3>4. CASE ReturnHeard(e)
      <4>1. state'[e[1]] = "completed"
        BY <2>0, <2>3, <3>4 DEF ReturnHeard, Return, TypeOK
      <4>2. listener'[e[1]] \in {"bell", "done"}
        BY <1>0, <2>0, <2>3, <3>4 DEF ReturnHeard, Added
      <4>3. EventsTypeOK'
        BY <1>0, <2>0, <2>1, <2>3, <3>4 DEF ReturnHeard, Added
      <4> QED BY <2>1, <3>1, <3>2, <3>3, <4>1, <4>2, <4>3 DEF EventsInv, AnnouncedAsSettled
    <3>5. CASE ThrowHeard(e)
      <4>1. listener'[e[1]] \in {"alert", "none"}
        BY <1>0, <2>0, <2>3, <3>5 DEF ThrowHeard, Failed
      <4>2. listener'[e[1]] = "alert" => made[e[1]] + 1 >= Attempts
        BY <1>0, <2>0, <2>3, <3>5 DEF ThrowHeard, Failed
      <4>3. listener'[e[1]] = "alert" => state'[e[1]] = "failed"
        BY <2>0, <2>3, <3>5, <4>2, FeedSyncAssumption
           DEF ThrowHeard, Throw, Retries, TypeOK
      <4>4. EventsTypeOK'
        BY <1>0, <2>0, <2>1, <2>3, <3>5 DEF ThrowHeard, Failed
      <4> QED BY <2>1, <3>1, <3>2, <3>3, <4>1, <4>3, <4>4 DEF EventsInv, AnnouncedAsSettled
    <3> QED BY <1>5, <3>4, <3>5
  <2> QED BY <2>2, <2>3
<1>6. ASSUME NEW e \in Execs, StepHeard(e), ~ReturnHeard(e), ~ThrowHeard(e) PROVE EventsInv'
  <2>1. UNCHANGED <<listener, posted>>
    BY <1>6 DEF StepHeard, Unheard, SkipUnread, DeltaCheck, Insert, InsertThrows
  <2>2. EventsTypeOK'
    BY <1>0, <1>6 DEF StepHeard, Unheard, SkipUnread, DeltaCheck, Insert, InsertThrows
  <2> QED BY <1>0, <2>1, <2>2, Unheeded
<1>7. ASSUME NEW e \in Execs, TroubleUnheard(e) \/ EnrichUnheard(e) PROVE EventsInv'
  <2>1. EventsTypeOK' /\ UNCHANGED <<listener, posted>>
    BY <1>0, <1>7 DEF TroubleUnheard, EnrichUnheard
  <2> QED BY <1>0, <2>1, Unheeded
<1>8. CASE CrashHeard
  <2>1. EventsTypeOK' /\ UNCHANGED posted
    BY <1>0, <1>8 DEF CrashHeard
  <2>2. \A k \in Jobs : listener'[k] = listener[k] \/ listener'[k] = "lost"
    BY <1>8 DEF CrashHeard
  <2> QED BY <1>0, <2>1, <2>2, Unheeded
<1>9. CASE UNCHANGED allVars
  <2>1. EventsTypeOK' /\ UNCHANGED <<listener, posted>>
    BY <1>0, <1>9 DEF allVars
  <2> QED BY <1>0, <2>1, Unheeded
<1> QED BY <1>1, <1>2, <1>3, <1>4, <1>5, <1>6, <1>7, <1>8, <1>9 DEF EventsNext

-----------------------------------------------------------------------------
\* What a step leaves alone when nothing is heard of a job's end.
LEMMA UnheardKeeps ==
  ASSUME \/ \E j \in Jobs : StartUnheard(j)
         \/ \E e \in Execs : \/ StepHeard(e) /\ ~ReturnHeard(e) /\ ~ThrowHeard(e)
                            \/ TroubleUnheard(e) \/ EnrichUnheard(e),
         TypeOK
  PROVE  /\ UNCHANGED <<source, listener, posted, made, stalls>>
         /\ \A j \in Jobs : state'[j] \in {"completed", "failed"} => state'[j] = state[j]
<1> USE DEF TypeOK, jobVars, syncVars, eventVars
<1>1. ASSUME NEW j \in Jobs, StartUnheard(j)
      PROVE  /\ UNCHANGED <<source, listener, posted, made, stalls>>
             /\ \A k \in Jobs : state'[k] \in {"completed", "failed"} => state'[k] = state[k]
  BY <1>1 DEF StartUnheard, Start
<1>2. ASSUME NEW e \in Execs, StepHeard(e), ~ReturnHeard(e), ~ThrowHeard(e)
      PROVE  UNCHANGED <<source, listener, posted, made, stalls, state>>
  BY <1>2 DEF StepHeard, Unheard, SkipUnread, DeltaCheck, Insert, InsertThrows, SkipAll,
       OpenRun, SkipFeed, Ingest, IngestThrows, AddFlow, CompleteRun, FailRun, vars
<1>3. ASSUME NEW e \in Execs, TroubleUnheard(e)
      PROVE  UNCHANGED <<source, listener, posted, made, stalls, state>>
  BY <1>3 DEF TroubleUnheard, Trouble, OpenFails, AddFlowFails, CompleteFails, FailRunFails
<1>4. ASSUME NEW e \in Execs, EnrichUnheard(e)
      PROVE  UNCHANGED <<source, listener, posted, made, stalls, state>>
  BY <1>4 DEF EnrichUnheard, Enrich, StartChild, ChildReturns, ChildThrows, StartBatch,
       MarkEnriched, MarkFails
<1> QED BY <1>1, <1>2, <1>3, <1>4

\* A job fails with its last attempt made only in Throw, which is heard.
LEMMA FailureStep ==
  ASSUME TypeOK, TurnsOK, EventsInv, FailureAlerted, [EventsNext]_allVars
  PROVE  FailureAlerted'
<1> SUFFICES ASSUME NEW j \in Jobs, state'[j] = "failed", made'[j] = Attempts
             PROVE  "alert" \in posted'[j] \/ listener'[j] \in {"alert", "lost"}
  BY DEF FailureAlerted
<1>0. EventsTypeOK
  BY DEF EventsInv
<1> USE DEF EventsTypeOK, Hear
<1>1. CASE state[j] = "failed" /\ made[j] = Attempts
              /\ listener'[j] \in {listener[j], "lost"} /\ posted'[j] = posted[j]
  BY <1>1 DEF FailureAlerted
<1>2. CASE \/ \E k \in Jobs : StartUnheard(k)
           \/ \E e \in Execs : \/ StepHeard(e) /\ ~ReturnHeard(e) /\ ~ThrowHeard(e)
                              \/ TroubleUnheard(e) \/ EnrichUnheard(e)
  <2>1. UNCHANGED <<listener, posted, made>> /\ state[j] = "failed"
    BY <1>2, UnheardKeeps
  <2> QED BY <1>1, <2>1
<1>3. ASSUME NEW k \in Jobs, StallHeard(k)
      PROVE  "alert" \in posted'[j] \/ listener'[j] \in {"alert", "lost"}
  <2>1. made' = made /\ posted' = posted /\ state[k] = "active"
    BY <1>3 DEF StallHeard, Stall, FalseStall
  <2>2. k # j
    BY <2>1 DEF TurnsOK, TypeOK
  <2>3. state'[j] = state[j] /\ listener'[j] = listener[j]
    BY <1>0, <1>3, <2>2 DEF StallHeard, Stall, FalseStall, Requeue, TypeOK
  <2> QED BY <1>1, <2>1, <2>3
<1>4. ASSUME NEW k \in Jobs, Listen(k)
      PROVE  "alert" \in posted'[j] \/ listener'[j] \in {"alert", "lost"}
  <2>1. UNCHANGED <<state, made>>
    BY <1>0, <1>4, ListenStep DEF vars, jobVars
  <2>2. CASE k # j
    <3>1. listener'[j] = listener[j] /\ posted'[j] = posted[j]
      BY <1>0, <1>4, <2>2, ListenStep
    <3> QED BY <1>1, <2>1, <3>1
  <2>3. CASE k = j
    <3>1. state[j] = "failed"
      BY <2>1
    <3>2. listener[j] \notin News
      BY <3>1 DEF EventsInv
    <3>3. listener[j] = "alert"
      BY <1>0, <1>4, <2>3, <3>2, ListenStep DEF Busy
    <3>4. posted'[j] = posted[j] \union {listener[j]}
      BY <1>0, <1>4, <2>3, ListenStep
    <3> QED BY <3>3, <3>4
  <2> QED BY <2>2, <2>3
<1>5. ASSUME NEW k \in Jobs, ListenerFails(k)
      PROVE  "alert" \in posted'[j] \/ listener'[j] \in {"alert", "lost"}
  BY <1>0, <1>1, <1>5 DEF ListenerFails, vars, jobVars
<1>6. ASSUME NEW e \in Execs, ReturnHeard(e) \/ ThrowHeard(e)
      PROVE  "alert" \in posted'[j] \/ listener'[j] \in {"alert", "lost"}
  <2>1. posted' = posted
    BY <1>6 DEF ReturnHeard, ThrowHeard
  <2>2. CASE ~Holds(e) \/ e[1] # j
    <3>1. state'[j] = state[j] /\ made'[j] = made[j] /\ listener'[j] = listener[j]
      BY <1>0, <1>6, <2>2 DEF ReturnHeard, ThrowHeard, Return, Throw, TypeOK, Execs
    <3> QED BY <1>1, <2>1, <3>1
  <2>3. CASE Holds(e) /\ e[1] = j
    <3>1. ThrowHeard(e)
      BY <1>6, <2>3 DEF ReturnHeard, Return, TypeOK
    <3>2. made'[j] = made[j] + 1
      BY <2>3, <3>1 DEF ThrowHeard, Throw, TypeOK
    <3>3. Failed(made[j] + 1) = "alert"
      BY <3>2, FeedSyncAssumption DEF Failed
    <3> QED BY <1>0, <2>3, <3>1, <3>3 DEF ThrowHeard
  <2> QED BY <2>2, <2>3
<1>7. CASE CrashHeard
  BY <1>0, <1>1, <1>7 DEF CrashHeard, Crash, jobVars
<1>8. CASE UNCHANGED allVars
  BY <1>1, <1>8 DEF allVars, vars, jobVars, eventVars
<1> QED BY <1>2, <1>3, <1>4, <1>5, <1>6, <1>7, <1>8 DEF EventsNext

\* With its events a sync does nothing it would not do without: the handlers' reading
\* before they insert, and the listeners of workerEvents.ts, only watch the executions
\* of FeedSyncRun, so that what is proved of those holds for both.
THEOREM EventsImplementRun == EventsSpec => Spec
<1>1. EventsInit => Init
  BY DEF EventsInit
<1> QED BY <1>1, EventsRefine, PTL DEF EventsSpec, Spec

\* The events of a run are events of a run of FeedSyncRun, with its invariant.
LEMMA EventsInvHolds == EventsSpec => [](Inv /\ QuietOK /\ EventsInv)
<1>1. EventsInit => EventsInv
  BY DEF EventsInit, Init, EventsInv, EventsTypeOK, AnnouncedAsSettled, News
<1>4. Inv => TypeOK
  BY DEF Inv
<1>5. EventsInv /\ TypeOK /\ TypeOK' /\ [EventsNext]_allVars => EventsInv'
  BY EventsStep
<1> QED BY <1>1, <1>4, <1>5, EventsImplementRun, InvHolds, PTL DEF EventsSpec

\* AnnouncedAsSettled: an alert is about a job that failed for good and a bell, a sync of
\* the graph or a scoring about one that completed, whatever was overtaken or lost.
THEOREM AnnouncedAsSettledHolds == EventsSpec => []AnnouncedAsSettled
<1>1. EventsInv => AnnouncedAsSettled
  BY DEF EventsInv
<1> QED BY <1>1, EventsInvHolds, PTL

\* FailureAlerted: workerEvents.ts raises an alert for every job that used up its
\* attempts, unless the listener was lost on the way.
THEOREM FailureAlertedHolds == EventsSpec => []FailureAlerted
<1>1. EventsInit => FailureAlerted
  BY DEF EventsInit, Init, FailureAlerted
<1>2. Inv /\ EventsInv /\ FailureAlerted /\ [EventsNext]_allVars => FailureAlerted'
  BY FailureStep DEF Inv
<1> QED BY <1>1, <1>2, EventsInvHolds, PTL DEF EventsSpec

-----------------------------------------------------------------------------
\* What AddedAnnounced needs: without a fault no job stalls, so the first attempt is
\* one execution; only an execution that was started has compared; and what a listener
\* has come to is due to its feed, with all that is due before it added.
Told(l) ==
  CASE l = "iocs" -> {"bell"}
    [] l = "actors" -> {"bell", "iocs"}
    [] l = "cves" -> {"bell", "iocs", "actors"}
    [] l = "scores" -> {"bell", "iocs", "actors", "cves"}
    [] OTHER -> {}

TellOK(j) ==
  listener[j] \in News =>
    /\ listener[j] \in Owed(source[j])
    /\ posted[j] = Owed(source[j]) \intersect Told(listener[j])

\* Going through the lists in their order leaves nothing out that is due.
LEMMA InOrder ==
  ASSUME NEW s, NEW l \in News, l \in Owed(s)
  PROVE  /\ AfterPost(l, s) \in News => AfterPost(l, s) \in Owed(s)
         /\ (Owed(s) \intersect Told(l)) \union {l} =
              IF AfterPost(l, s) \in News THEN Owed(s) \intersect Told(AfterPost(l, s))
              ELSE Owed(s)
<1> USE DEF AfterPost, AfterBell, AfterIocs, AfterActors, AfterCves, News, Owed, Told,
            IocSources, ActorSources, CveSources, KevSources
<1>1. CASE l = "bell" BY <1>1
<1>2. CASE l = "iocs" BY <1>2
<1>3. CASE l = "actors" BY <1>3
<1>4. CASE l = "cves" BY <1>4
<1>5. CASE l = "scores" BY <1>5
<1> QED BY <1>1, <1>2, <1>3, <1>4, <1>5

AddInv ==
  /\ faults = 0 => \A j \in Jobs : stalls[j] = 0
  /\ \A e \in Execs : fresh[e] # {} => e[2] <= turn[e[1]]
  /\ \A j \in Jobs : TellOK(j)
  /\ AddedAnnounced

\* No step takes a fault back, or the start of an execution.
LEMMA Monotone ==
  ASSUME TypeOK, [Next]_vars
  PROVE  /\ faults' = 0 => faults = 0
         /\ \A j \in Jobs : turn'[j] >= turn[j]
<1> USE DEF TypeOK, jobVars, Fault
<1>0. \A j \in Jobs : turn[j] >= turn[j] /\ turn[j] + 1 >= turn[j]
  BY FeedSyncAssumption
<1>1. ASSUME NEW k \in Jobs, Start(k)
      PROVE  faults' = faults /\ \A j \in Jobs : turn'[j] >= turn[j]
  BY <1>0, <1>1 DEF Start
<1>2. ASSUME NEW k \in Jobs, Stall(k) \/ FalseStall(k)
      PROVE  UNCHANGED turn /\ (faults' = 0 => faults = 0)
  BY <1>2, FeedSyncAssumption DEF Stall, FalseStall
<1>3. ASSUME NEW e \in Execs, Step(e) PROVE UNCHANGED <<turn, faults>>
  BY <1>3 DEF Step, SkipAll, OpenRun, SkipFeed, Ingest, IngestThrows, AddFlow, CompleteRun,
       FailRun, Return, Throw
<1>4. ASSUME NEW e \in Execs, Trouble(e) PROVE UNCHANGED turn /\ (faults' = 0 => faults = 0)
  BY <1>4, FeedSyncAssumption DEF Trouble, OpenFails, AddFlowFails, CompleteFails,
       FailRunFails
<1>5. ASSUME NEW e \in Execs, Enrich(e) PROVE UNCHANGED turn /\ (faults' = 0 => faults = 0)
  BY <1>5, FeedSyncAssumption DEF Enrich, StartChild, ChildReturns, ChildThrows,
       StartBatch, MarkEnriched, MarkFails
<1>6. CASE Crash
  BY <1>0, <1>6, FeedSyncAssumption DEF Crash
<1>7. CASE UNCHANGED vars
  BY <1>0, <1>7 DEF vars
<1> QED BY <1>0, <1>1, <1>2, <1>3, <1>4, <1>5, <1>6, <1>7 DEF Next

\* An execution compares once it was started, and while it holds its job.
LEMMA FreshStarted ==
  ASSUME Inv, QuietOK, AddInv, EventsTypeOK, [EventsNext]_allVars, NEW e \in Execs,
         fresh'[e] # {}
  PROVE  /\ e[2] <= turn'[e[1]]
         /\ fresh[e] = {} /\ faults' = 0 => state'[e[1]] = "active"
<1>1. e[1] \in Jobs /\ e[2] \in Nat /\ turn[e[1]] \in Nat /\ turn'[e[1]] >= turn[e[1]]
  <2>1. [Next]_vars BY EventsRefine
  <2>2. e[1] \in Jobs /\ e[2] \in Nat BY FeedSyncAssumption DEF Execs, Turns
  <2>3. turn'[e[1]] >= turn[e[1]] BY <2>1, <2>2, Monotone DEF Inv
  <2>4. turn[e[1]] \in Nat BY <2>2, FeedSyncAssumption DEF Inv, TypeOK
  <2> QED BY <2>2, <2>3, <2>4
<1>t. turn'[e[1]] \in Nat
  <2>1. TypeOK' BY EventsRefine, StepInv DEF Inv
  <2> QED BY <1>1, <2>1, FeedSyncAssumption DEF TypeOK
<1>2. CASE fresh[e] # {}
  <2>1. e[2] <= turn[e[1]]
    BY <1>2 DEF AddInv
  <2> QED BY <1>1, <1>t, <1>2, <2>1
<1>3. CASE fresh[e] = {}
  <2>1. DeltaCheck(e)
    <3>l. \A j \in Jobs : ~Listen(j)
      BY <1>3, ListenStep DEF syncVars
    <3>i. ~CrashHeard /\ \A x \in Execs : ~InsertThrows(x)
      BY <1>3 DEF CrashHeard, InsertThrows, EventsTypeOK
    <3>1. PICK x \in Execs : DeltaCheck(x)
      BY <1>3, <3>l, <3>i DEF EventsNext, StartUnheard, StallHeard, ListenerFails, StepHeard,
        Unheard, SkipUnread, Insert, ReturnHeard, ThrowHeard, TroubleUnheard,
        EnrichUnheard, syncVars, allVars
    <3>2. x = e
      BY <1>3, <3>1 DEF DeltaCheck, EventsTypeOK
    <3> QED BY <3>1, <3>2
  <2>2. stage[e] = "check" /\ UNCHANGED <<turn, state, faults>>
    BY <2>1 DEF DeltaCheck, vars, jobVars
  <2>3. ~(e[2] > turn[e[1]])
    BY <2>2 DEF Inv, ExecOK, FreshOK
  <2>4. faults = 0 => Holds(e)
    BY <2>2 DEF QuietOK, Live
  <2> QED BY <1>1, <2>2, <2>3, <2>4 DEF Holds
<1> QED BY <1>2, <1>3

\* A step that is not heard, or only by a listener, leaves what was announced.
LEMMA AddKept ==
  ASSUME Inv, QuietOK, EventsInv, AddInv, [EventsNext]_allVars,
         faults' = 0 => \A j \in Jobs : stalls'[j] = 0,
         \A j \in Jobs : state'[j] = "completed" =>
           /\ state[j] = "completed" /\ made'[j] = made[j]
           /\ \/ /\ listener'[j] = listener[j] /\ posted'[j] = posted[j]
                 /\ source'[j] = source[j]
              \/ listener'[j] \in News \union {"lost"}
              \/ posted'[j] = Owed(source'[j]),
         \A j \in Jobs : TellOK(j)'
  PROVE  AddInv'
<1>1. EventsTypeOK /\ TypeOK
  BY DEF EventsInv, Inv
<1>2. \A e \in Execs : fresh'[e] # {} => e[2] <= turn'[e[1]]
  BY <1>1, FreshStarted
<1>3. AddedAnnounced'
  <2> SUFFICES ASSUME faults' = 0, NEW e \in Execs,
                      state'[e[1]] = "completed", made'[e[1]] = 0, fresh'[e] # {}
               PROVE  \/ posted'[e[1]] = Owed(source'[e[1]])
                      \/ listener'[e[1]] \in News \union {"lost"}
    BY DEF AddedAnnounced
  <2>1. e[1] \in Jobs
    BY DEF Execs
  <2>2. fresh[e] # {}
    BY <1>1, FreshStarted
  <2>3. faults = 0
    BY <1>1, EventsRefine, Monotone
  <2>4. \/ posted[e[1]] = Owed(source[e[1]])
        \/ listener[e[1]] \in News \union {"lost"}
    BY <2>1, <2>2, <2>3 DEF AddInv, AddedAnnounced
  <2> QED BY <2>1, <2>4
<1> QED BY <1>2, <1>3 DEF AddInv

\* The only execution of a first attempt announces what it found to be fresh.
LEMMA ReturnAdds ==
  ASSUME Inv, QuietOK, EventsInv, AddInv, NEW x \in Execs, ReturnHeard(x), Holds(x)
  PROVE  AddInv'
<1> DEFINE j == x[1]
<1> USE DEF Hear, EventsTypeOK
<1>1. EventsTypeOK /\ TypeOK /\ TurnsOK /\ j \in Jobs
  BY DEF EventsInv, Inv, Execs
<1>2. /\ UNCHANGED <<turn, made, stalls, faults, source, posted, fresh>>
      /\ \A k \in Jobs \ {j} : state'[k] = state[k] /\ listener'[k] = listener[k]
      /\ listener'[j] = Added(x)
  BY <1>1 DEF ReturnHeard, Return, syncVars, TypeOK
<1>3. ASSUME NEW k \in Jobs PROVE TellOK(k)'
  <2>1. CASE k # j
    BY <1>2, <2>1 DEF AddInv, TellOK
  <2>2. CASE k = j
    <3>1. listener'[j] \in {"done", "bell"}
      BY <1>2 DEF Added
    <3>2. posted'[j] = {}
      BY <1>1, <1>2 DEF EventsInv, AnnouncedAsSettled, Holds, Busy
    <3>3. Told("bell") = {}
      BY DEF Told
    <3> QED BY <2>2, <3>1, <3>2, <3>3 DEF TellOK, Owed, News
  <2> QED BY <2>1, <2>2
<1>4. AddedAnnounced'
  <2> SUFFICES ASSUME faults = 0, NEW e \in Execs,
                      state'[e[1]] = "completed", made[e[1]] = 0, fresh[e] # {}
               PROVE  \/ posted[e[1]] = Owed(source[e[1]])
                      \/ listener'[e[1]] \in News \union {"lost"}
    BY <1>2 DEF AddedAnnounced
  <2>1. e[1] \in Jobs
    BY DEF Execs
  <2>2. CASE e[1] # j
    BY <1>2, <2>1, <2>2 DEF AddInv, AddedAnnounced
  <2>3. CASE e[1] = j
    <3>1. turn[j] = 1
      <4>1. made[j] = 0 /\ stalls[j] = 0
        BY <1>1, <2>3 DEF AddInv
      <4>2. turn[j] = made[j] + stalls[j] + 1
        BY <1>1 DEF TurnsOK, Holds
      <4> QED BY <4>1, <4>2
    <3>2. e[2] = 1 /\ x[2] = 1
      <4>1. e[2] \in Nat \ {0}
        BY FeedSyncAssumption DEF Execs, Turns
      <4>2. e[2] <= 1
        BY <2>3, <3>1 DEF AddInv
      <4> QED BY <3>1, <4>1, <4>2 DEF Holds
    <3>3. e = x
      BY <2>3, <3>2 DEF Execs
    <3> QED BY <1>2, <2>3, <3>3 DEF Added, News
  <2> QED BY <2>2, <2>3
<1> QED BY <1>2, <1>3, <1>4 DEF AddInv

LEMMA AddStep ==
  ASSUME Inv, QuietOK, EventsInv, AddInv, [EventsNext]_allVars
  PROVE  AddInv'
<1>0. TypeOK /\ TurnsOK /\ EventsTypeOK
  BY DEF Inv, EventsInv
<1>m. (faults' = 0 => faults = 0)
  BY <1>0, EventsRefine, Monotone
<1> USE DEF EventsTypeOK, Hear
<1>1. CASE \/ \E j \in Jobs : StartUnheard(j)
           \/ \E e \in Execs : \/ StepHeard(e) /\ ~ReturnHeard(e) /\ ~ThrowHeard(e)
                              \/ TroubleUnheard(e) \/ EnrichUnheard(e)
  <2>1. /\ UNCHANGED <<source, listener, posted, made, stalls>>
        /\ \A j \in Jobs : state'[j] \in {"completed", "failed"} => state'[j] = state[j]
    BY <1>0, <1>1, UnheardKeeps
  <2>2. faults' = 0 => \A j \in Jobs : stalls'[j] = 0
    BY <1>m, <2>1 DEF AddInv
  <2>3. \A j \in Jobs : TellOK(j)'
    BY <2>1 DEF AddInv, TellOK
  <2> QED BY <2>1, <2>2, <2>3, AddKept
<1>2. ASSUME NEW k \in Jobs, StallHeard(k) PROVE AddInv'
  <2>1. faults' # 0
    <3>1. CASE FalseStall(k)
      BY <1>0, <3>1, FeedSyncAssumption DEF FalseStall, Fault, TypeOK
    <3>2. CASE Stall(k)
      <4>1. <<k, turn[k]>> \in Execs
        BY <1>0, <3>2, FeedSyncAssumption DEF Stall, TurnsOK, TypeOK, Execs, Turns
      <4>2. faults # 0
        BY <3>2, <4>1 DEF Stall, QuietOK
      <4> QED BY <1>m, <4>2
    <3> QED BY <1>2, <3>1, <3>2 DEF StallHeard
  <2>2. UNCHANGED <<source, posted>>
        /\ \A j \in Jobs : listener'[j] \in {listener[j], "alert", "none"}
    BY <1>0, <1>2 DEF StallHeard, Failed
  <2>3. \A j \in Jobs : TellOK(j)'
    BY <2>2 DEF AddInv, TellOK, News
  <2>4. \A e \in Execs : fresh'[e] # {} => e[2] <= turn'[e[1]]
    BY <1>0, FreshStarted
  <2> QED BY <2>1, <2>3, <2>4 DEF AddInv, AddedAnnounced
<1>3. ASSUME NEW k \in Jobs, Listen(k) PROVE AddInv'
  <2>1. UNCHANGED <<state, made, stalls, faults>> /\ listener[k] \in Busy
    BY <1>0, <1>3, ListenStep DEF vars, jobVars
  <2>2. PICK s \in Sources \union {"open"} :
          /\ listener' = [listener EXCEPT ![k] = AfterPost(listener[k], s)]
          /\ source' = [source EXCEPT ![k] = s]
          /\ listener[k] # "bell" => s = source[k]
    BY <1>0, <1>3, ListenStep
  <2>3. posted' = [posted EXCEPT ![k] = @ \union {listener[k]}]
    BY <1>0, <1>3, ListenStep
  <2>4. \A j \in Jobs \ {k} : /\ listener'[j] = listener[j] /\ posted'[j] = posted[j]
                               /\ source'[j] = source[j]
    BY <1>0, <2>2, <2>3
  <2>5. /\ listener'[k] = AfterPost(listener[k], s) /\ source'[k] = s
        /\ posted'[k] = posted[k] \union {listener[k]}
    BY <1>0, <2>2, <2>3
  <2>6. CASE listener[k] \in News
    <3>1. listener[k] \in Owed(s) /\ posted[k] = Owed(s) \intersect Told(listener[k])
      <4>1. CASE listener[k] = "bell"
        <5>1. Told("bell") = {} /\ "bell" \in Owed(s)
          BY DEF Told, Owed
        <5> QED BY <2>6, <4>1, <5>1 DEF AddInv, TellOK
      <4>2. CASE listener[k] # "bell"
        BY <2>2, <2>6, <4>2 DEF AddInv, TellOK
      <4> QED BY <4>1, <4>2
    <3>2. /\ listener'[k] \in News => listener'[k] \in Owed(s)
          /\ posted'[k] = IF listener'[k] \in News THEN Owed(s) \intersect Told(listener'[k])
                         ELSE Owed(s)
      BY <2>5, <2>6, <3>1, InOrder
    <3>3. \A j \in Jobs : TellOK(j)'
      BY <2>4, <2>5, <3>2 DEF AddInv, TellOK
    <3>4. listener'[k] \in News \/ posted'[k] = Owed(source'[k])
      BY <2>5, <3>2
    <3>5. faults' = 0 => \A j \in Jobs : stalls'[j] = 0
      BY <2>1 DEF AddInv
    <3> QED BY <2>1, <2>4, <3>3, <3>4, <3>5, AddKept
  <2>7. CASE listener[k] = "alert"
    <3>1. state[k] = "failed"
      BY <2>7 DEF EventsInv
    <3>2. listener'[k] = "done"
      BY <2>5, <2>7 DEF AfterPost
    <3>3. \A j \in Jobs : TellOK(j)'
      BY <2>4, <3>2 DEF AddInv, TellOK, News
    <3>4. faults' = 0 => \A j \in Jobs : stalls'[j] = 0
      BY <2>1 DEF AddInv
    <3> QED BY <2>1, <2>4, <3>1, <3>3, <3>4, AddKept
  <2> QED BY <2>1, <2>6, <2>7 DEF Busy
<1>4. ASSUME NEW k \in Jobs, ListenerFails(k) PROVE AddInv'
  <2>1. UNCHANGED <<state, made, stalls, faults, source, posted>>
    BY <1>4 DEF ListenerFails, vars, jobVars
  <2>2. \A j \in Jobs : listener'[j] \in {listener[j], "lost"}
    BY <1>0, <1>4 DEF ListenerFails
  <2>3. \A j \in Jobs : TellOK(j)'
    BY <2>1, <2>2 DEF AddInv, TellOK, News
  <2> QED BY <2>1, <2>2, <2>3, AddKept DEF AddInv
<1>5. ASSUME NEW e \in Execs, ReturnHeard(e) \/ ThrowHeard(e) PROVE AddInv'
  <2>0. e[1] \in Jobs
    BY DEF Execs
  <2>1. UNCHANGED <<stalls, faults, source, posted>>
    BY <1>5 DEF ReturnHeard, ThrowHeard, Return, Throw
  <2>2. CASE ~Holds(e)
    <3>1. UNCHANGED <<state, made, listener>>
      BY <1>5, <2>2 DEF ReturnHeard, ThrowHeard, Return, Throw
    <3>2. \A j \in Jobs : TellOK(j)'
      BY <2>1, <3>1 DEF AddInv, TellOK
    <3> QED BY <2>1, <3>1, <3>2, AddKept DEF AddInv
  <2>3. CASE Holds(e) /\ ReturnHeard(e)
    BY <2>3, ReturnAdds
  <2>4. CASE Holds(e) /\ ThrowHeard(e)
    <3>1. /\ state'[e[1]] # "completed" /\ listener'[e[1]] \notin News
          /\ \A j \in Jobs \ {e[1]} : /\ state'[j] = state[j] /\ made'[j] = made[j]
                                      /\ listener'[j] = listener[j]
      BY <1>0, <2>0, <2>4 DEF ThrowHeard, Throw, TypeOK, Failed, News
    <3>2. \A j \in Jobs : TellOK(j)'
      BY <2>1, <3>1 DEF AddInv, TellOK
    <3> QED BY <2>0, <2>1, <3>1, <3>2, AddKept DEF AddInv
  <2> QED BY <1>5, <2>2, <2>3, <2>4
<1>6. CASE CrashHeard
  <2>1. UNCHANGED <<state, made, stalls, source, posted>>
    BY <1>6 DEF CrashHeard, Crash, jobVars
  <2>2. \A j \in Jobs : listener'[j] \in {listener[j], "lost"}
    BY <1>6 DEF CrashHeard
  <2>3. \A j \in Jobs : TellOK(j)'
    BY <2>1, <2>2 DEF AddInv, TellOK, News
  <2> QED BY <1>m, <2>1, <2>2, <2>3, AddKept DEF AddInv
<1>7. CASE UNCHANGED allVars
  <2>1. UNCHANGED <<state, made, stalls, faults, source, posted, listener>>
    BY <1>7 DEF allVars, vars, jobVars, eventVars
  <2>2. \A j \in Jobs : TellOK(j)'
    BY <2>1 DEF AddInv, TellOK
  <2> QED BY <2>1, <2>2, AddKept DEF AddInv
<1> QED BY <1>1, <1>2, <1>3, <1>4, <1>5, <1>6, <1>7 DEF EventsNext

\* AddedAnnounced: without a fault, what the first attempt of a sync added is announced
\* and goes to the queues its feed is listed for, and to no other, unless the listener
\* was lost; for whatever feed, listed or not.
THEOREM AddedAnnouncedHolds == EventsSpec => []AddedAnnounced
<1>1. EventsInit => AddInv
  BY DEF EventsInit, Init, AddInv, AddedAnnounced, TellOK, News
<1>2. Inv /\ QuietOK /\ EventsInv /\ AddInv /\ [EventsNext]_allVars => AddInv'
  BY AddStep
<1>3. AddInv => AddedAnnounced
  BY DEF AddInv
<1> QED BY <1>1, <1>2, <1>3, EventsInvHolds, PTL DEF EventsSpec

-----------------------------------------------------------------------------
(***************************************************************************)
(* How a batch comes to its end.                                           *)
(***************************************************************************)

\* What a batch and a child of it still have before them.
Ahead(s) == CASE s \in {"waiting", "wait"} -> 2 [] s = "active" -> 1 [] OTHER -> 0
Pending(e) == batch[e] \in {"waiting", "active"}

\* One step seen from the batch of e.
BatchGoes(e) ==
  /\ Pending(e)' \/ enriched'[e] = "yes" \/ batch'[e] = "failed"
  /\ \/ faults' > faults
     \/ /\ Ahead(batch'[e]) <= Ahead(batch[e])
        /\ \A i \in Iocs : Ahead(child'[e][i]) <= Ahead(child[e][i])
  /\ \A i \in Iocs : child[e][i] = "failed" => child'[e][i] = "failed"
BatchLess(e) ==
  \/ Ahead(batch'[e]) < Ahead(batch[e])
  \/ \E i \in Iocs : Ahead(child'[e][i]) < Ahead(child[e][i])

LEMMA BatchRests ==
  ASSUME NEW e \in Execs, Pending(e), batch'[e] = batch[e], child'[e] = child[e]
  PROVE  BatchGoes(e)
<1>1. Ahead(batch[e]) \in Nat /\ \A i \in Iocs : Ahead(child[e][i]) \in Nat
  BY DEF Ahead
<1> QED BY <1>1 DEF BatchGoes, Pending

LEMMA BatchStep ==
  ASSUME Inv, NEW e \in Execs, Pending(e), Enrich(e)
  PROVE  BatchGoes(e) /\ BatchLess(e)
<1>1. /\ batch \in [Execs -> {"none", "waiting", "active", "completed", "failed"}]
      /\ enriched \in [Execs -> {"no", "yes"}] /\ faults \in Nat
      /\ child[e] \in [Iocs -> {"none", "wait", "active", "completed", "failed"}]
      /\ child \in [Execs -> [Iocs -> {"none", "wait", "active", "completed", "failed"}]]
  BY DEF Inv, TypeOK
<1>2. \A s : Ahead(s) \in Nat
  BY DEF Ahead
<1>3. ASSUME NEW i \in Iocs, NEW s, SetChild(e, i, s), UNCHANGED batch,
             child[e][i] # "failed", Ahead(s) < Ahead(child[e][i])
      PROVE  BatchGoes(e) /\ BatchLess(e)
  <2>1. child'[e] = [child[e] EXCEPT ![i] = s]
    BY <1>1, <1>3 DEF SetChild
  <2>2. child'[e][i] = s /\ \A k \in Iocs : k # i => child'[e][k] = child[e][k]
    BY <1>1, <2>1
  <2>3. \A k \in Iocs : Ahead(child'[e][k]) <= Ahead(child[e][k])
    BY <1>2, <1>3, <2>2
  <2>4. BatchLess(e)
    BY <1>3, <2>2 DEF BatchLess
  <2>5. Ahead(batch'[e]) <= Ahead(batch[e]) /\ Pending(e)'
    BY <1>2, <1>3 DEF Pending
  <2>6. \A k \in Iocs : child[e][k] = "failed" => child'[e][k] = "failed"
    BY <1>3, <2>2
  <2> QED BY <2>3, <2>4, <2>5, <2>6 DEF BatchGoes
<1>4. /\ Ahead("wait") = 2 /\ Ahead("waiting") = 2 /\ Ahead("active") = 1
      /\ Ahead("completed") = 0 /\ Ahead("failed") = 0
  BY DEF Ahead
<1>5. ASSUME NEW i \in Iocs, StartChild(e, i) \/ ChildReturns(e, i) \/ ChildThrows(e, i)
      PROVE  BatchGoes(e) /\ BatchLess(e)
  <2>1. CASE StartChild(e, i)
    BY <1>3, <1>4, <2>1 DEF StartChild
  <2>2. CASE ChildReturns(e, i)
    BY <1>3, <1>4, <2>2 DEF ChildReturns
  <2>3. CASE ChildThrows(e, i)
    BY <1>3, <1>4, <2>3 DEF ChildThrows
  <2> QED BY <1>5, <2>1, <2>2, <2>3
<1>6. ASSUME UNCHANGED child, Ahead(batch'[e]) < Ahead(batch[e]),
             batch'[e] \in {"waiting", "active", "failed"} \/ enriched'[e] = "yes"
      PROVE  BatchGoes(e) /\ BatchLess(e)
  BY <1>2, <1>6 DEF BatchGoes, BatchLess, Pending
<1>7. CASE StartBatch(e)
  BY <1>1, <1>4, <1>6, <1>7 DEF StartBatch
<1>8. CASE MarkEnriched(e)
  BY <1>1, <1>4, <1>6, <1>8 DEF MarkEnriched
<1>9. CASE MarkFails(e)
  BY <1>1, <1>4, <1>6, <1>9 DEF MarkFails
<1> QED BY <1>5, <1>7, <1>8, <1>9 DEF Enrich

LEMMA BatchElse ==
  ASSUME Inv, [Next]_vars, NEW e \in Execs, Pending(e)
  PROVE  BatchGoes(e)
<1>1. batch \in [Execs -> {"none", "waiting", "active", "completed", "failed"}]
      /\ child \in [Execs -> [Iocs -> {"none", "wait", "active", "completed", "failed"}]]
      /\ faults \in Nat
  BY DEF Inv, TypeOK
<1> USE DEF jobVars, rowVars, flowVars
<1>2. ASSUME UNCHANGED flowVars PROVE BatchGoes(e)
  BY <1>2, BatchRests
<1>3. ASSUME NEW d \in Execs, Enrich(d), d # e PROVE BatchGoes(e)
  <2>1. batch'[e] = batch[e] /\ child'[e] = child[e]
    BY <1>1, <1>3 DEF Enrich, StartChild, ChildReturns, ChildThrows, SetChild, StartBatch,
      MarkEnriched, MarkFails
  <2> QED BY <2>1, BatchRests
<1>4. ASSUME NEW d \in Execs, AddFlow(d) \/ AddFlowFails(d) PROVE BatchGoes(e)
  <2>1. stage[d] = "flow" /\ (UNCHANGED flowVars \/ Flow(d))
    BY <1>4 DEF AddFlow, AddFlowFails
  <2>2. d # e
    BY <2>1 DEF Inv, ExecOK, RowOK, Pending
  <2>3. batch'[e] = batch[e] /\ child'[e] = child[e]
    BY <1>1, <2>1, <2>2 DEF Flow
  <2> QED BY <2>3, BatchRests
<1>5. ASSUME NEW d \in Execs, Step(d) \/ Trouble(d), ~AddFlow(d), ~AddFlowFails(d)
      PROVE  BatchGoes(e)
  <2>1. UNCHANGED flowVars
    BY <1>5 DEF Step, Trouble, SkipAll, OpenRun, SkipFeed, Ingest, IngestThrows, CompleteRun,
      FailRun, Return, Throw, OpenFails, CompleteFails, FailRunFails
  <2> QED BY <1>2, <2>1
<1>6. CASE \E j \in Jobs : Start(j) \/ Stall(j) \/ FalseStall(j)
  <2>1. UNCHANGED flowVars
    BY <1>6 DEF Start, Stall, FalseStall
  <2> QED BY <1>2, <2>1
<1>7. CASE Crash
  <2>1. faults' > faults
    BY <1>1, <1>7 DEF Crash, Fault
  <2>2. batch'[e] = (IF batch[e] = "active" THEN "waiting" ELSE batch[e])
    BY <1>7 DEF Crash
  <2>3. \A i \in Iocs : child[e][i] = "failed" => child'[e][i] = "failed"
    BY <1>7 DEF Crash
  <2>4. Pending(e)'
    BY <2>2 DEF Pending
  <2> QED BY <2>1, <2>3, <2>4 DEF BatchGoes
<1>8. CASE UNCHANGED vars
  BY <1>2, <1>8 DEF vars
<1> QED
  BY <1>3, <1>4, <1>5, <1>6, <1>7, <1>8, BatchStep DEF Next

\* A batch that is under way is so until it has stamped its run or has failed; only a
\* fault takes it or a child back, every step of its workers brings it nearer to its end,
\* and a child that failed stays failed and holds it for ever.
BatchDescends ==
  [][\A e \in Execs : Pending(e) => BatchGoes(e) /\ (Enrich(e) => BatchLess(e))]_vars

\* BatchDescends: the argument for BatchStamps but for the fairness.  What becomes of the
\* execution that added the batch does not matter to it (feedBatchWorker.ts and
\* enrichmentWorker.ts never look at the job).
THEOREM BatchDescendsHolds == Spec => BatchDescends
<1>1. Inv /\ [Next]_vars =>
        [\A e \in Execs : Pending(e) => BatchGoes(e) /\ (Enrich(e) => BatchLess(e))]_vars
  BY BatchStep, BatchElse
<1> QED BY <1>1, InvHolds, PTL DEF Spec, BatchDescends
=============================================================================
