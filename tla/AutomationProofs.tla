-------------------------- MODULE AutomationProofs --------------------------
(***************************************************************************)
(* Proofs about Automation, for every set of reports, slots, requests,     *)
(* playbooks and executions.                                               *)
(***************************************************************************)
EXTENDS Automation, TLAPS

\* Until its submission is over a row has no task.
Untracked ==
  \A r \in Reports : submission[r] # "over" =>
    /\ ~row[r].task
    /\ row[r].status = IF submission[r] = "none" THEN "none" ELSE "queued"

\* A refresh that waits or is about to write has read an unsettled row with a task, so it
\* read no completed_at: what it writes back cannot be a stamp without the status.
ReadUnsettled ==
  \A c \in Callers :
    /\ call[c].phase # "idle" => call[c].on \in Reports
    /\ call[c].phase \in {"ask", "write"} =>
         /\ row[call[c].on].task
         /\ call[c].seen.status \notin Settled /\ ~call[c].seen.stamp

SandboxInv == SandboxOK /\ StampedIffCompleted /\ Untracked /\ ReadUnsettled

\* A task id and a loss stay.
Grows ==
  /\ \A r \in Reports : row[r].task => row'[r].task
  /\ losses' \in Nat /\ losses' >= losses

USE SandboxAssumption

\* A row may be replaced by one whose stamp and status agree and that keeps its task.
LEMMA RowWritten ==
  ASSUME SandboxInv, NEW r \in Reports, NEW e \in Rows,
         e.stamp <=> e.status = "completed", row[r].task => e.task,
         row' = [row EXCEPT ![r] = e]
  PROVE  /\ row' \in [Reports -> Rows] /\ StampedIffCompleted'
         /\ \A q \in Reports : row[q].task => row'[q].task
BY DEF SandboxInv, SandboxOK, StampedIffCompleted

LEMMA CallsStay ==
  ASSUME SandboxInv, UNCHANGED call,
         \A q \in Reports : row[q].task => row'[q].task
  PROVE  call' \in [Callers -> Calls] /\ ReadUnsettled'
BY DEF SandboxInv, SandboxOK, ReadUnsettled

LEMMA SubmissionKeeps ==
  ASSUME SandboxInv, NEW r \in Reports,
         SubmissionStep(r) \/ VendorWorks(r) \/ DayPasses(r)
  PROVE  SandboxInv' /\ Grows
<1> DEFINE e == row[r]
<1>e. e \in Rows /\ (e.stamp <=> e.status = "completed")
  BY DEF SandboxInv, SandboxOK, StampedIffCompleted
<1>f. /\ e.status \in Statuses \union {"none"} /\ e.task \in BOOLEAN /\ e.stamp \in BOOLEAN
  BY <1>e DEF Rows
<1>n. losses \in Nat /\ losses' \in Nat /\ losses' >= losses
       /\ losses' \in 0..MaxLosses
  BY DEF SandboxInv, SandboxOK, SubmissionStep, Submit, Dispatched, Accepted, Refused,
         SubmitThrows, VendorWorks, DayPasses, Lose
<1>s. /\ submission' \in [Reports -> Stages] /\ vendor' \in [Reports -> Statuses \union {"none"}]
      /\ polling' \in BOOLEAN /\ due' \in SUBSET Reports /\ old' \in SUBSET Reports
      /\ UNCHANGED call
  BY DEF SandboxInv, SandboxOK, SubmissionStep, Submit, Dispatched, Accepted, Refused,
         SubmitThrows, VendorWorks, DayPasses, Stages, Statuses, Final, Settled
<1> DEFINE RowOK == /\ row' \in [Reports -> Rows] /\ StampedIffCompleted'
                    /\ \A q \in Reports : row[q].task => row'[q].task
<1>r. RowOK /\ Untracked'
  <2>1. CASE Submit(r)
    <3> DEFINE f == [e EXCEPT !.status = "queued"]
    <3>1. ~e.stamp /\ e.task = FALSE BY <2>1, <1>e, <1>f DEF Submit, SandboxInv, Untracked
    <3>2. row' = [row EXCEPT ![r] = f] BY <2>1 DEF Submit
    <3>3. f \in Rows /\ f.status = "queued" /\ ~f.stamp /\ f.task = FALSE
      BY <3>1, <1>e, <1>f DEF Rows, Statuses
    <3>4. RowOK BY <3>2, <3>3, <3>1, RowWritten
    <3>5. Untracked' BY <2>1, <3>2, <3>3 DEF SandboxInv, SandboxOK, Untracked, Submit
    <3> QED BY <3>4, <3>5
  <2>2. CASE Accepted(r)
    <3> DEFINE f == [e EXCEPT !.status = "running", !.task = TRUE]
    <3>1. ~e.stamp BY <2>2, <1>e, <1>f DEF Accepted, SandboxInv, Untracked
    <3>2. row' = [row EXCEPT ![r] = f] BY <2>2 DEF Accepted
    <3>3. f \in Rows /\ f.status = "running" /\ ~f.stamp /\ f.task
      BY <3>1, <1>e, <1>f DEF Rows, Statuses
    <3>4. RowOK BY <3>2, <3>3, RowWritten
    <3>5. Untracked' BY <2>2, <3>2, <3>3 DEF SandboxInv, SandboxOK, Untracked, Accepted
    <3> QED BY <3>4, <3>5
  <2>3. CASE Refused(r)
    <3> DEFINE f == [e EXCEPT !.status = "failed"]
    <3>1. ~e.stamp /\ e.task = FALSE BY <2>3, <1>e, <1>f DEF Refused, SandboxInv, Untracked
    <3>2. row' = [row EXCEPT ![r] = f] BY <2>3 DEF Refused
    <3>3. f \in Rows /\ f.status = "failed" /\ ~f.stamp /\ f.task = FALSE
      BY <3>1, <1>e, <1>f DEF Rows, Statuses, Final, Settled
    <3>4. RowOK BY <3>2, <3>3, <3>1, RowWritten
    <3>5. Untracked' BY <2>3, <3>2, <3>3 DEF SandboxInv, SandboxOK, Untracked, Refused
    <3> QED BY <3>4, <3>5
  <2>4. CASE Dispatched(r) \/ SubmitThrows(r) \/ VendorWorks(r) \/ DayPasses(r)
    <3>1. UNCHANGED row BY <2>4 DEF Dispatched, SubmitThrows, VendorWorks, DayPasses
    <3>2. RowOK BY <3>1 DEF SandboxInv, SandboxOK, StampedIffCompleted
    <3>3. Untracked' BY <2>4, <3>1
      DEF SandboxInv, SandboxOK, Untracked, Dispatched, SubmitThrows, VendorWorks, DayPasses
    <3> QED BY <3>2, <3>3
  <2> QED BY <2>1, <2>2, <2>3, <2>4 DEF SubmissionStep
<1>c. call' \in [Callers -> Calls] /\ ReadUnsettled' BY <1>s, <1>r, CallsStay
<1> QED
  BY <1>n, <1>s, <1>r, <1>c DEF SandboxInv, SandboxOK, Grows

\* A caller may be replaced by one that keeps to the invariant.
LEMMA CallChanged ==
  ASSUME SandboxInv, NEW c \in Callers, NEW d \in Calls, Hang(c, d), UNCHANGED row,
         d.phase # "idle" => d.on \in Reports,
         d.phase \in {"ask", "write"} =>
           row[d.on].task /\ d.seen.status \notin Settled /\ ~d.seen.stamp
  PROVE  call' \in [Callers -> Calls] /\ ReadUnsettled'
BY DEF SandboxInv, SandboxOK, ReadUnsettled, Hang

LEMMA IdleCall ==
  /\ Idle \in Calls /\ Idle.phase = "idle"
  /\ \A r \in Reports : Begun(r) \in Calls /\ Begun(r).phase = "read" /\ Begun(r).on = r
BY DEF Idle, Begun, Calls, Rows, NoRow, Answers

LEMMA RefreshKeeps ==
  ASSUME SandboxInv, NEW c \in Callers, RefreshStep(c)
  PROVE  SandboxInv' /\ Grows
<1> DEFINE k == call[c]
<1>k. /\ k \in Calls /\ k.phase \in {"idle", "read", "ask", "write"} /\ k.on \in Reports \union {None}
      /\ k.seen \in Rows /\ k.answer \in Answers
  BY DEF SandboxInv, SandboxOK, Calls
<1>i. /\ k.phase # "idle" => k.on \in Reports
      /\ k.phase \in {"ask", "write"} =>
           row[k.on].task /\ k.seen.status \notin Settled /\ ~k.seen.stamp
  BY DEF SandboxInv, ReadUnsettled
<1>m. losses \in 0..MaxLosses BY DEF SandboxInv, SandboxOK
<1>l. losses' = losses \/ (losses < MaxLosses /\ losses' = losses + 1)
  BY DEF RefreshStep, Request, ReadRow, Answer, WriteRow, RefreshThrows, Lose
<1>n. losses \in Nat /\ losses' \in Nat /\ losses' >= losses /\ losses' \in 0..MaxLosses
  BY <1>m, <1>l
<1>s. UNCHANGED <<submission, vendor, polling, due, old>>
  BY DEF RefreshStep, Request, ReadRow, Answer, WriteRow, RefreshThrows
<1> DEFINE RowOK == /\ row' \in [Reports -> Rows] /\ StampedIffCompleted'
                    /\ \A q \in Reports : row[q].task => row'[q].task
           CallOK == call' \in [Callers -> Calls] /\ ReadUnsettled'
<1>u. ASSUME UNCHANGED row PROVE RowOK /\ Untracked'
  BY <1>u, <1>s DEF SandboxInv, SandboxOK, StampedIffCompleted, Untracked
<1>r. RowOK /\ Untracked' /\ CallOK
  <2>1. ASSUME NEW r \in Reports, Request(c, r) PROVE RowOK /\ Untracked' /\ CallOK
    <3>1. UNCHANGED row /\ Hang(c, Begun(r)) BY <2>1 DEF Request
    <3>2. CallOK BY <3>1, IdleCall, CallChanged
    <3> QED BY <3>1, <3>2, <1>u
  <2>2. CASE ReadRow(c)
    <3> DEFINE e == row[k.on]
               d == [k EXCEPT !.phase = "ask", !.seen = e]
    <3>1. UNCHANGED row /\ Hang(c, IF Needless(e) THEN Idle ELSE d) BY <2>2 DEF ReadRow
    <3>2. k.on \in Reports /\ e \in Rows /\ (e.stamp <=> e.status = "completed")
      BY <2>2, <1>i DEF ReadRow, SandboxInv, SandboxOK, StampedIffCompleted
    <3>3. CASE Needless(e) BY <3>1, <3>3, IdleCall, CallChanged, <1>u
    <3>4. CASE ~Needless(e)
      <4>1. d \in Calls /\ d.phase = "ask" /\ d.on = k.on /\ d.seen = e BY <1>k, <3>2 DEF Calls
      <4>2. e.task /\ e.status \notin Settled /\ ~e.stamp
        BY <3>4, <3>2 DEF Needless, Settled
      <4>3. Hang(c, d) BY <3>1, <3>4
      <4>4. CallOK BY <4>1, <4>2, <4>3, <3>1, <3>2, CallChanged
      <4> QED BY <4>4, <3>1, <1>u
    <3> QED BY <3>3, <3>4
  <2>3. ASSUME NEW a \in Answers, Answer(c, a) PROVE RowOK /\ Untracked' /\ CallOK
    <3> DEFINE d == [k EXCEPT !.phase = "write", !.answer = a]
    <3>1. UNCHANGED row /\ Hang(c, d) /\ k.phase = "ask" BY <2>3 DEF Answer
    <3>2. d \in Calls /\ d.phase = "write" /\ d.on = k.on /\ d.seen = k.seen BY <1>k DEF Calls
    <3>3. CallOK BY <3>1, <3>2, <1>i, CallChanged
    <3> QED BY <3>3, <3>1, <1>u
  <2>4. CASE WriteRow(c)
    <3> DEFINE e == row[k.on]
               f == Refreshed(e, k.seen, k.answer)
    <3>1. row' = [row EXCEPT ![k.on] = f] /\ Hang(c, Idle) BY <2>4 DEF WriteRow
    <3>2. /\ k.on \in Reports /\ e.task /\ k.seen.status \notin Settled /\ ~k.seen.stamp
      BY <2>4, <1>i DEF WriteRow
    <3>3. e \in Rows /\ (e.stamp <=> e.status = "completed")
      BY <3>2 DEF SandboxInv, SandboxOK, StampedIffCompleted
    <3>4. k.seen.status \in Statuses \union {"none"} /\ k.seen.stamp = FALSE
      BY <1>k, <3>2 DEF Rows
    <3>5. f \in Rows /\ (f.stamp <=> f.status = "completed") /\ f.task = e.task
      <4>1. CASE k.answer = "error" BY <4>1, <3>3 DEF Refreshed
      <4>2. CASE k.answer = "unknown"
        <5> DEFINE g == [e EXCEPT !.status = k.seen.status, !.stamp = k.seen.stamp]
        <5>1. f = g BY <4>2 DEF Refreshed
        <5>2. g \in Rows /\ g.status = k.seen.status /\ g.stamp = FALSE /\ g.task = e.task
          BY <3>3, <3>4 DEF Rows
        <5> QED BY <5>1, <5>2, <3>2 DEF Settled
      <4>3. CASE k.answer \notin {"error", "unknown"}
        <5> DEFINE g == [e EXCEPT !.status = k.answer,
                                  !.stamp = k.answer = "completed" \/ k.seen.stamp]
        <5>1. f = g BY <4>3 DEF Refreshed
        <5>2. k.answer \in Statuses BY <4>3, <1>k DEF Answers
        <5>3. g \in Rows /\ g.status = k.answer /\ (g.stamp <=> k.answer = "completed") /\ g.task = e.task
          BY <3>3, <3>4, <5>2 DEF Rows
        <5> QED BY <5>1, <5>3
      <4> QED BY <4>1, <4>2, <4>3
    <3>6. RowOK BY <3>1, <3>2, <3>3, <3>5, RowWritten
    <3>7. submission[k.on] = "over" BY <3>2 DEF SandboxInv, Untracked
    <3>8. Untracked' BY <3>1, <3>7, <1>s DEF SandboxInv, SandboxOK, Untracked
    <3>9. CallOK BY <3>1, <3>6, IdleCall DEF SandboxInv, SandboxOK, ReadUnsettled, Hang
    <3> QED BY <3>6, <3>8, <3>9
  <2>5. CASE RefreshThrows(c)
    <3>1. UNCHANGED row /\ Hang(c, Idle) BY <2>5 DEF RefreshThrows
    <3>2. CallOK BY <3>1, IdleCall, CallChanged
    <3> QED BY <3>1, <3>2, <1>u
  <2> QED BY <2>1, <2>2, <2>3, <2>4, <2>5 DEF RefreshStep
<1> QED BY <1>n, <1>s, <1>r DEF SandboxInv, SandboxOK, Grows

LEMMA PollKeeps ==
  ASSUME SandboxInv, Poll \/ NextWindow \/ PollEnds
  PROVE  SandboxInv' /\ Grows
<1>1. UNCHANGED <<row, submission, vendor, old, losses>> BY DEF Poll, NextWindow, PollEnds
<1>2. polling' \in BOOLEAN /\ due' \in SUBSET Reports
  BY DEF Poll, NextWindow, PollEnds, SandboxInv, SandboxOK
<1>3. call' \in [Callers -> Calls] /\ ReadUnsettled'
  <2>1. CASE UNCHANGED call BY <2>1, <1>1, CallsStay
  <2>2. CASE NextWindow
    <3>1. PICK on \in [Slots -> due \union {None}] :
            call' = [c \in Callers |->
                      IF c \in Slots /\ on[c] # None THEN Begun(on[c]) ELSE call[c]]
      BY <2>2 DEF NextWindow
    <3>2. due \in SUBSET Reports /\ call \in [Callers -> Calls] BY DEF SandboxInv, SandboxOK
    <3>3. ASSUME NEW c \in Callers
          PROVE  \/ call'[c] = call[c]
                 \/ call'[c] \in Calls /\ call'[c].phase = "read" /\ call'[c].on \in Reports
      <4>1. CASE c \in Slots /\ on[c] # None
        <5>1. on[c] \in Reports BY <4>1, <3>2
        <5> QED BY <5>1, <4>1, <3>1, IdleCall
      <4>2. CASE ~(c \in Slots /\ on[c] # None) BY <4>2, <3>1
      <4> QED BY <4>1, <4>2
    <3>4. call' \in [Callers -> Calls] BY <3>1, <3>2, IdleCall
    <3> QED BY <3>3, <3>4, <1>1 DEF SandboxInv, ReadUnsettled
  <2> QED BY <2>1, <2>2 DEF Poll, PollEnds
<1> QED BY <1>1, <1>2, <1>3 DEF SandboxInv, SandboxOK, StampedIffCompleted, Untracked, Grows

LEMMA DeathKeeps ==
  ASSUME SandboxInv, NEW S \in SUBSET Reports, NEW C, NEW p \in BOOLEAN, Dies(S, C, p)
  PROVE  SandboxInv' /\ Grows /\ losses' > 0
<1>1. UNCHANGED <<row, vendor, old>> BY DEF Dies
<1>2. losses \in 0..MaxLosses /\ losses < MaxLosses /\ losses' = losses + 1
  BY DEF Dies, Lose, SandboxInv, SandboxOK
<1>3. polling' \in BOOLEAN /\ due' \in SUBSET Reports /\ submission' \in [Reports -> Stages]
  BY DEF Dies, SandboxInv, SandboxOK, Stages
<1>4. Untracked' BY <1>1 DEF Dies, SandboxInv, SandboxOK, Untracked
<1>5. call' \in [Callers -> Calls] /\ ReadUnsettled'
  BY <1>1, IdleCall DEF Dies, SandboxInv, SandboxOK, ReadUnsettled
<1>6. losses' \in 0..MaxLosses /\ losses' \in Nat /\ losses' >= losses /\ losses' > 0 BY <1>2
<1> QED
  BY <1>1, <1>3, <1>4, <1>5, <1>6 DEF SandboxInv, SandboxOK, StampedIffCompleted, Grows

LEMMA SandboxKeeps == SandboxInv /\ SandboxNext => SandboxInv' /\ Grows
BY SubmissionKeeps, RefreshKeeps, PollKeeps DEF SandboxNext

LEMMA SandboxStutters == SandboxInv /\ UNCHANGED svars => SandboxInv' /\ Grows
BY DEF SandboxInv, SandboxOK, StampedIffCompleted, Untracked, ReadUnsettled, Grows, svars

LEMMA SandboxStarts == SandboxInit => SandboxInv
<1> SUFFICES ASSUME SandboxInit PROVE SandboxInv OBVIOUS
<1>1. NoRow \in Rows /\ ~NoRow.stamp /\ ~NoRow.task /\ NoRow.status = "none" BY DEF Rows, NoRow
<1>2. SandboxOK
  <2>1. row \in [Reports -> Rows] /\ call \in [Callers -> Calls] BY <1>1, IdleCall DEF SandboxInit
  <2>2. submission \in [Reports -> Stages] BY DEF SandboxInit, Stages
  <2>3. vendor \in [Reports -> Statuses \union {"none"}] BY DEF SandboxInit
  <2>4. polling \in BOOLEAN /\ due \in SUBSET Reports /\ old \in SUBSET Reports BY DEF SandboxInit
  <2>5. losses \in 0..MaxLosses BY DEF SandboxInit
  <2> QED BY <2>1, <2>2, <2>3, <2>4, <2>5 DEF SandboxOK
<1>3. StampedIffCompleted BY <1>1 DEF SandboxInit, StampedIffCompleted
<1>4. Untracked BY <1>1 DEF SandboxInit, Untracked
<1>5. ReadUnsettled BY IdleCall DEF SandboxInit, ReadUnsettled
<1> QED BY <1>2, <1>3, <1>4, <1>5 DEF SandboxInv

\* A step of sandbox reports on their own.
SandboxStep ==
  \/ SandboxNext
  \/ \E S \in SUBSET Reports, C \in SUBSET Requests, p \in BOOLEAN : Dies(S, C, p)

LEMMA SandboxInvariant == SandboxSpec => []SandboxInv
<1>1. SandboxInv /\ [SandboxStep]_svars => SandboxInv'
  BY SandboxKeeps, DeathKeeps, SandboxStutters DEF SandboxStep
<1> QED BY <1>1, SandboxStarts, PTL DEF SandboxSpec, SandboxStep

-----------------------------------------------------------------------------
(* Executions *)

\* What holds of an execution's record e when the reports are T and n losses have occurred:
\* one that has not failed has had all it submitted accepted, but for the one it waits for.
ExecOK(e, T, n) ==
  /\ e.status \in {"completed", "failed"} => e.phase = "idle"
  /\ e.status = "completed" => e.good
  /\ e.phase = "spawned" => e.status = "none"
  /\ e.phase = "submitting" => e.on \in Reports
  /\ e.status = "running" /\ e.phase = "idle" => n > 0
  /\ e.good /\ (e.phase # "idle" \/ e.status = "completed") =>
       \A r \in e.reports : T[r].task \/ (e.phase = "submitting" /\ r = e.on)

ExecInv == \A x \in Execs : ExecOK(exec[x], row, losses)

Inv == SandboxInv /\ PlaybooksOK /\ ExecInv

USE PlaybookAssumption

\* What the reports gain and what is lost does not hurt an execution.
LEMMA ExecStays ==
  ASSUME SandboxInv, Grows, NEW e \in Executions, ExecOK(e, row, losses)
  PROVE  ExecOK(e, row', losses')
BY DEF SandboxInv, SandboxOK, Grows, ExecOK, Executions

LEMMA ExecChanged ==
  ASSUME SandboxInv, PlaybooksOK, ExecInv, Grows,
         NEW x \in Execs, NEW e \in Executions, Become(x, e), ExecOK(e, row', losses'),
         UNCHANGED <<kept, enabled, events>>, eval' \in [Evaluators -> Evaluations]
  PROVE  PlaybooksOK' /\ ExecInv'
<1>1. \A y \in Execs : exec[y] \in Executions /\ ExecOK(exec[y], row, losses)
  BY DEF PlaybooksOK, ExecInv
<1>2. exec' \in [Execs -> Executions] BY DEF PlaybooksOK, Become
<1>3. ASSUME NEW y \in Execs PROVE ExecOK(exec'[y], row', losses')
  <2>1. CASE y = x BY <2>1 DEF PlaybooksOK, Become
  <2>2. CASE y # x
    <3>1. exec'[y] = exec[y] BY <2>2 DEF PlaybooksOK, Become
    <3> QED BY <3>1, <1>1, ExecStays
  <2> QED BY <2>1, <2>2
<1> QED BY <1>2, <1>3 DEF PlaybooksOK, ExecInv

LEMMA SpawnedOK ==
  \A p \in Playbooks : \A T, n :
    Spawned(p) \in Executions /\ ExecOK(Spawned(p), T, n) /\ Spawned(p).phase # "idle"
BY DEF Spawned, Executions, Phases, ExecOK

LEMMA EvaluationTypes ==
  /\ Over \in Evaluations /\ Over.stage = "over" /\ Over.matched = {}
  /\ Unread \in Evaluations /\ Unread.stage = "begun" /\ Unread.matched = {}
BY DEF Over, Unread, Evaluations

\* An evaluation that goes on, or is interrupted, is one still.
LEMMA LookupKeeps ==
  ASSUME PlaybooksOK, NEW v \in Evaluators, Lookup(v) \/ LookupThrows(v)
  PROVE  PlaybooksOK'
<1>1. UNCHANGED <<kept, enabled, exec, events>> BY DEF Lookup, LookupThrows
<1>2. eval \in [Evaluators -> Evaluations] /\ enabled \subseteq Playbooks BY DEF PlaybooksOK
<1>3. eval[v].matched \subseteq Playbooks BY <1>2 DEF Evaluations
<1>4. \A e, w : Matching(e, w) \subseteq Playbooks BY <1>2 DEF Matching
<1>5. ASSUME NEW st \in {"exact", "all"}, NEW m \in SUBSET Playbooks,
             eval' = [eval EXCEPT ![v] = [stage |-> st, matched |-> m]]
      PROVE  eval' \in [Evaluators -> Evaluations]
  <2>1. [stage |-> st, matched |-> m] \in Evaluations BY DEF Evaluations
  <2> QED BY <1>2, <1>5, <2>1
<1>6. ASSUME LookupThrows(v) PROVE eval' \in [Evaluators -> Evaluations]
  BY <1>5, <1>6 DEF LookupThrows
<1>7. ASSUME Lookup(v) PROVE eval' \in [Evaluators -> Evaluations]
  <2> DEFINE m == Matching(EventOf(v), FALSE)
             n == eval[v].matched \union Matching(EventOf(v), TRUE)
  <2>1. m \in SUBSET Playbooks /\ n \in SUBSET Playbooks BY <1>3, <1>4
  <2>2. \/ eval' = [eval EXCEPT ![v] = [stage |-> "exact", matched |-> m]]
        \/ eval' = [eval EXCEPT ![v] = [stage |-> "all", matched |-> n]]
    BY <1>2, <1>7 DEF Lookup
  <2> HIDE DEF m, n
  <2> QED BY <1>5, <2>1, <2>2
<1>8. eval' \in [Evaluators -> Evaluations] BY <1>6, <1>7
<1> QED BY <1>1, <1>8 DEF PlaybooksOK

\* Spawning into a state in which each execution is as it should be.
LEMMA SpawnKeeps ==
  ASSUME SandboxInv, PlaybooksOK, UNCHANGED svars, NEW v \in Evaluators, NEW S,
         NEW now \in [Execs -> Executions],
         \A x \in Execs : ExecOK(now[x], row, losses),
         Spawn(v, S, now)
  PROVE  PlaybooksOK' /\ ExecInv'
<1>1. PICK at \in [S -> Execs] :
        exec' = [x \in Execs |-> IF \E p \in S : at[p] = x
                                 THEN Spawned(CHOOSE p \in S : at[p] = x) ELSE now[x]]
  BY DEF Spawn
<1>2. S \subseteq Playbooks BY DEF Spawn, Evaluations, PlaybooksOK
<1>3. ASSUME NEW x \in Execs
      PROVE  exec'[x] \in Executions /\ ExecOK(exec'[x], row, losses)
  <2>1. CASE \E p \in S : at[p] = x
    <3>1. (CHOOSE p \in S : at[p] = x) \in Playbooks BY <2>1, <1>2
    <3>2. exec'[x] = Spawned(CHOOSE p \in S : at[p] = x) BY <1>1, <2>1
    <3> QED BY <3>1, <3>2, SpawnedOK
  <2>2. CASE ~ \E p \in S : at[p] = x BY <2>2, <1>1
  <2> QED BY <2>1, <2>2
<1>4. exec' \in [Execs -> Executions] BY <1>1, <1>3
<1>5. row' = row /\ losses' = losses BY DEF svars
<1>6. eval' \in [Evaluators -> Evaluations] BY EvaluationTypes DEF Spawn, PlaybooksOK
<1>7. UNCHANGED <<kept, enabled, events>> BY DEF Spawn
<1> QED BY <1>3, <1>4, <1>5, <1>6, <1>7 DEF ExecInv, PlaybooksOK

\* The record After describes, when a success means that all is accepted.
LEMMA AfterOK ==
  ASSUME PlaybooksOK, ExecInv, NEW x \in Execs, NEW success \in BOOLEAN,
         exec[x].phase \in {"acting", "submitting", "notifying"},
         exec[x].phase = "submitting" /\ success => row[exec[x].on].task
  PROVE  After(x, success) \in Executions /\ ExecOK(After(x, success), row, losses)
<1> DEFINE e == exec[x]
           f == After(x, success)
<1>1. e \in Executions /\ ExecOK(e, row, losses) BY DEF PlaybooksOK, ExecInv
<1>2. e.at \in Nat \ {0} /\ e.good \in BOOLEAN /\ e.phase \in Phases BY <1>1 DEF Executions
<1>3. /\ f \in Executions /\ f.phase \in {"acting", "closing"} /\ f.status = e.status
      /\ f.reports = e.reports /\ (f.good <=> e.good /\ success)
  <2>1. e.at + 1 \in Nat \ {0} BY <1>2
  <2> DEFINE ph == IF success \/ Action(x).goesOn THEN "acting" ELSE "closing"
             g == [e EXCEPT !.phase = ph, !.at = e.at + 1, !.good = e.good /\ success]
  <2>2. f = g BY DEF After
  <2>3. ph \in {"acting", "closing"} OBVIOUS
  <2>4. g \in Executions BY <1>1, <1>2, <2>1, <2>3 DEF Executions, Phases
  <2>5. g.phase = ph /\ g.status = e.status /\ g.reports = e.reports /\ g.good = (e.good /\ success)
    BY <1>1 DEF Executions
  <2> HIDE DEF f, g, ph
  <2> QED BY <2>2, <2>3, <2>4, <2>5
<1>4. e.status \notin {"completed", "failed"} BY <1>1 DEF ExecOK
<1>5. ASSUME f.good, NEW r \in f.reports PROVE row[r].task
  BY <1>1, <1>3, <1>5 DEF ExecOK
<1> QED BY <1>3, <1>4, <1>5 DEF ExecOK
LEMMA SvarsStay == SandboxInv /\ UNCHANGED svars => Grows /\ row' = row /\ losses' = losses
BY SandboxStutters DEF svars

\* A change of one execution while the reports stay.
LEMMA ExecSteps ==
  ASSUME Inv, UNCHANGED svars, NEW x \in Execs, NEW e \in Executions,
         Become(x, e), ExecOK(e, row, losses), UNCHANGED <<kept, enabled, events>>,
         eval' \in [Evaluators -> Evaluations]
  PROVE  PlaybooksOK' /\ ExecInv'
BY SvarsStay, ExecChanged DEF Inv

LEMMA ExecStepKeeps ==
  ASSUME Inv, UNCHANGED svars, NEW x \in Execs, ExecStep(x)
  PROVE  PlaybooksOK' /\ ExecInv'
<1> DEFINE e == exec[x]
<1>1. e \in Executions /\ ExecOK(e, row, losses) BY DEF Inv, PlaybooksOK, ExecInv
<1>2. PlaybooksOK /\ ExecInv /\ SandboxInv BY DEF Inv
<1>t. eval \in [Evaluators -> Evaluations] BY <1>2 DEF PlaybooksOK
<1>3. /\ e.phase \in Phases /\ e.good \in BOOLEAN /\ e.at \in Nat \ {0}
      /\ e.status \in {"none", "running", "completed", "failed"}
  BY <1>1 DEF Executions
<1>4. CASE Begin(x)
  <2> DEFINE f == [e EXCEPT !.phase = "acting", !.status = "running"]
             g == [e EXCEPT !.phase = "idle"]
  <2>1. Become(x, IF e.pb \in kept THEN f ELSE g) /\ e.phase = "spawned"
        /\ UNCHANGED <<kept, enabled, eval, events>>
    BY <1>4 DEF Begin
  <2>2. f \in Executions /\ ExecOK(f, row, losses)
    BY <1>1, <2>1 DEF Executions, Phases, ExecOK
  <2>3. e.status = "none" BY <1>1, <2>1 DEF ExecOK
  <2>4. g \in Executions /\ g.phase = "idle" /\ g.status = e.status
    BY <1>1 DEF Executions, Phases
  <2>5. ExecOK(g, row, losses) BY <2>3, <2>4 DEF ExecOK
  <2> HIDE DEF f, g
  <2> QED BY <2>1, <2>2, <2>4, <2>5, <1>t, ExecSteps
<1>5. CASE Skip(x)
  <2>1. e.phase = "acting" /\ Become(x, After(x, TRUE)) /\ UNCHANGED <<kept, enabled, eval, events>>
    BY <1>5 DEF Skip, Reaches
  <2>2. After(x, TRUE) \in Executions /\ ExecOK(After(x, TRUE), row, losses)
    BY <2>1, <1>2, AfterOK
  <2> QED BY <2>1, <2>2, <1>t, ExecSteps
<1>6. CASE TriggerFails(x)
  <2>1. e.phase = "acting" /\ Become(x, After(x, FALSE)) /\ UNCHANGED <<kept, enabled, eval, events>>
    BY <1>6 DEF TriggerFails, Reaches
  <2>2. After(x, FALSE) \in Executions /\ ExecOK(After(x, FALSE), row, losses)
    BY <2>1, <1>2, AfterOK
  <2> QED BY <2>1, <2>2, <1>t, ExecSteps
<1>7. CASE TriggerEnds(x)
  <2> DEFINE s == Submitted(e.on)
  <2>1. e.phase = "submitting" /\ Become(x, After(x, s)) /\ UNCHANGED <<kept, enabled, eval, events>>
    BY <1>7 DEF TriggerEnds
  <2>2. e.on \in Reports BY <1>1, <2>1 DEF ExecOK
  <2>3. s \in BOOLEAN /\ (s => row[e.on].task)
    BY <2>2 DEF Submitted, Inv, SandboxInv, SandboxOK, Rows
  <2>4. After(x, s) \in Executions /\ ExecOK(After(x, s), row, losses)
    BY <2>1, <2>3, <1>2, AfterOK
  <2> QED BY <2>1, <2>4, <1>t, ExecSteps
<1>8. CASE Close(x)
  <2> DEFINE st == IF e.status = "none" THEN e.status
                   ELSE IF e.good THEN "completed" ELSE "failed"
             f == [e EXCEPT !.phase = "idle", !.status = st]
  <2>1. Become(x, f) /\ Closes(x) /\ UNCHANGED <<kept, enabled, eval, events>> BY <1>8 DEF Close
  <2>2. e.phase \in {"acting", "closing"} BY <2>1 DEF Closes
  <2>3. f \in Executions /\ f.phase = "idle" /\ f.status = st /\ f.good = e.good
        /\ f.reports = e.reports
    BY <1>1, <1>3 DEF Executions, Phases
  <2>4. st # "running" /\ (st = "completed" => e.good) OBVIOUS
  <2>5. ExecOK(f, row, losses) BY <1>1, <2>2, <2>3, <2>4 DEF ExecOK
  <2> QED BY <2>1, <2>3, <2>5, <1>t, ExecSteps
<1>9. ASSUME NEW ok \in BOOLEAN, Effect(x, ok) PROVE PlaybooksOK' /\ ExecInv'
  <2>1. e.phase = "acting" /\ Become(x, After(x, ok)) /\ UNCHANGED <<kept, enabled, eval, events>>
    BY <1>9 DEF Effect, Reaches
  <2>2. After(x, ok) \in Executions /\ ExecOK(After(x, ok), row, losses)
    BY <2>1, <1>2, AfterOK
  <2> QED BY <2>1, <2>2, <1>t, ExecSteps
<1>10. CASE Notify(x)
  <2> DEFINE f == [e EXCEPT !.phase = "notifying"]
  <2>1. /\ e.phase = "acting" /\ Become(x, f)
        /\ UNCHANGED <<kept, enabled, events>> /\ eval' = [eval EXCEPT ![x] = Unread]
    BY <1>10 DEF Notify, Reaches
  <2>2. eval' \in [Evaluators -> Evaluations] BY <2>1, <1>t, EvaluationTypes
  <2>3. /\ f \in Executions /\ f.phase = "notifying" /\ f.status = e.status
        /\ f.good = e.good /\ f.reports = e.reports
    BY <1>1 DEF Executions, Phases
  <2> HIDE DEF f
  <2>4. ExecOK(f, row, losses) BY <1>1, <2>1, <2>3 DEF ExecOK
  <2> QED BY <2>1, <2>2, <2>3, <2>4, ExecSteps
<1>11. CASE Lookup(x)
  <2>1. PlaybooksOK' BY <1>2, <1>11, LookupKeeps DEF Evaluators
  <2>2. exec' = exec /\ row' = row /\ losses' = losses
    BY <1>2, <1>11, SvarsStay DEF Lookup
  <2> QED BY <1>2, <2>1, <2>2 DEF ExecInv
<1>12. ASSUME NEW ok \in BOOLEAN, NEW S \in SUBSET Playbooks, Notified(x, ok, S)
       PROVE  PlaybooksOK' /\ ExecInv'
  <2> DEFINE now == [exec EXCEPT ![x] = After(x, ok)]
  <2>1. e.phase = "notifying" BY <1>12 DEF Notified
  <2>2. After(x, ok) \in Executions /\ ExecOK(After(x, ok), row, losses)
    BY <2>1, <1>2, AfterOK
  <2>3. now \in [Execs -> Executions] /\ \A y \in Execs : ExecOK(now[y], row, losses)
    BY <2>2, <1>2 DEF PlaybooksOK, ExecInv
  <2>4. Spawn(x, S, now) /\ x \in Evaluators
    BY <1>12 DEF Notified, Evaluators
  <2> HIDE DEF now
  <2> QED BY <1>2, <2>3, <2>4, SpawnKeeps
<1> QED BY <1>4, <1>5, <1>6, <1>7, <1>8, <1>9, <1>10, <1>11, <1>12 DEF ExecStep

LEMMA PlaybooksKeep ==
  ASSUME Inv, UNCHANGED svars, PlaybooksNext
  PROVE  PlaybooksOK' /\ ExecInv'
<1>1. PlaybooksOK /\ ExecInv /\ SandboxInv BY DEF Inv
<1>2. row' = row /\ losses' = losses BY <1>1, SvarsStay
<1>3. \A y \in Execs : exec[y] \in Executions /\ ExecOK(exec[y], row, losses)
  BY <1>1 DEF PlaybooksOK, ExecInv
<1>t. eval \in [Evaluators -> Evaluations] BY <1>1 DEF PlaybooksOK
<1>4. ASSUME NEW v \in Emitters, Emit(v) \/ EvalStep(v) PROVE PlaybooksOK' /\ ExecInv'
  <2>1. exec \in [Execs -> Executions] /\ v \in Evaluators BY <1>1 DEF PlaybooksOK, Evaluators
  <2>2. CASE Emit(v)
    <3>1. eval' \in [Evaluators -> Evaluations]
      BY <1>t, <2>1, <2>2, EvaluationTypes DEF Emit
    <3>2. exec' = exec /\ kept' = kept /\ enabled' = enabled /\ events' \in 0..MaxEvents
      BY <1>1, <2>2 DEF PlaybooksOK, Emit
    <3> QED BY <1>1, <1>2, <3>1, <3>2 DEF PlaybooksOK, ExecInv
  <2>3. CASE Lookup(v)
    <3>1. PlaybooksOK' /\ exec' = exec BY <1>1, <2>1, <2>3, LookupKeeps DEF Lookup
    <3> QED BY <1>1, <1>2, <3>1 DEF ExecInv
  <2>4. ASSUME NEW S \in SUBSET Playbooks, Spawn(v, S, exec) PROVE PlaybooksOK' /\ ExecInv'
    BY <1>1, <1>3, <2>1, <2>4, SpawnKeeps
  <2> QED BY <1>4, <2>2, <2>3, <2>4 DEF EvalStep
<1>5. ASSUME NEW x \in Execs, NEW p \in Playbooks, RunNow(x, p) PROVE PlaybooksOK' /\ ExecInv'
  <2>1. exec' = [exec EXCEPT ![x] = Spawned(p)] BY <1>5 DEF RunNow
  <2>2. Spawned(p) \in Executions /\ ExecOK(Spawned(p), row, losses) BY SpawnedOK
  <2>3. exec' \in [Execs -> Executions] BY <1>1, <2>1, <2>2 DEF PlaybooksOK
  <2>4. ExecInv' BY <1>1, <1>2, <1>3, <2>1, <2>2 DEF PlaybooksOK, ExecInv
  <2>5. kept' \in SUBSET Playbooks /\ enabled' \in SUBSET kept' /\ events' \in 0..MaxEvents
        /\ eval' = eval
    BY <1>1, <1>5 DEF PlaybooksOK, RunNow
  <2> QED BY <1>t, <2>3, <2>4, <2>5 DEF PlaybooksOK
<1>6. ASSUME NEW p \in Playbooks, Delete(p) PROVE PlaybooksOK' /\ ExecInv'
  <2> DEFINE f(y) == [exec[y] EXCEPT !.status = "none"]
  <2>1. exec' = [y \in Execs |-> IF exec[y].pb = p THEN f(y) ELSE exec[y]] BY <1>6 DEF Delete
  <2>2. ASSUME NEW y \in Execs PROVE f(y) \in Executions /\ ExecOK(f(y), row, losses)
    BY <1>3 DEF Executions, ExecOK
  <2> HIDE DEF f
  <2>3. exec' \in [Execs -> Executions] /\ \A y \in Execs : ExecOK(exec'[y], row, losses)
    BY <1>3, <2>1, <2>2
  <2>4. kept' \in SUBSET Playbooks /\ enabled' \in SUBSET kept' /\ events' \in 0..MaxEvents
        /\ eval' = eval
    BY <1>1, <1>6 DEF PlaybooksOK, Delete
  <2> QED BY <1>2, <1>t, <2>3, <2>4 DEF PlaybooksOK, ExecInv
<1>7. ASSUME NEW p \in Playbooks, NEW on \in BOOLEAN, Enable(p, on) PROVE PlaybooksOK' /\ ExecInv'
  BY <1>1, <1>2, <1>7 DEF PlaybooksOK, ExecInv, Enable
<1>8. ASSUME NEW x \in Execs, ExecStep(x) PROVE PlaybooksOK' /\ ExecInv' BY <1>8, ExecStepKeeps
<1> QED BY <1>4, <1>5, <1>6, <1>7, <1>8 DEF PlaybooksNext

\* Executions whose process dies, or whose statement throws, when that is counted.
LEMMA AbandonedKeeps ==
  ASSUME Inv, Grows, losses' > 0, NEW X \in SUBSET Execs, NEW V, Abandoned(X, V)
  PROVE  PlaybooksOK' /\ ExecInv'
<1>1. PlaybooksOK /\ ExecInv /\ SandboxInv BY DEF Inv
<1>2. ASSUME NEW y \in Execs
      PROVE  exec'[y] \in Executions /\ ExecOK(exec'[y], row', losses')
  <2>1. exec[y] \in Executions /\ ExecOK(exec[y], row, losses)
    BY <1>1 DEF PlaybooksOK, ExecInv
  <2>2. ExecOK(exec[y], row', losses') BY <1>1, <2>1, ExecStays
  <2>3. CASE y \notin X BY <2>1, <2>2, <2>3 DEF Abandoned
  <2>4. CASE y \in X
    <3> DEFINE f == [exec[y] EXCEPT !.phase = "idle"]
    <3>1. exec'[y] = f BY <2>4 DEF Abandoned
    <3>2. f \in Executions /\ f.phase = "idle" /\ f.status = exec[y].status
          /\ f.good = exec[y].good /\ f.reports = exec[y].reports
      BY <2>1 DEF Executions, Phases
    <3> HIDE DEF f
    <3> QED BY <3>1, <3>2, <2>2 DEF ExecOK
  <2> QED BY <2>3, <2>4
<1>3. exec' \in [Execs -> Executions] BY <1>2 DEF Abandoned
<1>4. eval' \in [Evaluators -> Evaluations] BY <1>1, EvaluationTypes DEF Abandoned, PlaybooksOK
<1> QED BY <1>1, <1>2, <1>3, <1>4 DEF PlaybooksOK, ExecInv, Abandoned
-----------------------------------------------------------------------------
(* The composition *)

LEMMA InvNext == Inv /\ Next => Inv'
<1> SUFFICES ASSUME Inv, Next PROVE Inv' OBVIOUS
<1>1. PlaybooksOK /\ ExecInv /\ SandboxInv BY DEF Inv
<1>2. CASE SandboxNext /\ UNCHANGED pvars
  <2>1. SandboxInv' /\ Grows BY <1>1, <1>2, SandboxKeeps
  <2>2. UNCHANGED <<kept, enabled, exec, eval, events>> BY <1>2 DEF pvars
  <2>3. ASSUME NEW x \in Execs PROVE ExecOK(exec[x], row', losses')
    BY <1>1, <2>1, ExecStays DEF PlaybooksOK, ExecInv
  <2> QED BY <1>1, <2>1, <2>2, <2>3 DEF Inv, PlaybooksOK, ExecInv
<1>3. CASE PlaybooksNext /\ UNCHANGED svars
  BY <1>1, <1>3, SandboxStutters, PlaybooksKeep DEF Inv
<1>4. CASE ThrowsSomewhere
  <2>1. UNCHANGED <<row, submission, vendor, call, polling, due, old>> /\ Lose
    BY <1>4 DEF ThrowsSomewhere
  <2>2. losses \in 0..MaxLosses /\ losses' = losses + 1 /\ losses < MaxLosses
    BY <1>1, <2>1 DEF SandboxInv, SandboxOK, Lose
  <2>3. losses' \in 0..MaxLosses /\ losses' \in Nat /\ losses' >= losses /\ losses' > 0
    BY <2>2
  <2>4. SandboxInv' /\ Grows
    BY <1>1, <2>1, <2>3
      DEF SandboxInv, SandboxOK, StampedIffCompleted, Untracked, ReadUnsettled, Grows
  <2>5. ASSUME NEW x \in Execs, StatementThrows(x) PROVE PlaybooksOK' /\ ExecInv'
    BY <2>3, <2>4, <2>5, AbandonedKeeps DEF StatementThrows
  <2>6. ASSUME NEW v \in Evaluators, LookupThrows(v) PROVE PlaybooksOK' /\ ExecInv'
    <3>1. PlaybooksOK' /\ exec' = exec BY <1>1, <2>6, LookupKeeps DEF LookupThrows
    <3>2. ASSUME NEW x \in Execs PROVE ExecOK(exec[x], row', losses')
      BY <1>1, <2>4, ExecStays DEF PlaybooksOK, ExecInv
    <3> QED BY <3>1, <3>2 DEF ExecInv
  <2> QED BY <1>4, <2>4, <2>5, <2>6 DEF Inv, ThrowsSomewhere
<1>5. ASSUME NEW x \in Execs, NEW r \in Reports, SandboxTrigger(x, r) PROVE Inv'
  <2> DEFINE e == exec[x]
             f == [e EXCEPT !.phase = "submitting", !.reports = e.reports \union {r}, !.on = r]
  <2>1. e \in Executions /\ ExecOK(e, row, losses) BY <1>1 DEF PlaybooksOK, ExecInv
  <2>2. SandboxInv' /\ Grows
    BY <1>1, <1>5, SubmissionKeeps DEF SandboxTrigger, SubmissionStep
  <2>3. e.phase = "acting" /\ Become(x, f) /\ UNCHANGED <<kept, enabled, eval, events>>
    BY <1>5 DEF SandboxTrigger, Trigger, Reaches
  <2>4. /\ f \in Executions /\ f.phase = "submitting" /\ f.status = e.status /\ f.on = r
        /\ f.good = e.good /\ f.reports = e.reports \union {r}
    BY <2>1 DEF Executions, Phases
  <2>5. ExecOK(e, row', losses') BY <1>1, <2>1, <2>2, ExecStays
  <2> HIDE DEF f
  <2>6. ExecOK(f, row', losses') BY <2>3, <2>4, <2>5 DEF ExecOK
  <2>7. eval' \in [Evaluators -> Evaluations] BY <1>1, <2>3 DEF PlaybooksOK
  <2> QED BY <1>1, <2>2, <2>3, <2>4, <2>6, <2>7, ExecChanged DEF Inv
<1>6. ASSUME NEW X \in SUBSET Execs, NEW V \in SUBSET Emitters, NEW S \in SUBSET Reports,
             NEW C \in SUBSET Requests, NEW p \in BOOLEAN, ProcessDies(X, V, S, C, p)
      PROVE  Inv'
  <2>1. SandboxInv' /\ Grows /\ losses' > 0 BY <1>1, <1>6, DeathKeeps DEF ProcessDies
  <2>2. PlaybooksOK' /\ ExecInv' BY <1>6, <2>1, AbandonedKeeps DEF ProcessDies
  <2> QED BY <2>1, <2>2 DEF Inv
<1> QED BY <1>2, <1>3, <1>4, <1>5, <1>6 DEF Next

LEMMA InvInit == Init => Inv
<1> SUFFICES ASSUME Init PROVE Inv OBVIOUS
<1>1. SandboxInv BY SandboxStarts DEF Init
<1>2. ASSUME NEW x \in Execs
      PROVE  exec[x] \in Executions /\ ExecOK(exec[x], row, losses)
  <2>1. PICK p \in Playbooks : exec[x] = [Spawned(p) EXCEPT !.phase = "idle"]
    BY DEF Init, PlaybooksInit
  <2> DEFINE e == Spawned(p)
             f == [e EXCEPT !.phase = "idle"]
  <2>2. e \in Executions /\ e.status = "none" BY SpawnedOK DEF Spawned
  <2> HIDE DEF e
  <2>3. f \in Executions /\ f.phase = "idle" /\ f.status = "none"
    BY <2>2 DEF Executions, Phases
  <2>4. exec[x] = f BY <2>1 DEF e
  <2> HIDE DEF f
  <2> QED BY <2>3, <2>4 DEF ExecOK
<1>3. PlaybooksOK
  <2>1. exec \in [Execs -> Executions] BY <1>2 DEF Init, PlaybooksInit
  <2>2. eval \in [Evaluators -> Evaluations] BY EvaluationTypes DEF Init, PlaybooksInit
  <2> QED BY <2>1, <2>2 DEF Init, PlaybooksInit, PlaybooksOK
<1> QED BY <1>1, <1>2, <1>3 DEF Inv, ExecInv

LEMMA Invariant == Spec => []Inv
<1>1. Inv /\ [Next]_vars => Inv'
  <2>1. Inv /\ UNCHANGED vars => Inv'
    <3> SUFFICES ASSUME Inv, UNCHANGED vars PROVE Inv' OBVIOUS
    <3>1. UNCHANGED svars /\ UNCHANGED <<kept, enabled, exec, eval, events>> BY DEF vars, pvars
    <3>2. SandboxInv' /\ row' = row /\ losses' = losses
      BY <3>1, SandboxStutters, SvarsStay DEF Inv
    <3> QED BY <3>1, <3>2 DEF Inv, PlaybooksOK, ExecInv
  <2> QED BY <2>1, InvNext
<1> QED BY <1>1, InvInit, PTL DEF Spec

\* Whatever overlaps, fails or dies, every variable keeps its type.
THEOREM TypeCorrect == Spec => []TypeOK
<1>1. Inv => TypeOK BY DEF Inv, SandboxInv, TypeOK
<1> QED BY <1>1, Invariant, PTL

\* completed_at is set exactly when a report is completed, in whatever order the answers
\* of overlapping refreshes are written (refreshSandboxReport updates without a condition):
\* with requests and the poller alone, and with playbooks beside them.
THEOREM StampedIffCompletedHolds ==
  (SandboxSpec => []StampedIffCompleted) /\ (Spec => []StampedIffCompleted)
<1>1. Inv => StampedIffCompleted BY DEF Inv, SandboxInv
<1>2. SandboxInv => StampedIffCompleted BY DEF SandboxInv
<1> QED BY <1>1, <1>2, Invariant, SandboxInvariant, PTL

\* Only a lost process or statement leaves an execution's row running behind
\* (executePlaybook has one UPDATE, after all that may throw is caught).
THEOREM RunningHasCauseHolds == Spec => []RunningHasCause
<1>1. Inv => RunningHasCause BY DEF Inv, ExecInv, ExecOK, RunningHasCause, Under
<1> QED BY <1>1, Invariant, PTL

\* A completed execution's submissions were all accepted by the vendor
\* (sandbox_trigger's success is outcome.submitted).
THEOREM CompletedIsTrackedHolds == Spec => []CompletedIsTracked
<1>1. Inv => CompletedIsTracked
  <2> SUFFICES ASSUME Inv, NEW x \in Execs, exec[x].status = "completed",
                      NEW r \in exec[x].reports
               PROVE  row[r].task
    BY DEF CompletedIsTracked
  <2> QED BY DEF Inv, ExecInv, ExecOK
<1> QED BY <1>1, Invariant, PTL
-----------------------------------------------------------------------------
(* What playbooks add to the sandbox *)

\* A death that takes no submission, refresh or poll along.
LEMMA LossOnly ==
  ASSUME SandboxOK, Lose,
         UNCHANGED <<row, submission, vendor, call, polling, due, old>>
  PROVE  Dies({}, {}, FALSE)
<1>1. submission' = [r \in Reports |-> IF r \in {} THEN "over" ELSE submission[r]]
  BY DEF SandboxOK
<1>2. call' = [c \in Callers |-> IF c \in {} \/ (FALSE /\ c \in Slots) THEN Idle ELSE call[c]]
  BY DEF SandboxOK
<1>3. polling' = (polling /\ ~FALSE)
  BY DEF SandboxOK
<1> QED BY <1>1, <1>2, <1>3 DEF Dies

\* To sandbox reports a playbook is one more submitter: with playbooks, reports do what
\* they do with requests alone (services/sandbox/index.ts does not know its callers).
\* A lost statement of an execution or an evaluation is, to them, the death of a process
\* that runs none of theirs.  So whatever is checked of Sandbox holds under Automation as well.
THEOREM ImplementsSandbox == Spec => SandboxSpec
<1>1. Init => SandboxInit
  BY DEF Init
<1>2. Inv /\ [Next]_vars => [SandboxStep]_svars
  <2> SUFFICES ASSUME Inv, [Next]_vars PROVE [SandboxStep]_svars
    OBVIOUS
  <2>1. SandboxNext => SandboxStep
    BY DEF SandboxStep
  <2>2. UNCHANGED vars => UNCHANGED svars
    BY DEF vars
  <2>3. CASE ThrowsSomewhere
    <3>1. Dies({}, {}, FALSE)
      BY <2>3, LossOnly DEF ThrowsSomewhere, Inv, SandboxInv
    <3> QED BY <3>1 DEF SandboxStep
  <2>4. ASSUME NEW x \in Execs, NEW r \in Reports, SandboxTrigger(x, r) PROVE SandboxStep
    BY <2>4 DEF SandboxTrigger, SandboxNext, SubmissionStep, SandboxStep
  <2>5. ASSUME NEW X \in SUBSET Execs, NEW V \in SUBSET Emitters, NEW S \in SUBSET Reports,
               NEW C \in SUBSET Requests, NEW p \in BOOLEAN, ProcessDies(X, V, S, C, p)
        PROVE  SandboxStep
    BY <2>5 DEF ProcessDies, SandboxStep
  <2> QED BY <2>1, <2>2, <2>3, <2>4, <2>5 DEF Next
<1> QED BY <1>1, <1>2, Invariant, PTL DEF Spec, SandboxSpec, SandboxStep

-----------------------------------------------------------------------------
(* What a row says of the vendor's task *)

\* A task that has ended stays as it has ended.
LEMMA EndingStays ==
  ASSUME SandboxInv, [SandboxStep]_svars, NEW r \in Reports,
         row[r].task, vendor[r] \in Final
  PROVE  vendor'[r] = vendor[r]
<1>1. submission[r] = "over"
  BY DEF SandboxInv, Untracked
<1>2. vendor \in [Reports -> Statuses \union {"none"}]
  BY DEF SandboxInv, SandboxOK
<1>3. ASSUME NEW q \in Reports, SubmissionStep(q) \/ VendorWorks(q) \/ DayPasses(q)
      PROVE  vendor'[r] = vendor[r]
  <2>1. CASE Dispatched(q)
    BY <1>1, <1>2, <2>1 DEF Dispatched
  <2>2. CASE VendorWorks(q)
    BY <1>2, <2>2 DEF VendorWorks, Final, Settled
  <2>3. CASE UNCHANGED vendor
    BY <2>3
  <2> QED
    BY <1>3, <2>1, <2>2, <2>3 DEF SubmissionStep, Submit, Accepted, Refused, SubmitThrows, DayPasses
<1>4. CASE \E c \in Callers : RefreshStep(c)
  BY <1>4 DEF RefreshStep, Request, ReadRow, Answer, WriteRow, RefreshThrows
<1>5. CASE Poll \/ NextWindow \/ PollEnds
  BY <1>5 DEF Poll, NextWindow, PollEnds
<1>6. CASE \E S \in SUBSET Reports, C \in SUBSET Requests, p \in BOOLEAN : Dies(S, C, p)
  BY <1>6 DEF Dies
<1>7. CASE UNCHANGED svars
  BY <1>7 DEF svars
<1> QED BY <1>3, <1>4, <1>5, <1>6, <1>7 DEF SandboxStep, SandboxNext

\* A row that says its task has ended says how it has; refreshes on their way have read
\* and been told no other ending.
RowTrue(r) == row[r].task /\ row[r].status \in Final => vendor[r] = row[r].status
CallTrue(c) ==
  /\ call[c].phase \in {"ask", "write"} /\ call[c].seen.status \in Final =>
       vendor[call[c].on] = call[c].seen.status
  /\ call[c].phase = "write" /\ call[c].answer \in Final =>
       vendor[call[c].on] = call[c].answer
AllTrue == (\A r \in Reports : RowTrue(r)) /\ \A c \in Callers : CallTrue(c)

LEMMA RowTrueStays ==
  ASSUME SandboxInv, [SandboxStep]_svars, NEW r \in Reports, RowTrue(r), row'[r] = row[r]
  PROVE  RowTrue(r)'
BY EndingStays DEF RowTrue

LEMMA CallTrueStays ==
  ASSUME SandboxInv, [SandboxStep]_svars, NEW c \in Callers, CallTrue(c),
         call'[c] = call[c] \/ call'[c].phase \in {"idle", "read"}
  PROVE  CallTrue(c)'
<1>1. CASE call'[c].phase \in {"idle", "read"}
  BY <1>1 DEF CallTrue
<1>2. CASE call'[c] = call[c] /\ call[c].phase \in {"ask", "write"}
  <2> DEFINE r == call[c].on
  <2>1. r \in Reports /\ row[r].task
    BY <1>2 DEF SandboxInv, ReadUnsettled
  <2>2. vendor[r] \in Final => vendor'[r] = vendor[r]
    BY <2>1, EndingStays
  <2> QED BY <1>2, <2>2 DEF CallTrue
<1>3. CASE call'[c] = call[c] /\ call[c].phase \notin {"ask", "write"}
  BY <1>3 DEF CallTrue
<1> QED BY <1>1, <1>2, <1>3

\* What a refresh makes of a row and of itself.
LEMMA RefreshTrue ==
  ASSUME SandboxInv, AllTrue, NEW c \in Callers, RefreshStep(c)
  PROVE  AllTrue'
<1> DEFINE k == call[c]
<1>0. [SandboxStep]_svars
  BY DEF SandboxStep, SandboxNext
<1>1. /\ k \in Calls /\ call \in [Callers -> Calls] /\ row \in [Reports -> Rows]
      /\ vendor' = vendor
  BY DEF SandboxInv, SandboxOK, RefreshStep, Request, ReadRow, Answer, WriteRow, RefreshThrows
<1>2. k.phase # "idle" => k.on \in Reports
  BY DEF SandboxInv, ReadUnsettled
<1>3. \A r \in Reports : RowTrue(r)
  BY DEF AllTrue
<1>4. CallTrue(c) /\ \A d \in Callers : CallTrue(d)
  BY DEF AllTrue
<1>5. ASSUME NEW n \in Calls, Hang(c, n), CallTrue(c)' PROVE \A d \in Callers : CallTrue(d)'
  <2>1. \A d \in Callers : d # c => call'[d] = call[d]
    BY <1>1, <1>5 DEF Hang
  <2> QED BY <1>0, <1>4, <1>5, <2>1, CallTrueStays
<1>6. ASSUME NEW n \in Calls, Hang(c, n), n.phase \in {"idle", "read"}
      PROVE  \A d \in Callers : CallTrue(d)'
  <2>1. call'[c] = n
    BY <1>1, <1>6 DEF Hang
  <2>2. CallTrue(c)'
    BY <1>0, <1>4, <1>6, <2>1, CallTrueStays
  <2> QED BY <1>5, <1>6, <2>2
<1>7. ASSUME row' = row PROVE \A r \in Reports : RowTrue(r)'
  BY <1>0, <1>3, <1>7, RowTrueStays
<1>8. ASSUME NEW r \in Reports, Request(c, r) PROVE AllTrue'
  BY <1>6, <1>7, <1>8, IdleCall DEF Request, AllTrue
<1>9. CASE ReadRow(c)
  <2> DEFINE e == row[k.on]
             n == [k EXCEPT !.phase = "ask", !.seen = e]
  <2>1. k.on \in Reports /\ e \in Rows /\ row' = row
    BY <1>1, <1>2, <1>9 DEF ReadRow
  <2>2. CASE Needless(e)
    <3>1. Hang(c, Idle)
      BY <1>9, <2>2 DEF ReadRow
    <3> QED BY <1>6, <1>7, <2>1, <3>1, IdleCall DEF AllTrue
  <2>3. CASE ~Needless(e)
    <3>1. n \in Calls /\ n.phase = "ask" /\ n.on = k.on /\ n.seen = e
      BY <1>1, <2>1 DEF Calls
    <3>2. Hang(c, n)
      BY <1>9, <2>3 DEF ReadRow
    <3>3. call'[c] = n
      BY <1>1, <3>2 DEF Hang
    <3>4. e.task /\ RowTrue(k.on)
      BY <1>3, <2>1, <2>3 DEF Needless
    <3> HIDE DEF n
    <3>5. CallTrue(c)'
      BY <1>1, <3>1, <3>3, <3>4 DEF CallTrue, RowTrue
    <3> QED BY <1>5, <1>7, <2>1, <3>1, <3>2, <3>5 DEF AllTrue
  <2> QED BY <2>2, <2>3
<1>10. ASSUME NEW a \in Answers, Answer(c, a) PROVE AllTrue'
  <2> DEFINE n == [k EXCEPT !.phase = "write", !.answer = a]
  <2>1. n \in Calls /\ n.phase = "write" /\ n.on = k.on /\ n.seen = k.seen /\ n.answer = a
    BY <1>1, <1>10 DEF Calls
  <2>2. Hang(c, n) /\ row' = row /\ k.phase = "ask"
    BY <1>10 DEF Answer
  <2>3. call'[c] = n
    BY <1>1, <2>2 DEF Hang
  <2>4. a \in Final => vendor[k.on] = a
    BY <1>10 DEF Answer, Final, Settled
  <2> HIDE DEF n
  <2>5. CallTrue(c)'
    BY <1>1, <1>4, <2>1, <2>2, <2>3, <2>4 DEF CallTrue
  <2> QED BY <1>5, <1>7, <2>1, <2>2, <2>5 DEF AllTrue
<1>11. CASE WriteRow(c)
  <2>1. PICK r \in Reports : r = k.on
    BY <1>2, <1>11 DEF WriteRow
  <2> DEFINE e == row[r]
             f == Refreshed(e, k.seen, k.answer)
  <2>2. e \in Rows /\ k.phase = "write" /\ Hang(c, Idle)
    BY <1>1, <1>11 DEF WriteRow
  <2>3. row' = [row EXCEPT ![r] = f]
    BY <1>11, <2>1 DEF WriteRow
  <2>4. k.answer \in Answers /\ k.seen \in Rows
    BY <1>1 DEF Calls
  <2>5. f = e \/ f.status = k.seen.status \/ f.status = k.answer
    <3>1. CASE k.answer = "error"
      BY <3>1 DEF Refreshed
    <3>2. CASE k.answer = "unknown"
      BY <2>2, <3>2 DEF Refreshed, Rows
    <3>3. CASE k.answer \notin {"error", "unknown"}
      BY <2>2, <3>3 DEF Refreshed, Rows
    <3> QED BY <3>1, <3>2, <3>3
  <2>6. row'[r] = f /\ \A q \in Reports : q # r => row'[q] = row[q]
    BY <1>1, <2>3
  <2> HIDE DEF f
  <2>7. RowTrue(r)'
    <3>1. CASE f = e
      BY <1>0, <1>3, <2>6, <3>1, RowTrueStays
    <3>2. CASE f.status = k.seen.status
      BY <1>1, <1>4, <2>1, <2>2, <2>6, <3>2 DEF RowTrue, CallTrue
    <3>3. CASE f.status = k.answer
      BY <1>1, <1>4, <2>1, <2>2, <2>6, <3>3 DEF RowTrue, CallTrue
    <3> QED BY <2>5, <3>1, <3>2, <3>3
  <2>8. \A q \in Reports : RowTrue(q)'
    BY <1>0, <1>3, <2>6, <2>7, RowTrueStays
  <2> QED BY <1>6, <2>2, <2>8, IdleCall DEF AllTrue
<1>12. CASE RefreshThrows(c)
  BY <1>6, <1>7, <1>12, IdleCall DEF RefreshThrows, AllTrue
<1> QED BY <1>8, <1>9, <1>10, <1>11, <1>12 DEF RefreshStep

LEMMA StepTrue ==
  ASSUME SandboxInv, AllTrue, [SandboxStep]_svars
  PROVE  AllTrue'
<1> USE DEF AllTrue
<1>1. call \in [Callers -> Calls] /\ row \in [Reports -> Rows]
  BY DEF SandboxInv, SandboxOK
<1>2. ASSUME NEW r \in Reports, SubmissionStep(r) \/ VendorWorks(r) \/ DayPasses(r)
      PROVE  AllTrue'
  <2>1. call' = call /\ \A q \in Reports : q # r => row'[q] = row[q]
    BY <1>1, <1>2 DEF SubmissionStep, Submit, Dispatched, Accepted, Refused, SubmitThrows,
      VendorWorks, DayPasses
  <2>2. \A c \in Callers : CallTrue(c)'
    BY <2>1, CallTrueStays
  <2>3. CASE Submit(r) \/ Refused(r)
    <3>1. ~row[r].task
      BY <2>3 DEF Submit, Refused, SandboxInv, Untracked
    <3>2. row'[r].task = row[r].task
      BY <1>1, <2>3 DEF Submit, Refused, Rows
    <3>3. RowTrue(r)'
      BY <3>1, <3>2 DEF RowTrue
    <3> QED BY <2>1, <2>2, <3>3, RowTrueStays
  <2>4. CASE Accepted(r)
    <3>1. row'[r].status = "running"
      BY <1>1, <2>4 DEF Accepted, Rows
    <3>2. RowTrue(r)'
      BY <3>1 DEF RowTrue, Final, Settled
    <3> QED BY <2>1, <2>2, <3>2, RowTrueStays
  <2>5. CASE row' = row
    BY <2>2, <2>5, RowTrueStays
  <2> QED
    BY <1>2, <2>3, <2>4, <2>5 DEF SubmissionStep, Dispatched, SubmitThrows, VendorWorks, DayPasses
<1>3. CASE \E c \in Callers : RefreshStep(c)
  BY <1>3, RefreshTrue
<1>4. ASSUME row' = row,
             \A c \in Callers : call'[c] = call[c] \/ call'[c].phase \in {"idle", "read"}
      PROVE  AllTrue'
  BY <1>4, RowTrueStays, CallTrueStays
<1>5. CASE Poll \/ NextWindow \/ PollEnds
  <2>1. row' = row
    BY <1>5 DEF Poll, NextWindow, PollEnds
  <2>2. CASE NextWindow
    <3>1. PICK on \in [Slots -> due \union {None}] :
            call' = [c \in Callers |->
                      IF c \in Slots /\ on[c] # None THEN Begun(on[c]) ELSE call[c]]
      BY <2>2 DEF NextWindow
    <3>2. \A c \in Slots : on[c] # None => on[c] \in Reports
      BY DEF SandboxInv, SandboxOK
    <3>3. \A c \in Callers : call'[c] = call[c] \/ call'[c].phase = "read"
      BY <3>1, <3>2, IdleCall
    <3> QED BY <1>4, <2>1, <3>3
  <2>3. CASE UNCHANGED call
    BY <1>4, <2>1, <2>3
  <2> QED BY <1>5, <2>2, <2>3 DEF Poll, PollEnds
<1>6. CASE \E S \in SUBSET Reports, C \in SUBSET Requests, p \in BOOLEAN : Dies(S, C, p)
  BY <1>4, <1>6, IdleCall DEF Dies
<1>7. CASE UNCHANGED svars
  BY <1>4, <1>7 DEF svars
<1> QED BY <1>2, <1>3, <1>5, <1>6, <1>7 DEF SandboxStep, SandboxNext

LEMMA AllTrueInvariant == SandboxSpec => []AllTrue
<1>1. SandboxInit => AllTrue
  BY IdleCall DEF SandboxInit, NoRow, AllTrue, RowTrue, CallTrue
<1> QED BY <1>1, StepTrue, SandboxInvariant, PTL DEF SandboxSpec, SandboxStep

\* A row that says how the vendor ended its task says the truth.
NoFalseEnding ==
  \A r \in Reports : row[r].task /\ row[r].status \in Final => vendor[r] = row[r].status

\* NoFalseEnding: an answer that is late may take an ending back, since the UPDATE of
\* refreshSandboxReport has no condition, but no order of the answers, no unknown word
\* and no lost statement makes a row report an ending the vendor did not come to.
THEOREM NoFalseEndingHolds ==
  (SandboxSpec => []NoFalseEnding) /\ (Spec => []NoFalseEnding)
<1>1. AllTrue => NoFalseEnding
  BY DEF AllTrue, RowTrue, NoFalseEnding
<1> QED BY <1>1, AllTrueInvariant, ImplementsSandbox, PTL

\* The refreshes of row r that are about to write what the vendor said before the task ended.
Late(r) ==
  {c \in Callers : /\ call[c].phase = "write" /\ call[c].on = r
                   /\ call[c].answer \notin {vendor[r], "error"}}
Fewer(r) == Late(r)' \subseteq Late(r)

\* Calls that are as they were, or do not write, are not late.
LEMMA NoLater ==
  ASSUME NEW r \in Reports, vendor'[r] = vendor[r],
         \A c \in Callers : call'[c] = call[c] \/ call'[c].phase \in {"idle", "read", "ask"}
  PROVE  Fewer(r)
BY DEF Late, Fewer

\* What becomes of a row whose task has ended.
LEMMA EndedRow ==
  ASSUME SandboxInv, [SandboxStep]_svars, NEW r \in Reports,
         row[r].task, vendor[r] \in Final
  PROVE  /\ row'[r].task /\ vendor'[r] = vendor[r] /\ Fewer(r)
         /\ Late(r) = {} /\ row[r].status = vendor[r] => row'[r].status = vendor[r]
<1>1. call \in [Callers -> Calls] /\ row \in [Reports -> Rows]
  BY DEF SandboxInv, SandboxOK
<1>2. row'[r].task
  <2>1. CASE SandboxNext BY <2>1, SandboxKeeps DEF Grows
  <2>2. CASE UNCHANGED svars BY <2>2 DEF svars
  <2>3. ASSUME NEW S \in SUBSET Reports, NEW C \in SUBSET Requests, NEW p \in BOOLEAN,
               Dies(S, C, p)
        PROVE  row'[r].task
    BY <2>3 DEF Dies
  <2> QED BY <2>1, <2>2, <2>3 DEF SandboxStep
<1>3. vendor'[r] = vendor[r]
  BY EndingStays
<1>4. submission[r] = "over"
  BY DEF SandboxInv, Untracked
<1>5. ASSUME NEW q \in Reports, SubmissionStep(q) \/ VendorWorks(q) \/ DayPasses(q)
      PROVE  Fewer(r) /\ row'[r] = row[r]
  <2>1. call' = call
    BY <1>5 DEF SubmissionStep, Submit, Dispatched, Accepted, Refused, SubmitThrows,
      VendorWorks, DayPasses
  <2>2. row'[r] = row[r]
    BY <1>1, <1>4, <1>5 DEF SubmissionStep, Submit, Dispatched, Accepted, Refused,
      SubmitThrows, VendorWorks, DayPasses
  <2> QED BY <1>3, <2>1, <2>2, NoLater
<1>6. ASSUME NEW c \in Callers, RefreshStep(c)
      PROVE  /\ Fewer(r)
             /\ Late(r) = {} /\ row[r].status = vendor[r] => row'[r].status = vendor[r]
  <2>1. \A d \in Callers : d # c => call'[d] = call[d]
    BY <1>1, <1>6 DEF RefreshStep, Request, ReadRow, Answer, WriteRow, RefreshThrows, Hang
  <2>2. ASSUME NEW a \in Answers, Answer(c, a) PROVE Fewer(r) /\ row' = row
    <3> DEFINE n == [call[c] EXCEPT !.phase = "write", !.answer = a]
    <3>1. call'[c] = n /\ row' = row /\ vendor' = vendor
      BY <1>1, <2>2 DEF Answer, Hang
    <3>2. n.on = call[c].on /\ n.answer = a
      BY <1>1 DEF Calls
    <3>3. call[c].on = r => a \in {vendor[r], "error"}
      BY <2>2 DEF Answer
    <3> HIDE DEF n
    <3> QED BY <2>1, <3>1, <3>2, <3>3 DEF Late, Fewer
  <2>3. ASSUME NEW q \in Reports, Request(c, q) PROVE Fewer(r) /\ row' = row
    <3>1. row' = row /\ call'[c].phase = "read"
      BY <1>1, <2>3, IdleCall DEF Request, Hang
    <3> QED BY <1>3, <2>1, <3>1, NoLater
  <2>4. CASE ReadRow(c)
    <3>1. row' = row /\ call'[c].phase \in {"idle", "ask"}
      BY <1>1, <2>4, IdleCall DEF ReadRow, Hang, Calls
    <3> QED BY <1>3, <2>1, <3>1, NoLater
  <2>5. CASE RefreshThrows(c)
    <3>1. row' = row /\ call'[c].phase = "idle"
      BY <1>1, <2>5, IdleCall DEF RefreshThrows, Hang
    <3> QED BY <1>3, <2>1, <3>1, NoLater
  <2>6. CASE WriteRow(c)
    <3>1. call'[c].phase = "idle"
      BY <1>1, <2>6, IdleCall DEF WriteRow, Hang
    <3>2. Fewer(r)
      BY <1>3, <2>1, <3>1, NoLater
    <3>3. CASE call[c].on # r
      BY <1>1, <2>6, <3>2, <3>3 DEF WriteRow
    <3>4. CASE call[c].on = r /\ Late(r) = {}
      <4>1. call[c].answer \in {vendor[r], "error"}
        BY <2>6, <3>4 DEF WriteRow, Late
      <4>2. row'[r] = Refreshed(row[r], call[c].seen, call[c].answer) /\ row[r] \in Rows
        BY <1>1, <2>6, <3>4 DEF WriteRow
      <4>3. CASE call[c].answer = "error"
        BY <3>2, <4>2, <4>3 DEF Refreshed
      <4>4. CASE call[c].answer = vendor[r]
        <5>1. vendor[r] \notin {"error", "unknown"}
          BY DEF Final, Settled
        <5>2. row'[r].status = vendor[r]
          BY <4>2, <4>4, <5>1 DEF Refreshed, Rows
        <5> QED BY <3>2, <5>2
      <4> QED BY <4>1, <4>3, <4>4
    <3> QED BY <3>2, <3>3, <3>4
  <2> QED BY <1>6, <2>2, <2>3, <2>4, <2>5, <2>6 DEF RefreshStep
<1>7. CASE Poll \/ NextWindow \/ PollEnds
  <2>1. row' = row
    BY <1>7 DEF Poll, NextWindow, PollEnds
  <2>2. CASE NextWindow
    <3>1. PICK on \in [Slots -> due \union {None}] :
            call' = [c \in Callers |->
                      IF c \in Slots /\ on[c] # None THEN Begun(on[c]) ELSE call[c]]
      BY <2>2 DEF NextWindow
    <3>2. \A c \in Slots : on[c] # None => on[c] \in Reports
      BY DEF SandboxInv, SandboxOK
    <3>3. \A c \in Callers : call'[c] = call[c] \/ call'[c].phase = "read"
      BY <3>1, <3>2, IdleCall
    <3> QED BY <1>2, <1>3, <2>1, <3>3, NoLater
  <2>3. CASE UNCHANGED call
    BY <1>2, <1>3, <2>1, <2>3, NoLater
  <2> QED BY <1>7, <2>2, <2>3 DEF Poll, PollEnds
<1>8. CASE \E S \in SUBSET Reports, C \in SUBSET Requests, p \in BOOLEAN : Dies(S, C, p)
  <2>1. row' = row /\ \A c \in Callers : call'[c] = call[c] \/ call'[c].phase = "idle"
    BY <1>8, IdleCall DEF Dies
  <2> QED BY <1>2, <1>3, <2>1, NoLater
<1>9. CASE UNCHANGED svars
  BY <1>2, <1>3, <1>9, NoLater DEF svars
<1> QED BY <1>2, <1>3, <1>5, <1>6, <1>7, <1>8, <1>9 DEF SandboxStep, SandboxNext

\* What a refresh writes that was answered.
LEMMA EndedWrite ==
  ASSUME SandboxInv, NEW r \in Reports, vendor[r] \in Final, NEW c \in Callers, WriteRow(c)
  PROVE  /\ c \notin Late(r)'
         /\ call[c].on = r /\ c \notin Late(r) /\ call[c].answer # "error"
              => row'[r].status = vendor[r]
<1>1. call \in [Callers -> Calls]
  BY DEF SandboxInv, SandboxOK
<1>2. c \notin Late(r)'
  BY <1>1, IdleCall DEF WriteRow, Hang, Late
<1>3. ASSUME call[c].on = r, c \notin Late(r), call[c].answer # "error"
      PROVE  row'[r].status = vendor[r]
  <2>1. call[c].answer = vendor[r] /\ vendor[r] \notin {"error", "unknown"}
    BY <1>3 DEF WriteRow, Late, Final, Settled
  <2>2. row'[r] = Refreshed(row[r], call[c].seen, vendor[r]) /\ row[r] \in Rows
    BY <1>3, <2>1 DEF WriteRow, SandboxInv, SandboxOK
  <2> QED BY <2>1, <2>2 DEF Refreshed, Rows
<1> QED BY <1>2, <1>3

\* Once a task has ended, the refreshes that still hold another answer only get fewer,
\* each by its write at the latest; one that is not among them writes the ending if it was answered; and
\* when there are none left, a row that agrees with the vendor goes on agreeing.
RowSettles ==
  [][\A r \in Reports : row[r].task /\ vendor[r] \in Final =>
       /\ row'[r].task /\ vendor'[r] = vendor[r] /\ Late(r)' \subseteq Late(r)
       /\ Late(r) = {} /\ row[r].status = vendor[r] => row'[r].status = vendor[r]
       /\ \A c \in Callers : WriteRow(c) =>
            /\ c \notin Late(r)'
            /\ call[c].on = r /\ c \notin Late(r) /\ call[c].answer # "error"
                 => row'[r].status = vendor[r]]_svars

\* RowSettles: what RowFollowsVendor needs beside the fairness of poller and vendor.
\* Overlapping refreshes of one row, by the poller and by requests, undo an ending only
\* with answers that were given before it.
THEOREM RowSettlesHolds == (SandboxSpec => RowSettles) /\ (Spec => RowSettles)
<1> DEFINE Settles ==
      \A r \in Reports : row[r].task /\ vendor[r] \in Final =>
        /\ row'[r].task /\ vendor'[r] = vendor[r] /\ Late(r)' \subseteq Late(r)
        /\ Late(r) = {} /\ row[r].status = vendor[r] => row'[r].status = vendor[r]
        /\ \A c \in Callers : WriteRow(c) =>
             /\ c \notin Late(r)'
             /\ call[c].on = r /\ c \notin Late(r) /\ call[c].answer # "error"
                  => row'[r].status = vendor[r]
<1>1. SandboxInv /\ [SandboxStep]_svars => [Settles]_svars
  BY EndedRow, EndedWrite DEF Fewer
<1>2. SandboxSpec => RowSettles
  BY <1>1, SandboxInvariant, PTL DEF SandboxSpec, SandboxStep, RowSettles
<1> QED BY <1>2, ImplementsSandbox

-----------------------------------------------------------------------------
(* How an execution comes to its end *)

\* How many actions a playbook has, and how far an execution's record is from its end.
Size(e) == Len(Actions[e.pb])
Todo(e) ==
  CASE e.phase = "spawned"    -> 2 * Size(e) + 3
    [] e.phase = "acting"     -> 2 * (Size(e) + 1 - e.at) + 2
    [] e.phase \in {"submitting", "notifying"} -> 2 * (Size(e) + 1 - e.at) + 1
    [] e.phase = "closing"    -> 1
    [] OTHER                  -> 0

\* How far an evaluation is from its end.
Left(v) ==
  CASE eval[v].stage = "begun" -> 3
    [] eval[v].stage = "exact" -> 2
    [] eval[v].stage = "all"   -> 1
    [] OTHER                   -> 0

\* The loop of executePlaybook stays within the actions, and awaits its notification.
AtOK(e) ==
  /\ e.phase = "spawned" => e.at = 1
  /\ e.phase = "acting" => e.at <= Size(e) + 1
  /\ e.phase \in {"submitting", "notifying"} => e.at <= Size(e)
AwaitOK(x) == Pending(x) => exec[x].phase = "notifying"
AtInv == \A x \in Execs : AtOK(exec[x]) /\ AwaitOK(x)

LEMMA SizeType ==
  ASSUME NEW e \in Executions
  PROVE  Size(e) \in Nat /\ e.at \in Nat \ {0} /\ e.phase \in Phases
<1>1. Actions[e.pb] \in Seq(ActionType)
  BY DEF Executions
<1>2. Len(Actions[e.pb]) \in Nat
  BY <1>1
<1> QED BY <1>2 DEF Size, Executions

LEMMA TodoType ==
  ASSUME NEW e \in Executions, AtOK(e)
  PROVE  Todo(e) \in Nat /\ (e.phase # "idle" => Todo(e) > 0)
<1>1. Size(e) \in Nat /\ e.at \in Nat \ {0} /\ e.phase \in Phases
  BY SizeType
<1> HIDE DEF Size
<1>2. CASE e.phase = "spawned"
  BY <1>1, <1>2 DEF Todo
<1>3. CASE e.phase = "acting"
  <2>1. Size(e) + 1 - e.at \in Nat
    BY <1>1, <1>3 DEF AtOK
  <2>2. Todo(e) = 2 * (Size(e) + 1 - e.at) + 2
    BY <1>3 DEF Todo
  <2> HIDE DEF Todo
  <2> QED BY <2>1, <2>2
<1>4. CASE e.phase \in {"submitting", "notifying"}
  <2>1. Size(e) + 1 - e.at \in Nat
    BY <1>1, <1>4 DEF AtOK
  <2>2. Todo(e) = 2 * (Size(e) + 1 - e.at) + 1
    BY <1>4 DEF Todo
  <2> HIDE DEF Todo
  <2> QED BY <2>1, <2>2
<1>5. CASE e.phase \in {"closing", "idle"}
  BY <1>5 DEF Todo
<1> QED BY <1>1, <1>2, <1>3, <1>4, <1>5 DEF Phases

\* A record that only comes to rest, or whose row is deleted, is no further from its end.
LEMMA TodoRests ==
  ASSUME NEW e \in Executions, AtOK(e), NEW f,
         f.pb = e.pb, f.at = e.at, f.phase = e.phase \/ f.phase = "idle"
  PROVE  AtOK(f) /\ Todo(f) <= Todo(e)
<1>1. Size(f) = Size(e)
  BY DEF Size
<1>2. CASE f.phase = e.phase
  <2>1. AtOK(f) /\ Todo(f) = Todo(e)
    BY <1>1, <1>2 DEF AtOK, Todo
  <2> QED BY <2>1, TodoType
<1>3. CASE f.phase = "idle"
  <2>1. AtOK(f) /\ Todo(f) = 0
    BY <1>3 DEF AtOK, Todo
  <2> QED BY <2>1, TodoType
<1> QED BY <1>2, <1>3

\* After an action there is one less to do, or none.
LEMMA TodoAfter ==
  ASSUME NEW x \in Execs, exec[x] \in Executions, NEW s \in BOOLEAN,
         exec[x].phase \in {"acting", "submitting", "notifying"}, exec[x].at <= Size(exec[x])
  PROVE  /\ AtOK(After(x, s)) /\ Todo(After(x, s)) \in Nat /\ Todo(After(x, s)) < Todo(exec[x])
         /\ After(x, s).phase # "idle"
<1> DEFINE e == exec[x]
           ph == IF s \/ Action(x).goesOn THEN "acting" ELSE "closing"
           f == [e EXCEPT !.phase = ph, !.at = e.at + 1, !.good = e.good /\ s]
<1>1. After(x, s) = f
  BY DEF After
<1>2. f.phase = ph /\ f.at = e.at + 1 /\ f.pb = e.pb
  BY DEF Executions
<1>3. Size(e) \in Nat /\ e.at \in Nat \ {0} /\ Size(f) = Size(e)
  BY <1>2, SizeType DEF Size
<1>4. ph \in {"acting", "closing"}
  OBVIOUS
<1> HIDE DEF f, ph, Size
<1>5. Todo(e) >= 2 * (Size(e) + 1 - e.at) + 1
  BY <1>3 DEF Todo
<1>6. Todo(f) <= 2 * (Size(e) + 1 - (e.at + 1)) + 2
  BY <1>2, <1>3, <1>4 DEF Todo
<1>7. AtOK(f)
  BY <1>2, <1>3, <1>4 DEF AtOK
<1>8. Todo(f) \in Nat /\ Todo(e) \in Nat
  <2>1. e.at <= Size(e)
    BY DEF Size
  <2>2. Size(e) + 1 - e.at \in Nat /\ Size(e) + 1 - (e.at + 1) \in Nat
    BY <1>3, <2>1
  <2>3. /\ Todo(e) = 2 * (Size(e) + 1 - e.at) + 2
           \/ Todo(e) = 2 * (Size(e) + 1 - e.at) + 1
        /\ Todo(f) = 2 * (Size(e) + 1 - (e.at + 1)) + 2 \/ Todo(f) = 1
    BY <1>2, <1>3, <1>4 DEF Todo
  <2> HIDE DEF Todo
  <2> QED BY <2>2, <2>3
<1>9. Todo(f) < Todo(e)
  BY <1>3, <1>5, <1>6, <1>8
<1> QED BY <1>1, <1>2, <1>4, <1>7, <1>8, <1>9

LEMMA TodoSpawned == \A p : AtOK(Spawned(p)) /\ Spawned(p).phase = "spawned"
BY DEF Spawned, AtOK

\* An execution that is under way is not replaced by one that is spawned.
LEMMA SpawnSpares ==
  ASSUME NEW v, NEW S, NEW now, Spawn(v, S, now), NEW z \in Execs
  PROVE  /\ now[z].phase # "idle" \/ S = {} => exec'[z] = now[z]
         /\ exec'[z] = now[z] \/ \E p : exec'[z] = Spawned(p)
<1>1. PICK at \in [S -> Execs] :
        /\ \A p \in S : now[at[p]].phase = "idle"
        /\ exec' = [x \in Execs |-> IF \E p \in S : at[p] = x
                                 THEN Spawned(CHOOSE p \in S : at[p] = x) ELSE now[x]]
  BY DEF Spawn
<1>2. CASE \E p \in S : at[p] = z
  BY <1>1, <1>2
<1>3. CASE ~ \E p \in S : at[p] = z
  BY <1>1, <1>3
<1> QED BY <1>2, <1>3

\* A SELECT, or one that throws, brings the evaluation nearer to its end, and no other.
LEMMA LookupFalls ==
  ASSUME Inv, NEW v \in Evaluators, Lookup(v) \/ LookupThrows(v)
  PROVE  Left(v)' < Left(v) /\ \A u \in Evaluators : u # v => eval'[u] = eval[u]
<1>1. eval \in [Evaluators -> Evaluations]
  BY DEF Inv, PlaybooksOK
<1>2. ASSUME NEW st, NEW m, eval' = [eval EXCEPT ![v] = [stage |-> st, matched |-> m]]
      PROVE  eval'[v].stage = st
  BY <1>1, <1>2
<1>4. \/ eval[v].stage = "begun" /\ eval'[v].stage = "exact"
      \/ eval[v].stage = "exact" /\ eval'[v].stage = "all"
      \/ eval[v].stage \in {"begun", "exact"} /\ eval'[v].stage = "all"
  <2>1. CASE LookupThrows(v)
    BY <1>2, <2>1 DEF LookupThrows
  <2>2. CASE Lookup(v)
    <3>1. CASE eval[v].stage = "begun"
      <4> DEFINE m == Matching(EventOf(v), FALSE)
      <4>1. eval' = [eval EXCEPT ![v] = [stage |-> "exact", matched |-> m]]
        BY <2>2, <3>1 DEF Lookup
      <4> HIDE DEF m
      <4> QED BY <1>2, <3>1, <4>1
    <3>2. CASE eval[v].stage = "exact"
      <4> DEFINE m == eval[v].matched \union Matching(EventOf(v), TRUE)
      <4>1. eval' = [eval EXCEPT ![v] = [stage |-> "all", matched |-> m]]
        BY <1>1, <2>2, <3>2 DEF Lookup
      <4> HIDE DEF m
      <4> QED BY <1>2, <3>2, <4>1
    <3> QED BY <2>2, <3>1, <3>2 DEF Lookup
  <2> QED BY <2>1, <2>2
<1>3. \A u \in Evaluators : u # v => eval'[u] = eval[u]
  BY <1>1 DEF Lookup, LookupThrows
<1> QED BY <1>3, <1>4 DEF Left

\* What an execution does on its own brings it nearer to its end, or the evaluation of
\* the notification it awaits.
Descends(x) ==
  /\ Under(x) /\ AtOK(exec'[x])
  /\ Todo(exec'[x]) \in Nat
  /\ Todo(exec'[x]) < Todo(exec[x]) \/ (exec'[x] = exec[x] /\ Left(x)' < Left(x))

LEMMA OwnStep ==
  ASSUME Inv, AtInv, NEW x \in Execs, ExecStep(x) \/ \E r \in Reports : Trigger(x, r)
  PROVE  Descends(x)
<1> DEFINE e == exec[x]
<1>1. exec \in [Execs -> Executions] /\ e \in Executions /\ AtOK(e)
  BY DEF Inv, PlaybooksOK, AtInv
<1>2. Size(e) \in Nat /\ e.at \in Nat \ {0} /\ e.phase \in Phases
  BY <1>1, SizeType
<1>3. Reaches(x) => e.phase = "acting" /\ e.at <= Size(e)
  BY <1>2 DEF Reaches, Size
<1>4. ASSUME NEW s \in BOOLEAN, Become(x, After(x, s)), e.phase \in {"acting", "submitting", "notifying"},
             e.at <= Size(e)
      PROVE  Descends(x)
  <2>1. exec'[x] = After(x, s)
    BY <1>1, <1>4 DEF Become
  <2> QED BY <1>1, <1>4, <2>1, TodoAfter DEF Under, Descends
<1>5. CASE Begin(x)
  <2> DEFINE f == [e EXCEPT !.phase = "acting", !.status = "running"]
             g == [e EXCEPT !.phase = "idle"]
  <2>1. e.phase = "spawned" /\ e.at = 1 /\ exec'[x] = IF e.pb \in kept THEN f ELSE g
    BY <1>1, <1>5 DEF Begin, Become, AtOK
  <2>2. /\ f.phase = "acting" /\ f.at = e.at /\ f.pb = e.pb
        /\ g.phase = "idle" /\ g.at = e.at /\ g.pb = e.pb
    BY <1>1 DEF Executions
  <2> HIDE DEF f, g
  <2>3. Size(f) = Size(e)
    BY <2>2 DEF Size
  <2> HIDE DEF Size
  <2>4. AtOK(f) /\ Todo(f) = 2 * Size(e) + 2 /\ Todo(e) = 2 * Size(e) + 3
    BY <1>2, <2>1, <2>2, <2>3 DEF AtOK, Todo
  <2>5. AtOK(g) /\ Todo(g) = 0
    BY <2>2 DEF AtOK, Todo
  <2>6. Todo(f) \in Nat /\ Todo(g) \in Nat /\ Todo(f) < Todo(e) /\ Todo(g) < Todo(e)
    BY <1>2, <2>4, <2>5
  <2> QED BY <2>1, <2>4, <2>5, <2>6 DEF Under, Descends
<1>6. CASE Skip(x)
  BY <1>3, <1>4, <1>6 DEF Skip
<1>7. CASE TriggerFails(x)
  BY <1>3, <1>4, <1>7 DEF TriggerFails
<1>8. CASE TriggerEnds(x)
  <2>1. e.phase = "submitting" /\ e.on \in Reports
    BY <1>8 DEF TriggerEnds, Inv, ExecInv, ExecOK
  <2>2. Submitted(e.on) \in BOOLEAN
    BY <2>1 DEF Submitted, Inv, SandboxInv, SandboxOK, Rows
  <2>3. e.at <= Size(e)
    BY <1>1, <2>1 DEF AtOK
  <2> QED BY <1>4, <1>8, <2>1, <2>2, <2>3 DEF TriggerEnds
<1>9. CASE Close(x)
  <2> DEFINE st == IF e.status = "none" THEN e.status
                   ELSE IF e.good THEN "completed" ELSE "failed"
             f == [e EXCEPT !.phase = "idle", !.status = st]
  <2>1. exec'[x] = f /\ f.phase = "idle"
    BY <1>1, <1>9 DEF Close, Become, Executions
  <2>2. e.phase # "idle"
    BY <1>9 DEF Close, Closes
  <2> HIDE DEF f
  <2>3. AtOK(f) /\ Todo(f) = 0
    BY <2>1 DEF AtOK, Todo
  <2> QED BY <1>1, <2>1, <2>2, <2>3, TodoType DEF Under, Descends
<1>10. ASSUME NEW ok \in BOOLEAN, Effect(x, ok)
       PROVE  Descends(x)
  BY <1>3, <1>4, <1>10 DEF Effect
<1>11. ASSUME NEW ok \in BOOLEAN, NEW S \in SUBSET Playbooks, Notified(x, ok, S)
       PROVE  Descends(x)
  <2> DEFINE now == [exec EXCEPT ![x] = After(x, ok)]
  <2>1. e.phase = "notifying" /\ e.at <= Size(e)
    BY <1>1, <1>11 DEF Notified, AtOK
  <2>2. now[x] = After(x, ok)
    BY <1>1
  <2>3. AtOK(now[x]) /\ Todo(now[x]) \in Nat /\ Todo(now[x]) < Todo(e) /\ now[x].phase # "idle"
    BY <1>1, <2>1, <2>2, TodoAfter
  <2>4. Spawn(x, S, now)
    BY <1>11 DEF Notified
  <2> HIDE DEF now
  <2>5. exec'[x] = now[x]
    BY <2>3, <2>4, SpawnSpares
  <2> QED BY <2>1, <2>3, <2>5 DEF Under, Descends
<1>12. ASSUME NEW r \in Reports, Trigger(x, r)
       PROVE  Descends(x)
  <2> DEFINE f == [e EXCEPT !.phase = "submitting", !.reports = e.reports \union {r}, !.on = r]
  <2>1. e.phase = "acting" /\ e.at <= Size(e) /\ exec'[x] = f
    BY <1>1, <1>3, <1>12 DEF Trigger, Become
  <2>2. f.phase = "submitting" /\ f.at = e.at /\ f.pb = e.pb
    BY <1>1 DEF Executions
  <2> HIDE DEF f
  <2>3. Size(f) = Size(e)
    BY <2>2 DEF Size
  <2> HIDE DEF Size
  <2>4. /\ Todo(f) = 2 * (Size(e) + 1 - e.at) + 1 /\ Todo(e) = 2 * (Size(e) + 1 - e.at) + 2
        /\ AtOK(f)
    BY <1>2, <2>1, <2>2, <2>3 DEF AtOK, Todo
  <2>5. Todo(f) \in Nat /\ Todo(f) < Todo(e)
    BY <1>2, <2>1, <2>4
  <2> QED BY <2>1, <2>4, <2>5 DEF Under, Descends
<1>13. CASE Notify(x)
  <2> DEFINE f == [e EXCEPT !.phase = "notifying"]
  <2>1. e.phase = "acting" /\ e.at <= Size(e) /\ exec'[x] = f
    BY <1>1, <1>3, <1>13 DEF Notify, Become
  <2>2. f.phase = "notifying" /\ f.at = e.at /\ f.pb = e.pb
    BY <1>1 DEF Executions
  <2> HIDE DEF f
  <2>3. Size(f) = Size(e)
    BY <2>2 DEF Size
  <2> HIDE DEF Size
  <2>4. /\ Todo(f) = 2 * (Size(e) + 1 - e.at) + 1 /\ Todo(e) = 2 * (Size(e) + 1 - e.at) + 2
        /\ AtOK(f)
    BY <1>2, <2>1, <2>2, <2>3 DEF AtOK, Todo
  <2>5. Todo(f) \in Nat /\ Todo(f) < Todo(e)
    BY <1>2, <2>1, <2>4
  <2> QED BY <2>1, <2>4, <2>5 DEF Under, Descends
<1>14. CASE Lookup(x)
  <2>1. Pending(x) /\ exec' = exec
    BY <1>14 DEF Lookup, Pending
  <2>2. e.phase = "notifying"
    BY <2>1 DEF AtInv, AwaitOK
  <2>3. Left(x)' < Left(x)
    BY <1>14, LookupFalls DEF Evaluators
  <2>4. Todo(e) \in Nat
    BY <1>1, TodoType
  <2> QED BY <1>1, <2>1, <2>2, <2>3, <2>4 DEF Under, Descends
<1> QED BY <1>5, <1>6, <1>7, <1>8, <1>9, <1>10, <1>11, <1>12, <1>13, <1>14 DEF ExecStep

\* The others see nothing of it, but that the end of its evaluation may spawn one in a
\* place that is free.
LEMMA OthersStep ==
  ASSUME Inv, NEW x \in Execs, ExecStep(x) \/ \E r \in Reports : Trigger(x, r),
         NEW z \in Execs, z # x
  PROVE  /\ Under(z) => exec'[z] = exec[z]
         /\ exec'[z] = exec[z] \/ \E p : exec'[z] = Spawned(p)
         /\ exec'[z] # exec[z] => eval[x].matched # {} /\ ~Pending(x)'
         /\ eval'[z] = eval[z]
<1>1. exec \in [Execs -> Executions] /\ eval \in [Evaluators -> Evaluations]
      /\ x \in Evaluators /\ z \in Evaluators
  BY DEF Inv, PlaybooksOK, Evaluators
<1>2. ASSUME NEW e, Become(x, e) PROVE exec'[z] = exec[z]
  BY <1>1, <1>2 DEF Become
<1>3. CASE Begin(x) \/ Skip(x) \/ TriggerFails(x) \/ TriggerEnds(x) \/ Close(x)
  <2>1. eval' = eval
    BY <1>3 DEF Begin, Skip, TriggerFails, TriggerEnds, Close
  <2> QED BY <1>2, <1>3, <2>1 DEF Begin, Skip, TriggerFails, TriggerEnds, Close
<1>4. CASE (\E ok \in BOOLEAN : Effect(x, ok)) \/ \E r \in Reports : Trigger(x, r)
  <2>1. eval' = eval
    BY <1>4 DEF Effect, Trigger
  <2> QED BY <1>2, <1>4, <2>1 DEF Effect, Trigger
<1>5. CASE Notify(x)
  BY <1>1, <1>2, <1>5 DEF Notify
<1>6. CASE Lookup(x)
  BY <1>1, <1>6, LookupFalls DEF Lookup
<1>7. ASSUME NEW ok \in BOOLEAN, NEW S \in SUBSET Playbooks, Notified(x, ok, S)
      PROVE  /\ Under(z) => exec'[z] = exec[z]
             /\ exec'[z] = exec[z] \/ \E p : exec'[z] = Spawned(p)
             /\ exec'[z] # exec[z] => eval[x].matched # {} /\ ~Pending(x)'
             /\ eval'[z] = eval[z]
  <2> DEFINE now == [exec EXCEPT ![x] = After(x, ok)]
  <2>1. now[z] = exec[z]
    BY <1>1
  <2>2. Spawn(x, S, now)
    BY <1>7 DEF Notified
  <2> HIDE DEF now
  <2>3. /\ exec'[z] # now[z] => S # {}
        /\ now[z].phase # "idle" => exec'[z] = now[z]
        /\ exec'[z] = now[z] \/ \E p : exec'[z] = Spawned(p)
    BY <2>2, SpawnSpares
  <2>4. S \subseteq eval[x].matched /\ eval' = [eval EXCEPT ![x] = Over]
    BY <2>2 DEF Spawn
  <2>5. ~Pending(x)' /\ eval'[z] = eval[z]
    BY <1>1, <2>4, EvaluationTypes DEF Pending
  <2> QED BY <2>1, <2>3, <2>4, <2>5 DEF Under
<1> QED BY <1>3, <1>4, <1>5, <1>6, <1>7 DEF ExecStep

\* What happens to an execution in any step.
Nearer(z) == AtOK(exec'[z]) /\ (Under(z) => Todo(exec'[z]) <= Todo(exec[z]))

\* An execution is started: by hand, or by an evaluation that has found its playbook.
Started == events' = events + 1 \/ \E v \in Evaluators : eval[v].matched # {} /\ ~Pending(v)'
Starts(z) == ~Under(z) /\ Under(z)' => Started

LEMMA StepNearer ==
  ASSUME Inv, AtInv, [Next]_vars, NEW z \in Execs
  PROVE  Nearer(z) /\ Starts(z)
<1>1. /\ exec \in [Execs -> Executions] /\ exec[z] \in Executions /\ AtOK(exec[z])
      /\ Todo(exec[z]) \in Nat
  BY TodoType DEF Inv, PlaybooksOK, AtInv
<1>2. ASSUME exec'[z] = exec[z] PROVE Nearer(z) /\ Starts(z)
  BY <1>1, <1>2 DEF Nearer, Under, Starts
<1>3. ASSUME NEW p, exec'[z] = Spawned(p), ~Under(z) PROVE Nearer(z)
  BY <1>3, TodoSpawned DEF Nearer
<1>4. ASSUME exec'[z].pb = exec[z].pb, exec'[z].at = exec[z].at,
             exec'[z].phase = exec[z].phase \/ exec'[z].phase = "idle"
      PROVE  Nearer(z) /\ Starts(z)
  BY <1>1, <1>4, TodoRests DEF Nearer, Under, Starts
<1>5. ASSUME NEW x \in Execs, ExecStep(x) \/ \E r \in Reports : Trigger(x, r)
      PROVE  Nearer(z) /\ Starts(z)
  <2>1. CASE z = x
    <3>1. Descends(x)
      BY <1>5, OwnStep
    <3> QED BY <1>1, <2>1, <3>1 DEF Nearer, Descends, Starts
  <2>2. CASE z # x
    <3>1. /\ Under(z) => exec'[z] = exec[z]
          /\ exec'[z] = exec[z] \/ \E p : exec'[z] = Spawned(p)
          /\ exec'[z] # exec[z] => eval[x].matched # {} /\ ~Pending(x)'
      BY <1>5, <2>2, OthersStep
    <3>2. exec'[z] # exec[z] => Started
      BY <3>1 DEF Started, Evaluators
    <3> QED BY <1>2, <1>3, <3>1, <3>2 DEF Starts
  <2> QED BY <2>1, <2>2
<1>6. CASE SandboxNext /\ UNCHANGED pvars
  BY <1>2, <1>6 DEF pvars
<1>7. CASE PlaybooksNext
  <2>1. ASSUME NEW v \in Emitters, Emit(v) \/ Lookup(v)
        PROVE  Nearer(z) /\ Starts(z)
    BY <1>2, <2>1 DEF Emit, Lookup
  <2>2. ASSUME NEW v \in Emitters, NEW S \in SUBSET Playbooks, Spawn(v, S, exec)
        PROVE  Nearer(z) /\ Starts(z)
    <3>1. /\ exec[z].phase # "idle" \/ S = {} => exec'[z] = exec[z]
          /\ exec'[z] = exec[z] \/ \E p : exec'[z] = Spawned(p)
      BY <2>2, SpawnSpares
    <3>2. v \in Evaluators /\ S \subseteq eval[v].matched /\ ~Pending(v)'
      BY <2>2, EvaluationTypes DEF Spawn, Evaluators, Pending, Inv, PlaybooksOK
    <3>3. exec'[z] # exec[z] => Started
      BY <3>1, <3>2 DEF Started
    <3> QED BY <1>2, <1>3, <3>1, <3>3 DEF Starts, Under
  <2>3. ASSUME NEW x \in Execs, NEW p \in Playbooks, RunNow(x, p)
        PROVE  Nearer(z) /\ Starts(z)
    <3>1. ~Under(x) /\ exec' = [exec EXCEPT ![x] = Spawned(p)] /\ Started
      BY <2>3 DEF RunNow, Started
    <3>2. CASE z = x
      BY <1>1, <1>3, <3>1, <3>2 DEF Starts
    <3>3. CASE z # x
      BY <1>1, <1>2, <3>1, <3>3
    <3> QED BY <3>2, <3>3
  <2>4. ASSUME NEW p \in Playbooks, Delete(p) PROVE Nearer(z) /\ Starts(z)
    <3> DEFINE f == [exec[z] EXCEPT !.status = "none"]
    <3>1. exec'[z] = IF exec[z].pb = p THEN f ELSE exec[z]
      BY <2>4 DEF Delete
    <3>2. f.pb = exec[z].pb /\ f.at = exec[z].at /\ f.phase = exec[z].phase
      BY <1>1 DEF Executions
    <3> HIDE DEF f
    <3> QED BY <1>4, <3>1, <3>2
  <2>5. ASSUME NEW p \in Playbooks, NEW on \in BOOLEAN, Enable(p, on)
        PROVE  Nearer(z) /\ Starts(z)
    BY <1>2, <2>5 DEF Enable
  <2> QED BY <1>5, <1>7, <2>1, <2>2, <2>3, <2>4, <2>5 DEF PlaybooksNext, EvalStep
<1>8. ASSUME NEW X, NEW V, Abandoned(X, V) PROVE Nearer(z) /\ Starts(z)
  <2> DEFINE f == [exec[z] EXCEPT !.phase = "idle"]
  <2>1. exec'[z] = f \/ exec'[z] = exec[z]
    BY <1>8 DEF Abandoned
  <2>2. f.pb = exec[z].pb /\ f.at = exec[z].at /\ f.phase = "idle"
    BY <1>1 DEF Executions
  <2> HIDE DEF f
  <2> QED BY <1>2, <1>4, <2>1, <2>2
<1>9. CASE ThrowsSomewhere
  BY <1>2, <1>8, <1>9 DEF ThrowsSomewhere, StatementThrows, LookupThrows
<1>10. CASE \E x \in Execs, r \in Reports : SandboxTrigger(x, r)
  BY <1>5, <1>10 DEF SandboxTrigger
<1>11. CASE \E X \in SUBSET Execs, V \in SUBSET Emitters, S \in SUBSET Reports,
               C \in SUBSET Requests, p \in BOOLEAN : ProcessDies(X, V, S, C, p)
  BY <1>8, <1>11 DEF ProcessDies
<1>12. CASE UNCHANGED vars
  BY <1>2, <1>12 DEF vars, pvars
<1> QED BY <1>6, <1>7, <1>9, <1>10, <1>11, <1>12 DEF Next

\* An evaluation begins with an event from outside or a step of the execution that
\* notifies; one under way goes on or ends; and while no enabled playbook listens to
\* notifications, theirs find nothing more.
Silent == \A p \in enabled : Heard[p].event # "playbook.notification"
EvalEnds(v) ==
  /\ Left(v) \in Nat /\ (Pending(v) => Left(v) > 0 /\ Left(v)' <= Left(v))
  /\ Left(v)' > Left(v) =>
       events' = events + 1 \/ (v \in Execs /\ Todo(exec'[v]) < Todo(exec[v]))
  /\ Silent /\ v \in Execs => eval'[v].matched \subseteq eval[v].matched
Awaits(v) == v \in Execs => AwaitOK(v)'

LEMMA LeftType ==
  ASSUME Inv, NEW v \in Evaluators
  PROVE  Left(v) \in Nat /\ (Pending(v) <=> Left(v) > 0)
<1>1. eval[v].stage \in {"over", "begun", "exact", "all"}
  BY DEF Inv, PlaybooksOK, Evaluations
<1> QED BY <1>1 DEF Left, Pending

LEMMA StepEnds ==
  ASSUME Inv, AtInv, [Next]_vars, NEW v \in Evaluators
  PROVE  EvalEnds(v) /\ Awaits(v)
<1>1. /\ eval \in [Evaluators -> Evaluations] /\ exec \in [Execs -> Executions]
      /\ eval[v] \in Evaluations
      /\ Left(v) \in Nat /\ (Pending(v) <=> Left(v) > 0)
  BY LeftType DEF Inv, PlaybooksOK
<1>2. v \in Execs => AwaitOK(v)
  BY DEF AtInv
<1>3. ASSUME eval'[v] = eval[v] PROVE EvalEnds(v)
  <2>1. Left(v)' = Left(v)
    BY <1>3 DEF Left
  <2> QED BY <1>1, <1>3, <2>1 DEF EvalEnds
<1>4. ASSUME eval'[v] = Over PROVE EvalEnds(v) /\ Awaits(v)
  <2>1. Left(v)' = 0 /\ ~Pending(v)' /\ eval'[v].matched = {}
    BY <1>4, EvaluationTypes DEF Left, Pending
  <2> QED BY <1>1, <2>1 DEF EvalEnds, Awaits, AwaitOK
<1>5. ASSUME eval'[v] = eval[v],
             v \in Execs => exec'[v].phase = exec[v].phase \/ exec[v].phase # "notifying"
      PROVE  EvalEnds(v) /\ Awaits(v)
  BY <1>2, <1>3, <1>5 DEF Awaits, AwaitOK, Pending
<1>6. ASSUME Lookup(v) \/ LookupThrows(v) PROVE EvalEnds(v) /\ Awaits(v)
  <2>1. Left(v)' < Left(v) /\ Pending(v) /\ exec' = exec
    BY <1>6, LookupFalls DEF Lookup, LookupThrows, Pending
  <2>2. ASSUME Silent, v \in Execs PROVE eval'[v].matched \subseteq eval[v].matched
    <3>1. \A w : Matching(EventOf(v), w) = {}
      BY <2>2 DEF Silent, Matching, EventOf
    <3>2. CASE LookupThrows(v)
      BY <1>1, <3>2 DEF LookupThrows
    <3>3. CASE Lookup(v)
      <4> DEFINE m == Matching(EventOf(v), FALSE)
                 n == Matching(EventOf(v), TRUE)
      <4>1. m = {} /\ n = {}
        BY <3>1
      <4>2. \/ eval' = [eval EXCEPT ![v] = [stage |-> "exact", matched |-> m]]
            \/ eval' = [eval EXCEPT ![v] = [stage |-> "all", matched |-> eval[v].matched \union n]]
        BY <1>1, <3>3 DEF Lookup
      <4> HIDE DEF m, n
      <4> QED BY <1>1, <4>1, <4>2
    <3> QED BY <1>6, <3>2, <3>3
  <2>3. Left(v)' <= Left(v) /\ ~(Left(v)' > Left(v))
    <3>1. Left(v)' \in Nat
      BY DEF Left
    <3> QED BY <1>1, <2>1, <3>1
  <2>4. EvalEnds(v)
    BY <1>1, <2>1, <2>2, <2>3 DEF EvalEnds
  <2>5. Awaits(v)
    BY <1>2, <2>1 DEF Awaits, AwaitOK
  <2> QED BY <2>4, <2>5
<1>7. ASSUME NEW u \in Evaluators, u # v, Lookup(u) \/ LookupThrows(u)
      PROVE  EvalEnds(v) /\ Awaits(v)
  BY <1>5, <1>7, LookupFalls DEF Lookup, LookupThrows
<1>8. ASSUME NEW u \in Evaluators, NEW S, Spawn(u, S, exec) PROVE EvalEnds(v) /\ Awaits(v)
  <2>1. eval' = [eval EXCEPT ![u] = Over]
    BY <1>8 DEF Spawn
  <2>2. CASE u = v
    BY <1>1, <1>4, <2>1, <2>2
  <2>3. CASE u # v
    <3>1. v \in Execs => exec'[v] = exec[v] \/ exec[v].phase = "idle"
      BY <1>8, SpawnSpares
    <3> QED BY <1>1, <1>5, <2>1, <2>3, <3>1
  <2> QED BY <2>2, <2>3
<1>9. ASSUME NEW x \in Execs, ExecStep(x) \/ \E r \in Reports : Trigger(x, r)
      PROVE  EvalEnds(v) /\ Awaits(v)
  <2>1. CASE v = x
    <3>1. CASE \/ Begin(x) \/ Skip(x) \/ TriggerFails(x) \/ TriggerEnds(x) \/ Close(x)
               \/ (\E ok \in BOOLEAN : Effect(x, ok)) \/ \E r \in Reports : Trigger(x, r)
      <4>1. eval' = eval
        BY <3>1 DEF Begin, Skip, TriggerFails, TriggerEnds, Close, Effect, Trigger
      <4>2. exec[x].phase # "notifying"
        BY <3>1 DEF Begin, Skip, TriggerFails, TriggerEnds, Close, Closes, Effect, Trigger, Reaches
      <4> QED BY <1>5, <2>1, <4>1, <4>2
    <3>2. CASE Lookup(x)
      BY <1>6, <2>1, <3>2
    <3>3. CASE Notify(x)
      <4>1. exec[x].phase = "acting" /\ ~Pending(v)
        BY <1>2, <2>1, <3>3 DEF Notify, Reaches, AwaitOK
      <4>2. eval'[v] = Unread
        BY <1>1, <2>1, <3>3 DEF Notify
      <4>3. exec'[x].phase = "notifying"
        BY <1>1, <3>3 DEF Notify, Become, Executions
      <4>4. Todo(exec'[x]) < Todo(exec[x])
        <5>1. Descends(x)
          BY <1>9, OwnStep
        <5>2. exec'[x] # exec[x]
          BY <4>1, <4>3
        <5> QED BY <5>1, <5>2 DEF Descends
      <4> QED BY <1>1, <2>1, <4>1, <4>2, <4>3, <4>4, EvaluationTypes DEF EvalEnds, Awaits, AwaitOK
    <3>4. ASSUME NEW ok \in BOOLEAN, NEW S \in SUBSET Playbooks, Notified(x, ok, S)
          PROVE  EvalEnds(v) /\ Awaits(v)
      <4>1. eval'[v] = Over
        BY <1>1, <2>1, <3>4 DEF Notified, Spawn
      <4> QED BY <1>4, <4>1
    <3> QED BY <1>9, <3>1, <3>2, <3>3, <3>4 DEF ExecStep
  <2>2. CASE v # x /\ v \in Execs
    <3>1. eval'[v] = eval[v] /\ (Under(v) => exec'[v] = exec[v])
      BY <1>9, <2>2, OthersStep
    <3> QED BY <1>5, <3>1 DEF Under
  <2>3. CASE v \notin Execs
    <3>1. eval'[v] = eval[v]
      BY <1>1, <1>9, <2>3, LookupFalls
        DEF ExecStep, Begin, Skip, TriggerFails, TriggerEnds, Close, Effect, Trigger, Notify,
            Notified, Spawn, Evaluators
    <3> QED BY <1>5, <2>3, <3>1
  <2> QED BY <2>1, <2>2, <2>3
<1>10. ASSUME NEW u \in Emitters, Emit(u) PROVE EvalEnds(v) /\ Awaits(v)
  <2>1. eval' = [eval EXCEPT ![u] = Unread] /\ events' = events + 1 /\ ~Pending(u) /\ exec' = exec
    BY <1>10 DEF Emit
  <2>2. CASE v = u
    <3>1. v \notin Execs /\ ~Pending(v)
      BY <1>10, <2>1, <2>2
    <3> QED BY <1>1, <2>1, <3>1 DEF EvalEnds, Awaits
  <2>3. CASE v # u
    BY <1>1, <1>5, <2>1, <2>3
  <2> QED BY <2>2, <2>3
<1>11. CASE PlaybooksNext
  <2>1. ASSUME NEW x \in Execs, NEW p \in Playbooks, RunNow(x, p) PROVE EvalEnds(v) /\ Awaits(v)
    <3>1. eval' = eval /\ exec[x].phase = "idle" /\ (v \in Execs /\ v # x => exec'[v] = exec[v])
      BY <1>1, <2>1 DEF RunNow, Under
    <3> QED BY <1>5, <3>1
  <2>2. ASSUME NEW p \in Playbooks, Delete(p) PROVE EvalEnds(v) /\ Awaits(v)
    <3>1. eval' = eval /\ (v \in Execs => exec'[v].phase = exec[v].phase)
      BY <1>1, <2>2 DEF Delete, Executions
    <3> QED BY <1>5, <3>1
  <2>3. ASSUME NEW p \in Playbooks, NEW on \in BOOLEAN, Enable(p, on) PROVE EvalEnds(v) /\ Awaits(v)
    BY <1>5, <2>3 DEF Enable
  <2>4. ASSUME NEW u \in Emitters, EvalStep(u) PROVE EvalEnds(v) /\ Awaits(v)
    BY <1>6, <1>7, <1>8, <2>4 DEF EvalStep, Evaluators
  <2> QED BY <1>9, <1>10, <1>11, <2>1, <2>2, <2>3, <2>4 DEF PlaybooksNext
<1>12. ASSUME NEW X, NEW V, Abandoned(X, V) PROVE EvalEnds(v) /\ Awaits(v)
  <2>1. eval'[v] = Over \/ (v \notin X /\ eval'[v] = eval[v])
    BY <1>12 DEF Abandoned
  <2>2. v \in Execs /\ v \notin X => exec'[v] = exec[v]
    BY <1>12 DEF Abandoned
  <2> QED BY <1>4, <1>5, <2>1, <2>2
<1>13. CASE ThrowsSomewhere
  BY <1>6, <1>7, <1>12, <1>13 DEF ThrowsSomewhere, StatementThrows
<1>14. CASE \E x \in Execs, r \in Reports : SandboxTrigger(x, r)
  BY <1>9, <1>14 DEF SandboxTrigger
<1>15. CASE \E X \in SUBSET Execs, V \in SUBSET Emitters, S \in SUBSET Reports,
               C \in SUBSET Requests, p \in BOOLEAN : ProcessDies(X, V, S, C, p)
  BY <1>12, <1>15 DEF ProcessDies
<1>16. CASE (SandboxNext /\ UNCHANGED pvars) \/ UNCHANGED vars
  BY <1>5, <1>16 DEF vars, pvars
<1> QED BY <1>11, <1>13, <1>14, <1>15, <1>16 DEF Next

LEMMA AtInvariant == Spec => []AtInv
<1>1. Init => AtInv
  <2> SUFFICES ASSUME Init, NEW x \in Execs PROVE AtOK(exec[x]) /\ AwaitOK(x)
    BY DEF AtInv
  <2>1. PICK p \in Playbooks : exec[x] = [Spawned(p) EXCEPT !.phase = "idle"]
    BY DEF Init, PlaybooksInit
  <2>2. exec[x].phase = "idle"
    BY <2>1 DEF Spawned
  <2>3. ~Pending(x)
    BY EvaluationTypes DEF Init, PlaybooksInit, Evaluators, Pending
  <2> QED BY <2>2, <2>3 DEF AtOK, AwaitOK
<1>2. Inv /\ AtInv /\ [Next]_vars => AtInv'
  <2> SUFFICES ASSUME Inv, AtInv, [Next]_vars, NEW x \in Execs
               PROVE  AtOK(exec'[x]) /\ AwaitOK(x)'
    BY DEF AtInv
  <2>1. Nearer(x)
    BY StepNearer
  <2>2. Awaits(x)
    BY StepEnds DEF Evaluators
  <2> QED BY <2>1, <2>2 DEF Nearer, Awaits
<1> QED BY <1>1, <1>2, Invariant, PTL DEF Spec

\* What an execution under way still has to do never grows, and every step of its own
\* makes it less, or what the evaluation it awaits has to do; it is started by hand or by
\* an evaluation that has found its playbook enabled, which ends with it.
ExecEnds(x) ==
  /\ Todo(exec[x]) \in Nat
  /\ Under(x) => Todo(exec[x]) > 0 /\ Todo(exec'[x]) <= Todo(exec[x])
  /\ ExecStep(x) \/ (\E r \in Reports : SandboxTrigger(x, r)) =>
       Todo(exec'[x]) < Todo(exec[x]) \/ (exec'[x] = exec[x] /\ Left(x)' < Left(x))
  /\ Starts(x)

\* Executions end, and what one starts runs out: a match found before the listeners to
\* notifications were disabled is still executed, but once.
ExecutionsEnd ==
  [][(\A x \in Execs : ExecEnds(x)) /\ \A v \in Evaluators : EvalEnds(v)]_vars

\* ExecutionsEnd: the argument for NotificationsStop but for the fairness.  The loop of
\* executePlaybook goes over its actions once, a spawned execution cannot take the place of
\* one under way, and what breaks the cycle is a listener disabled before the SELECTs of
\* evaluatePlaybooks (enabled is not looked at again when a match is executed).
THEOREM ExecutionsEndHolds == Spec => ExecutionsEnd
<1>1. ASSUME Inv, AtInv, [Next]_vars, NEW x \in Execs
      PROVE  ExecEnds(x)
  <2>1. Todo(exec[x]) \in Nat /\ (Under(x) => Todo(exec[x]) > 0)
    BY <1>1, TodoType DEF Inv, PlaybooksOK, AtInv, Under
  <2>2. ExecStep(x) \/ (\E r \in Reports : SandboxTrigger(x, r)) =>
          Todo(exec'[x]) < Todo(exec[x]) \/ (exec'[x] = exec[x] /\ Left(x)' < Left(x))
    BY <1>1, OwnStep DEF SandboxTrigger, Descends
  <2> QED BY <1>1, <2>1, <2>2, StepNearer DEF Nearer, ExecEnds
<1>2. Inv /\ AtInv /\ [Next]_vars =>
        [(\A x \in Execs : ExecEnds(x)) /\ \A v \in Evaluators : EvalEnds(v)]_vars
  BY <1>1, StepEnds
<1> QED BY <1>2, AtInvariant, Invariant, PTL DEF Spec, ExecutionsEnd

=============================================================================
