------------------------------ MODULE Sandbox -------------------------------
(***************************************************************************)
(* Sandbox reports (apps/api/src/services/sandbox/index.ts, the poller in  *)
(* queues/workers/sandboxPollerWorker.ts, routes/v1/sandbox.ts).  A        *)
(* submission inserts a row, asks the vendor, and writes the task id it    *)
(* got.  A refresh reads the row, asks the vendor, and writes the answer   *)
(* whatever the row has become.  The poller refreshes the young unsettled  *)
(* rows, a window at a time; requests refresh any row beside it.           *)
(* Verdict, score, report body and error text are left out.                *)
(***************************************************************************)
EXTENDS Naturals, FiniteSets

CONSTANTS
  Reports,      \* the rows there may be
  Slots,        \* refreshes the poller runs in parallel: MAX_PARALLEL_REFRESH
  Requests,     \* requests that may refresh a row at a time
  None,         \* no row
  Endings,      \* how the vendor may end a task
  MaxLosses     \* bound: processes that die, and statements that throw

ASSUME SandboxAssumption ==
  /\ Slots \intersect Requests = {} /\ IsFiniteSet(Slots)
  /\ Endings \subseteq {"completed", "failed", "timeout"}
  /\ None \notin Reports /\ MaxLosses \in Nat

VARIABLES
  row,          \* sandbox_reports: status, whether vendor_task_id and completed_at are set
  submission,   \* where the submission that inserted each row is
  vendor,       \* the vendor's own state of each task
  call,         \* the refreshes under way
  polling,      \* the poll job is running
  due,          \* rows it has selected and not begun
  old,          \* rows submitted more than a day ago
  losses

svars == <<row, submission, vendor, call, polling, due, old, losses>>

Settled == {"completed", "failed"}              \* a refresh returns such a row at once
Final == Settled \union {"timeout"}             \* neither does the poller select a timeout
Statuses == Final \union {"queued", "running"}
Callers == Slots \union Requests

Rows == [status : Statuses \union {"none"}, task : BOOLEAN, stamp : BOOLEAN]
NoRow == [status |-> "none", task |-> FALSE, stamp |-> FALSE]
Stages == {"none", "asking", "accepted", "refused", "over"}
\* A call has begun to "read", waits for the vendor ("ask"), or is about to "write"
\* an answer: a status, a word the mapping does not know, or an error.
Answers == Statuses \union {"unknown", "error"}
Calls == [phase : {"idle", "read", "ask", "write"}, on : Reports \union {None},
          seen : Rows, answer : Answers]
Idle == [phase |-> "idle", on |-> None, seen |-> NoRow, answer |-> "error"]

SandboxOK ==
  /\ row \in [Reports -> Rows]
  /\ submission \in [Reports -> Stages]
  /\ vendor \in [Reports -> Statuses \union {"none"}]
  /\ call \in [Callers -> Calls]
  /\ polling \in BOOLEAN
  /\ due \in SUBSET Reports /\ old \in SUBSET Reports
  /\ losses \in 0..MaxLosses

SandboxInit ==
  /\ row = [r \in Reports |-> NoRow]
  /\ submission = [r \in Reports |-> "none"]
  /\ vendor = [r \in Reports |-> "none"]
  /\ call = [c \in Callers |-> Idle]
  /\ polling = FALSE /\ due = {} /\ old = {} /\ losses = 0

Lose == losses < MaxLosses /\ losses' = losses + 1

-----------------------------------------------------------------------------
(* Submission *)

\* submitForAnalysis inserts the row of r.
Submit(r) ==
  /\ submission[r] = "none"
  /\ row' = [row EXCEPT ![r].status = "queued"]
  /\ submission' = [submission EXCEPT ![r] = "asking"]
  /\ UNCHANGED <<vendor, call, polling, due, old, losses>>

\* The vendor takes the task and names it, or the call fails (a task it may have taken
\* then has no name here).
Dispatched(r) ==
  /\ submission[r] = "asking"
  /\ \/ /\ vendor' = [vendor EXCEPT ![r] = "queued"]
        /\ submission' = [submission EXCEPT ![r] = "accepted"]
     \/ /\ submission' = [submission EXCEPT ![r] = "refused"]
        /\ UNCHANGED vendor
  /\ UNCHANGED <<row, call, polling, due, old, losses>>

\* The row gets the task id, or is marked failed.
Accepted(r) ==
  /\ submission[r] = "accepted"
  /\ row' = [row EXCEPT ![r].status = "running", ![r].task = TRUE]
  /\ submission' = [submission EXCEPT ![r] = "over"]
  /\ UNCHANGED <<vendor, call, polling, due, old, losses>>

Refused(r) ==
  /\ submission[r] = "refused"
  /\ row' = [row EXCEPT ![r].status = "failed"]
  /\ submission' = [submission EXCEPT ![r] = "over"]
  /\ UNCHANGED <<vendor, call, polling, due, old, losses>>

\* The UPDATE throws: the row stays as it was inserted.
SubmitThrows(r) ==
  /\ submission[r] \in {"accepted", "refused"} /\ Lose
  /\ submission' = [submission EXCEPT ![r] = "over"]
  /\ UNCHANGED <<row, vendor, call, polling, due, old>>

VendorWorks(r) ==
  /\ vendor[r] \in {"queued", "running"}
  /\ \E s \in {"running"} \union Endings : s # vendor[r] /\ vendor' = [vendor EXCEPT ![r] = s]
  /\ UNCHANGED <<row, submission, call, polling, due, old, losses>>

DayPasses(r) ==
  /\ row[r].status # "none"
  /\ old' = old \union {r}
  /\ UNCHANGED <<row, submission, vendor, call, polling, due, losses>>

-----------------------------------------------------------------------------
(* Refresh *)

Busy(c) == call[c].phase # "idle"
Hang(c, with) == call' = [call EXCEPT ![c] = with]
Begun(r) == [Idle EXCEPT !.phase = "read", !.on = r]

\* POST /sandbox/reports/:id/refresh
Request(c, r) ==
  /\ ~Busy(c) /\ row[r].status # "none"
  /\ Hang(c, Begun(r))
  /\ UNCHANGED <<row, submission, vendor, polling, due, old, losses>>

\* The early returns of refreshSandboxReport.
Needless(seen) == ~seen.task \/ seen.status \in Settled

ReadRow(c) ==
  /\ call[c].phase = "read"
  /\ LET seen == row[call[c].on] IN
       Hang(c, IF Needless(seen) THEN Idle
               ELSE [call[c] EXCEPT !.phase = "ask", !.seen = seen])
  /\ UNCHANGED <<row, submission, vendor, polling, due, old, losses>>

\* The vendor's answer: its state when it answers.
Answer(c, a) ==
  /\ call[c].phase = "ask"
  /\ a \in {vendor[call[c].on], "error"}
           \union (IF vendor[call[c].on] \in Final THEN {} ELSE {"unknown"})
  /\ Hang(c, [call[c] EXCEPT !.phase = "write", !.answer = a])
  /\ UNCHANGED <<row, submission, vendor, polling, due, old, losses>>

\* Mutant of Refreshed: completed_at is left alone unless the answer completes the task.
RefreshedKeepingStamp(now, seen, answer) ==
  CASE answer = "error"   -> now
    [] answer = "unknown" -> [now EXCEPT !.status = seen.status]
    [] OTHER              -> [now EXCEPT !.status = answer, !.stamp = @ \/ answer = "completed"]

\* What the UPDATE makes of the row, by id alone: an error only sets the error text;
\* status and completed_at otherwise come from the answer and from the row as it was read.
Refreshed(now, seen, answer) ==
  CASE answer = "error"   -> now
    [] answer = "unknown" -> [now EXCEPT !.status = seen.status, !.stamp = seen.stamp]
    [] OTHER              -> [now EXCEPT !.status = answer,
                                         !.stamp = answer = "completed" \/ seen.stamp]

WriteRow(c) ==
  /\ call[c].phase = "write"
  /\ row' = [row EXCEPT ![call[c].on] = Refreshed(@, call[c].seen, call[c].answer)]
  /\ Hang(c, Idle)
  /\ UNCHANGED <<submission, vendor, polling, due, old, losses>>

\* The SELECT or the UPDATE throws: the poller notes it and goes on, a request fails.
RefreshThrows(c) ==
  /\ call[c].phase \in {"read", "write"} /\ Lose
  /\ Hang(c, Idle)
  /\ UNCHANGED <<row, submission, vendor, polling, due, old>>

-----------------------------------------------------------------------------
(* The poller *)

\* Mutant of Pollable: rows that are running only.
PollableRunning(r) == row[r].status = "running" /\ row[r].task /\ r \notin old

\* What the poll selects.
Pollable(r) == row[r].status \in {"queued", "running"} /\ row[r].task /\ r \notin old

Poll ==
  /\ ~polling /\ polling' = TRUE
  /\ due' = {r \in Reports : Pollable(r)}
  /\ UNCHANGED <<row, submission, vendor, call, old, losses>>

WindowDone == polling /\ \A c \in Slots : ~Busy(c)

\* Promise.all over the next rows, each in a slot of its own: as many as there are slots.
NextWindow ==
  /\ WindowDone /\ due # {}
  /\ \E on \in [Slots -> due \union {None}] :
       /\ \A c, d \in Slots : on[c] # None /\ on[c] = on[d] => c = d
       /\ (\A c \in Slots : on[c] # None) \/ \A r \in due : \E c \in Slots : on[c] = r
       /\ call' = [c \in Callers |->
                     IF c \in Slots /\ on[c] # None THEN Begun(on[c]) ELSE call[c]]
       /\ due' = due \ {on[c] : c \in Slots}
  /\ UNCHANGED <<row, submission, vendor, polling, old, losses>>

PollEnds ==
  /\ WindowDone /\ due = {}
  /\ polling' = FALSE
  /\ UNCHANGED <<row, submission, vendor, call, due, old, losses>>

\* A process dies that runs the submissions S, the refreshes of the requests C and,
\* if p, the poll.
Dies(S, C, p) ==
  /\ Lose
  /\ \A r \in S : submission[r] \in {"asking", "accepted", "refused"}
  /\ submission' = [r \in Reports |-> IF r \in S THEN "over" ELSE submission[r]]
  /\ call' = [c \in Callers |-> IF c \in C \/ (p /\ c \in Slots) THEN Idle ELSE call[c]]
  /\ polling' = (polling /\ ~p)
  /\ due' = IF p THEN {} ELSE due
  /\ UNCHANGED <<row, vendor, old>>

SubmissionStep(r) ==
  Submit(r) \/ Dispatched(r) \/ Accepted(r) \/ Refused(r) \/ SubmitThrows(r)

RefreshStep(c) ==
  \/ \E r \in Reports : c \in Requests /\ Request(c, r)
  \/ ReadRow(c) \/ WriteRow(c) \/ RefreshThrows(c)
  \/ \E a \in Answers : Answer(c, a)

SandboxNext ==
  \/ \E r \in Reports : SubmissionStep(r) \/ VendorWorks(r) \/ DayPasses(r)
  \/ \E c \in Callers : RefreshStep(c)
  \/ Poll \/ NextWindow \/ PollEnds

\* On its own: rows are submitted by requests.
SandboxSpec ==
  SandboxInit /\ [][\/ SandboxNext
                   \/ \E S \in SUBSET Reports, C \in SUBSET Requests, p \in BOOLEAN :
                        Dies(S, C, p)]_svars

\* A poll is scheduled every five minutes; every call returns, and those for one row
\* are not answered with an error for ever.
FairSandboxSpec ==
  /\ SandboxSpec
  /\ WF_svars(Poll \/ NextWindow \/ PollEnds)
  /\ \A c \in Callers : WF_svars(ReadRow(c) \/ WriteRow(c) \/ \E a \in Answers : Answer(c, a))
  /\ \A r \in Reports : SF_svars(\E c \in Slots :
                               call[c].on = r /\ \E a \in Statuses : Answer(c, a))

-----------------------------------------------------------------------------
(***************************************************************************)
(* Properties.                                                             *)
(***************************************************************************)

\* completed_at is set exactly when the status is completed, whatever refreshes overlap
\* and in whatever order their answers are written, each without a condition.
StampedIffCompleted == \A r \in Reports : row[r].stamp <=> row[r].status = "completed"

\* Once the vendor is done with a task, its row comes to say so and goes on saying so,
\* although a late answer may undo it for a while; unless the day passes in which the
\* poller looks at it.
RowFollowsVendor ==
  \A r \in Reports :
    <>[](row[r].task /\ vendor[r] \in Final /\ r \notin old => row[r].status = vendor[r])
=============================================================================
