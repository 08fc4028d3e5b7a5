----------------------------- MODULE Automation -----------------------------
(***************************************************************************)
(* Playbooks and sandbox reports together: sandbox_trigger awaits a        *)
(* submission, requests submit and refresh beside it, the poller refreshes *)
(* what is unsettled, and processes die under all of them.                 *)
(***************************************************************************)
EXTENDS Playbooks

vars == <<svars, pvars>>

TypeOK == SandboxOK /\ PlaybooksOK

Init == SandboxInit /\ PlaybooksInit

\* What an execution does on its own.
ExecStep(x) ==
  \/ Begin(x) \/ Skip(x) \/ TriggerFails(x) \/ TriggerEnds(x) \/ Close(x)
  \/ Notify(x) \/ Lookup(x)
  \/ \E ok \in BOOLEAN : Effect(x, ok) \/ \E S \in SUBSET Playbooks : Notified(x, ok, S)

\* The evaluation of an event from outside goes on.
EvalStep(v) == Lookup(v) \/ \E S \in SUBSET Playbooks : Spawn(v, S, exec)

PlaybooksNext ==
  \/ \E v \in Emitters : Emit(v) \/ EvalStep(v)
  \/ \E x \in Execs : ExecStep(x) \/ \E p \in Playbooks : RunNow(x, p)
  \/ \E p \in Playbooks : Delete(p) \/ \E on \in BOOLEAN : Enable(p, on)

SandboxTrigger(x, r) == Trigger(x, r) /\ Submit(r)

\* An execution's statement throws, or an evaluation's.
ThrowsSomewhere ==
  /\ \E x \in Execs : StatementThrows(x) \/ \E v \in Evaluators : LookupThrows(v)
  /\ Lose
  /\ UNCHANGED <<row, submission, vendor, call, polling, due, old>>

\* A process dies with all it runs: an execution, its submission and the evaluation of its
\* notification are of one process.
ProcessDies(X, V, S, C, p) ==
  /\ (\A x \in X : Under(x)) /\ \A v \in V : Pending(v)
  /\ \A x \in Execs : exec[x].phase = "submitting" /\ submission[exec[x].on] # "over" =>
                        (x \in X <=> exec[x].on \in S)
  /\ Abandoned(X, V) /\ Dies(S, C, p)

Next ==
  \/ SandboxNext /\ UNCHANGED pvars
  \/ PlaybooksNext /\ UNCHANGED svars
  \/ ThrowsSomewhere \/ \E x \in Execs, r \in Reports : SandboxTrigger(x, r)
  \/ \E X \in SUBSET Execs, V \in SUBSET Emitters, S \in SUBSET Reports,
        C \in SUBSET Requests, p \in BOOLEAN : ProcessDies(X, V, S, C, p)

Spec == Init /\ [][Next]_vars

\* A process that lives goes on with its submissions, executions and evaluations.
FairSpec ==
  /\ Spec
  /\ \A r \in Reports : WF_vars((Dispatched(r) \/ Accepted(r) \/ Refused(r)) /\ UNCHANGED pvars)
  /\ \A x \in Execs : WF_vars(\/ ExecStep(x) /\ UNCHANGED svars
                             \/ \E r \in Reports : SandboxTrigger(x, r))
  /\ \A v \in Emitters : WF_vars(EvalStep(v) /\ UNCHANGED svars)

-----------------------------------------------------------------------------
(***************************************************************************)
(* Properties.                                                             *)
(***************************************************************************)

\* An execution's row that says running is being run, unless a process or a statement
\* was lost.
RunningHasCause ==
  \A x \in Execs : exec[x].status = "running" /\ ~Under(x) => losses > 0

\* A completed execution has had every submission it made accepted: its report rows carry
\* the vendor's task, which the poller follows.
CompletedIsTracked ==
  \A x \in Execs : exec[x].status = "completed" =>
    \A r \in exec[x].reports : row[r].task

\* Playbooks that listen to the notifications playbooks send can keep each other going
\* for ever; disabling them (or deleting them) brings everything to rest, also what has
\* been found enabled and is executed after it was disabled.
NotificationsStop ==
  <>[](\A p \in enabled : Heard[p].event # "playbook.notification")
    => <>[]((\A x \in Execs : ~Under(x)) /\ \A v \in Evaluators : ~Pending(v))
=============================================================================
