----------------------------- MODULE Playbooks ------------------------------
(***************************************************************************)
(* Playbooks (apps/api/src/services/playbooks.ts, its listener in          *)
(* startup.ts, emitWebhookEvent in packages/core/src/webhooks.ts,          *)
(* routes/v1/playbooks.ts).  Evaluating an event takes two SELECTs of the  *)
(* enabled playbooks that listen to it; then an execution of each is       *)
(* spawned, and nobody awaits those.  An execution reads its playbook,     *)
(* inserts its row as running, runs the actions in order and closes the    *)
(* row with one UPDATE.  A "notify" action is itself an event, and awaits  *)
(* its evaluation.  Conditions and guards are choices: what they compute   *)
(* from the trigger's data is left out.                                    *)
(***************************************************************************)
EXTENDS Sandbox, Sequences

CONSTANTS
  Playbooks,
  Heard,        \* per playbook, the event its trigger names, exactly or by a wildcard
  Actions,      \* per playbook, its actions
  Execs,        \* executions at a time; a new one takes the place of one that is over
  Emitters,     \* events from outside under evaluation at a time
  MaxEvents     \* bound: events from outside and manual runs

Events == {"external", "playbook.notification"}
ActionType == [type : {"effect", "notify", "sandbox"}, guarded : BOOLEAN, goesOn : BOOLEAN]

ASSUME PlaybookAssumption ==
  /\ Heard \in [Playbooks -> [event : Events \union {None}, wild : BOOLEAN]]
  /\ Actions \in [Playbooks -> Seq(ActionType)]
  /\ Execs \intersect Emitters = {}
  /\ MaxEvents \in Nat

VARIABLES
  kept,         \* playbooks not deleted
  enabled,
  exec,         \* executions: where each is, and its row of playbook_executions
  eval,         \* evaluations: an execution's of its notification, an emitter's of its event
  events

pvars == <<kept, enabled, exec, eval, events>>

Phases == {"idle", "spawned", "acting", "submitting", "notifying", "closing"}

\* "good" and "reports" are what the results say: no action failed; the rows submitted.
\* "on" is the last of them.
Executions ==
  [pb : Playbooks, phase : Phases, at : Nat \ {0}, good : BOOLEAN,
   status : {"none", "running", "completed", "failed"}, reports : SUBSET Reports,
   on : Reports \union {None}]

Spawned(p) ==
  [pb |-> p, phase |-> "spawned", at |-> 1, good |-> TRUE, status |-> "none", reports |-> {},
   on |-> None]

Evaluators == Execs \union Emitters

\* "stage" is what has been read: nothing, the exact triggers, all; "matched" what was found.
Evaluations == [stage : {"over", "begun", "exact", "all"}, matched : SUBSET Playbooks]
Over == [stage |-> "over", matched |-> {}]
Unread == [stage |-> "begun", matched |-> {}]

PlaybooksOK ==
  /\ kept \in SUBSET Playbooks /\ enabled \in SUBSET kept
  /\ exec \in [Execs -> Executions] /\ eval \in [Evaluators -> Evaluations]
  /\ events \in 0..MaxEvents

PlaybooksInit ==
  /\ kept = Playbooks /\ enabled = Playbooks
  /\ exec \in [Execs -> {[Spawned(p) EXCEPT !.phase = "idle"] : p \in Playbooks}]
  /\ eval = [v \in Evaluators |-> Over]
  /\ events = 0

Under(x) == exec[x].phase # "idle"
Pending(v) == eval[v].stage # "over"

-----------------------------------------------------------------------------
(* Events *)

EventOf(v) == IF v \in Execs THEN "playbook.notification" ELSE "external"

\* Mutant of Matching: disabled playbooks too.
MatchingAll(e, w) == {p \in kept : Heard[p] = [event |-> e, wild |-> w]}

\* What a SELECT of evaluatePlaybooks finds.
Matching(e, w) == {p \in enabled : Heard[p] = [event |-> e, wild |-> w]}

\* The first SELECT, or the second.
Lookup(v) ==
  /\ \/ /\ eval[v].stage = "begun"
        /\ eval' = [eval EXCEPT ![v] = [stage |-> "exact", matched |-> Matching(EventOf(v), FALSE)]]
     \/ /\ eval[v].stage = "exact"
        /\ eval' = [eval EXCEPT ![v] = [stage |-> "all",
                                        matched |-> @.matched \union Matching(EventOf(v), TRUE)]]
  /\ UNCHANGED <<kept, enabled, exec, events>>

\* A SELECT throws; the listener catches it, and nothing is spawned.
LookupThrows(v) ==
  /\ eval[v].stage \in {"begun", "exact"}
  /\ eval' = [eval EXCEPT ![v] = [stage |-> "all", matched |-> {}]]
  /\ UNCHANGED <<kept, enabled, exec, events>>

\* The evaluation ends: of what it has read, disabled or deleted since or not, it spawns
\* S, those whose conditions hold, beside the executions "now".
Spawn(v, S, now) ==
  /\ eval[v].stage = "all" /\ S \subseteq eval[v].matched
  /\ \E at \in [S -> Execs] :
       /\ \A p, q \in S : at[p] = at[q] => p = q
       /\ \A p \in S : now[at[p]].phase = "idle"
       /\ exec' = [x \in Execs |-> IF \E p \in S : at[p] = x
                                   THEN Spawned(CHOOSE p \in S : at[p] = x) ELSE now[x]]
  /\ eval' = [eval EXCEPT ![v] = Over]
  /\ UNCHANGED <<kept, enabled, events>>

\* A feed, an enrichment or an analysis has ended.
Emit(v) ==
  /\ events < MaxEvents /\ events' = events + 1
  /\ ~Pending(v) /\ eval' = [eval EXCEPT ![v] = Unread]
  /\ UNCHANGED <<kept, enabled, exec>>

\* POST /:id/execute, whether the playbook is enabled or not.
RunNow(x, p) ==
  /\ events < MaxEvents /\ events' = events + 1
  /\ ~Under(x) /\ p \in kept
  /\ exec' = [exec EXCEPT ![x] = Spawned(p)]
  /\ UNCHANGED <<kept, enabled, eval>>

Enable(p, on) ==
  /\ p \in kept
  /\ enabled' = IF on THEN enabled \union {p} ELSE enabled \ {p}
  /\ UNCHANGED <<kept, exec, eval, events>>

\* Mutant of Delete: the playbook still matches events.
DeleteSoftly(p) ==
  /\ p \in kept
  /\ kept' = kept \ {p}
  /\ UNCHANGED <<enabled, exec, eval, events>>

\* DELETE cascades to the rows of the playbook's executions; those under way go on.
Delete(p) ==
  /\ p \in kept
  /\ kept' = kept \ {p} /\ enabled' = enabled \ {p}
  /\ exec' = [x \in Execs |-> IF exec[x].pb = p THEN [exec[x] EXCEPT !.status = "none"]
                              ELSE exec[x]]
  /\ UNCHANGED <<eval, events>>

-----------------------------------------------------------------------------
(* An execution *)

Become(x, e) == exec' = [exec EXCEPT ![x] = e]
Reaches(x) == exec[x].phase = "acting" /\ exec[x].at \in 1..Len(Actions[exec[x].pb])
Action(x) == Actions[exec[x].pb][exec[x].at]

\* The playbook is read and the row inserted; a deleted playbook is an error.
Begin(x) ==
  /\ exec[x].phase = "spawned"
  /\ Become(x, IF exec[x].pb \in kept
               THEN [exec[x] EXCEPT !.phase = "acting", !.status = "running"]
               ELSE [exec[x] EXCEPT !.phase = "idle"])
  /\ UNCHANGED <<kept, enabled, eval, events>>

\* Mutant of After: a failure returns at once.
AfterReturning(x, success) ==
  [exec[x] EXCEPT !.phase = IF success \/ Action(x).goesOn THEN "acting" ELSE "idle",
                  !.at = @ + 1,
                  !.good = @ /\ success]

\* The execution after the action it reached succeeds or fails.
After(x, success) ==
  [exec[x] EXCEPT !.phase = IF success \/ Action(x).goesOn THEN "acting" ELSE "closing",
                  !.at = @ + 1,
                  !.good = @ /\ success]

\* Its guard is false: a success, without running it.
Skip(x) ==
  /\ Reaches(x) /\ Action(x).guarded
  /\ Become(x, After(x, TRUE))
  /\ UNCHANGED <<kept, enabled, eval, events>>

\* enrich, alert, tag or warninglist_check.
Effect(x, success) ==
  /\ Reaches(x) /\ Action(x).type = "effect"
  /\ Become(x, After(x, success))
  /\ UNCHANGED <<kept, enabled, eval, events>>

\* The event goes to its subscribers, one after the other, and then to the playbooks ...
Notify(x) ==
  /\ Reaches(x) /\ Action(x).type = "notify"
  /\ Become(x, [exec[x] EXCEPT !.phase = "notifying"])
  /\ eval' = [eval EXCEPT ![x] = Unread]
  /\ UNCHANGED <<kept, enabled, events>>

\* ... whose executions are spawned before it goes on; the deliveries tell its success.
Notified(x, success, S) ==
  /\ exec[x].phase = "notifying"
  /\ Spawn(x, S, [exec EXCEPT ![x] = After(x, success)])

\* sandbox_trigger submits r ...
Trigger(x, r) ==
  /\ Reaches(x) /\ Action(x).type = "sandbox"
  /\ Become(x, [exec[x] EXCEPT !.phase = "submitting", !.reports = @ \union {r}, !.on = r])
  /\ UNCHANGED <<kept, enabled, eval, events>>

\* ... or fails before there is a row.
TriggerFails(x) ==
  /\ Reaches(x) /\ Action(x).type = "sandbox"
  /\ Become(x, After(x, FALSE))
  /\ UNCHANGED <<kept, enabled, eval, events>>

\* Mutant of Submitted: a submission that did not throw is a success.
SubmittedSomehow(r) == row[r].status # "queued"

\* outcome.submitted; a submission that throws is a failure too.
Submitted(r) == row[r].task

TriggerEnds(x) ==
  /\ exec[x].phase = "submitting" /\ submission[exec[x].on] = "over"
  /\ Become(x, After(x, Submitted(exec[x].on)))
  /\ UNCHANGED <<kept, enabled, eval, events>>

\* The loop is over: after the last action, or at a failure.
Closes(x) == exec[x].phase = "closing" \/ (exec[x].phase = "acting" /\ ~Reaches(x))

\* The only UPDATE of the row.
Close(x) ==
  /\ Closes(x)
  /\ Become(x, [exec[x] EXCEPT !.phase = "idle",
                               !.status = IF @ = "none" THEN @
                                          ELSE IF exec[x].good THEN "completed" ELSE "failed"])
  /\ UNCHANGED <<kept, enabled, eval, events>>

\* The executions X and the evaluations V end where they are: their process has died.
Abandoned(X, V) ==
  /\ exec' = [x \in Execs |-> IF x \in X THEN [exec[x] EXCEPT !.phase = "idle"] ELSE exec[x]]
  /\ eval' = [v \in Evaluators |-> IF v \in X \union V THEN Over ELSE eval[v]]
  /\ UNCHANGED <<kept, enabled, events>>

\* The INSERT or the UPDATE throws: the row stays as it is.
StatementThrows(x) ==
  /\ exec[x].phase = "spawned" \/ Closes(x)
  /\ Abandoned({x}, {})
=============================================================================
