---------------------------- MODULE ReportCommit ----------------------------
(***************************************************************************)
(* Committing or dismissing the draft of one extracted report              *)
(* (apps/api/src/services/reportCommit.ts, routes/v1/reports.ts).  A       *)
(* commit checks the draft's status, upserts the approved IOCs one by one, *)
(* and sets the status; a request can fail or die at any await, and other  *)
(* requests run beside it.                                                 *)
(***************************************************************************)
EXTENDS IocTable

CONSTANTS
  Requests,     \* requests for this report, each made once
  Draft,        \* the IOCs in the draft that iocs has a type for
  Nobody,       \* committed_by of a draft
  MaxErrors     \* bound: requests that die, and upserts that throw

ASSUME CommitAssumption == Draft \subseteq IOCs /\ Nobody \notin Requests /\ MaxErrors \in Nat

VARIABLES
  report,       \* the row of extracted_reports: status and who settled it
  stage,        \* where each request is
  approved,     \* the IOCs the request was made for
  todo,         \* those it still has to upsert
  skipped,      \* those its summary counts as skipped
  errors

cvars == <<report, stage, approved, todo, skipped, errors>>

Statuses == {"draft", "committed", "dismissed"}
Stages == {"none", "committing", "dismissing", "over"}

CommitOK ==
  /\ report \in [status : Statuses, by : Requests \union {Nobody}]
  /\ stage \in [Requests -> Stages]
  /\ approved \in [Requests -> SUBSET IOCs]
  /\ todo \in [Requests -> SUBSET IOCs]
  /\ skipped \in [Requests -> SUBSET IOCs]
  /\ errors \in 0..MaxErrors

CommitInit ==
  /\ report = [status |-> "draft", by |-> Nobody]
  /\ stage = [r \in Requests |-> "none"]
  /\ approved = [r \in Requests |-> {}]
  /\ todo = [r \in Requests |-> {}]
  /\ skipped = [r \in Requests |-> {}]
  /\ errors = 0

Go(r, s) == stage' = [stage EXCEPT ![r] = s]
UseError == errors < MaxErrors /\ errors' = errors + 1

\* The report is read and is a draft.  Approved IOCs that are not in it are skipped.
CommitReport(r, S) ==
  /\ stage[r] = "none" /\ report.status = "draft"
  /\ Go(r, "committing")
  /\ approved' = [approved EXCEPT ![r] = S]
  /\ todo' = [todo EXCEPT ![r] = S \intersect Draft]
  /\ skipped' = [skipped EXCEPT ![r] = S \ Draft]
  /\ UNCHANGED <<report, errors>>

\* One approved IOC is inserted, or its row's last_seen set to now.
UpsertIoc(r, i) ==
  /\ stage[r] = "committing" /\ i \in todo[r]
  /\ Sight(i, 0)
  /\ todo' = [todo EXCEPT ![r] = @ \ {i}]
  /\ UNCHANGED <<report, stage, approved, skipped, errors>>

\* Mutant of UpsertFails: nothing is noted.
UpsertFailsSilently(r, i) ==
  /\ stage[r] = "committing" /\ i \in todo[r]
  /\ UseError
  /\ todo' = [todo EXCEPT ![r] = @ \ {i}]
  /\ UNCHANGED <<table, report, stage, approved, skipped>>

\* The upsert throws: the IOC is counted as skipped, and the loop goes on.
UpsertFails(r, i) ==
  /\ stage[r] = "committing" /\ i \in todo[r]
  /\ UseError
  /\ todo' = [todo EXCEPT ![r] = @ \ {i}]
  /\ skipped' = [skipped EXCEPT ![r] = @ \union {i}]
  /\ UNCHANGED <<table, report, stage, approved>>

\* Mutant of MarkCommitted: the status is set before the IOCs are written.
MarkCommittedFirst(r) ==
  /\ stage[r] = "committing"
  /\ report.status = "draft"
  /\ report' = [status |-> "committed", by |-> r]
  /\ UNCHANGED <<stage, approved, todo, skipped, errors>>

\* markCommitted: by id alone, whatever the status has become.
MarkCommitted(r) ==
  /\ stage[r] = "committing" /\ todo[r] = {}
  /\ report' = [status |-> "committed", by |-> r]
  /\ Go(r, "over")
  /\ UNCHANGED <<approved, todo, skipped, errors>>

\* POST /reports/:id/dismiss reads the status, and
StartDismiss(r) ==
  /\ stage[r] = "none" /\ report.status = "draft"
  /\ Go(r, "dismissing")
  /\ UNCHANGED <<report, approved, todo, skipped, errors>>

\* dismissReport sets it, by id alone.
DismissReport(r) ==
  /\ stage[r] = "dismissing"
  /\ report' = [status |-> "dismissed", by |-> r]
  /\ Go(r, "over")
  /\ UNCHANGED <<approved, todo, skipped, errors>>

\* The process dies or a call outside the loop throws.
RequestDies(r) ==
  /\ stage[r] \in {"committing", "dismissing"} /\ UseError
  /\ Go(r, "over")
  /\ approved' = [approved EXCEPT ![r] = {}]
  /\ todo' = [todo EXCEPT ![r] = {}]
  /\ skipped' = [skipped EXCEPT ![r] = {}]
  /\ UNCHANGED report

\* Whatever is no draft is refused.
Refuse(r) ==
  /\ stage[r] = "none" /\ report.status # "draft"
  /\ Go(r, "over")
  /\ UNCHANGED <<report, approved, todo, skipped, errors>>

\* Steps that leave the table alone.
RequestStep(r) ==
  \/ \E S \in SUBSET IOCs : CommitReport(r, S)
  \/ MarkCommitted(r) \/ StartDismiss(r) \/ DismissReport(r) \/ RequestDies(r) \/ Refuse(r)
=============================================================================
