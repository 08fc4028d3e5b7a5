------------------------------ MODULE IocLife -------------------------------
(***************************************************************************)
(* The life of an IOC's row: feeds, reports and the maintenance jobs that  *)
(* write the same table without knowing of each other.                     *)
(***************************************************************************)
EXTENDS Maintenance, ReportCommit

VARIABLE
  lost        \* what a request had dealt with, and was deleted and not inserted since

vars == <<table, mvars, cvars, lost>>

TypeOK ==
  /\ TableOK /\ MaintenanceOK /\ CommitOK
  /\ lost \in [Requests -> SUBSET IOCs]

Init == MaintenanceInit /\ CommitInit /\ lost = [r \in Requests |-> {}]

\* History: the IOCs of a request that had a row, until they have one again.
Lose ==
  lost' = [r \in Requests |->
            (approved'[r] \intersect (lost[r] \union (rows \ todo[r]))) \ rows']

Upsert(r, i) ==
  \/ UpsertIoc(r, i) /\ UNCHANGED <<worker, faults>> /\ Observe(i)
  \/ UpsertFails(r, i) /\ UNCHANGED mvars

Report(r) ==
  \/ \E i \in IOCs : Upsert(r, i)
  \/ RequestStep(r) /\ UNCHANGED <<table, mvars>>

Next ==
  /\ \/ MaintenanceNext /\ UNCHANGED cvars
     \/ \E r \in Requests : Report(r)
  /\ Lose

Spec == Init /\ [][Next]_vars

-----------------------------------------------------------------------------
(***************************************************************************)
(* Properties, besides FreshHiddenOnlyByRace, to which the reports add     *)
(* another writer of last_seen.                                            *)
(***************************************************************************)

\* Whatever fails or overlaps, what the request that is named in a committed report
\* approved is in the table, is skipped on record, or was deleted after the request
\* had dealt with it; until then a dead request leaves a draft that can be committed
\* again.
CommittedIsComplete ==
  report.status = "committed" =>
    approved[report.by] \subseteq rows \union skipped[report.by] \union lost[report.by]
=============================================================================
