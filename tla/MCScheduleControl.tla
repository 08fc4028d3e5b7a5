-------------------------- MODULE MCScheduleControl --------------------------
(***************************************************************************)
(* Instances of ScheduleControl for TLC.  The first job's default is the   *)
(* first cron; queue "feeds" is a managed queue, "graph" (neo4j-sync) is   *)
(* not.                                                                    *)
(***************************************************************************)
EXTENDS ScheduleControl, FiniteSets, TLC

CONSTANTS j1, j2, old, feeds, graph, c1, c2

Symmetry == Permutations(Reqs)

TwoJobs == (j1 :> feeds) @@ (j2 :> graph) @@ (old :> feeds)
TwoJobsDefault == (j1 :> c1) @@ (j2 :> c2)

\* Either a quiet system, no boot and no fault to come, and every request beside the
\* others; or a system about to boot on whatever it finds, with one request.
MCInit ==
  \/ /\ Init /\ boots = MaxBoots /\ faults = MaxFaults
     /\ \A p \in Procs : pc[p] = "idle"
  \/ /\ InitStale /\ boots = 0 /\ faults = 0 /\ pc[Boot] = "idle"
     /\ Cardinality({r \in Reqs : pc[r] = "idle"}) = 1

MCSpec == MCInit /\ [][Next]_vars
=============================================================================
