----------------------------- MODULE MCFeedSyncRun -----------------------------
(***************************************************************************)
(* Instances of FeedSyncRun and FeedSyncEvents for TLC: jobs share nothing *)
(* but the workers and the table, so one job with all its executions shows *)
(* what there is to show.                                                  *)
(***************************************************************************)
EXTENDS FeedSyncEvents, TLC

\* A smaller batch goes through what a part of the whole one does.
NoneOrAll == {{}, Iocs}
=============================================================================
