--------------------------- MODULE FeedSyncEvents ---------------------------
(***************************************************************************)
(* What the platform is told of a feed sync: the events of feedSyncWorker  *)
(* (queues/workers/workerEvents.ts) beside the executions of FeedSyncRun.  *)
(*                                                                         *)
(* A handler that reports what is new (services/feedSync/otxSync.ts) reads *)
(* which values the table has, then inserts the others, and it is the      *)
(* number of the others that the "completed" listener goes by.  BullMQ     *)
(* emits an event in the process that settled the job and keeps no record  *)
(* of it: what a listener had still to do is gone with its process, or     *)
(* with the first of its calls that fails.                                 *)
(***************************************************************************)
EXTENDS FeedSyncRun

CONSTANTS
  Values,    \* what the feed delivers while the job lasts
  Sources    \* the feeds a job may be for

\* The sources whose news goes on to another queue; a feed of no list gets a bell only.
IocSources == {"otx", "abusessl", "threatfox", "urlhaus", "malwarebazaar", "openphish", "all"}
ActorSources == {"mitre", "mispgalaxy"}
CveSources == {"nvd", "cisa", "all"}
KevSources == {"cisa", "all"}

VARIABLES
  table,      \* what the feed delivered and has a row
  checked,    \* executions whose handler has read the table and not inserted yet
  fresh,      \* what an execution counts as added
  source,     \* the feed of a job: in its data from the start, but as only the listener
              \* of "completed" goes by it, left open until the first list is looked at
  listener,   \* what the listener of a job's last event adds next
  posted      \* the jobs it has added

syncVars == <<table, checked, fresh>>
eventVars == <<source, listener, posted>>
allVars == <<vars, syncVars, eventVars>>

\* The jobs a listener adds: the bell and the alert of the dashboard, the syncs of
\* IOCs, actors and CVEs to the graph, and the scoring of CVEs.
News == {"bell", "iocs", "actors", "cves", "scores"}
Busy == News \union {"alert"}

EventsTypeOK ==
  /\ table \subseteq Values /\ checked \subseteq Execs
  /\ fresh \in [Execs -> SUBSET Values]
  /\ source \in [Jobs -> Sources \union {"open"}]
  /\ listener \in [Jobs -> Busy \union {"none", "done", "lost"}]
  /\ posted \in [Jobs -> SUBSET Busy]

EventsInit ==
  /\ Init
  /\ table \in SUBSET Values /\ checked = {} /\ fresh = [e \in Execs |-> {}]
  /\ source = [j \in Jobs |-> "open"]
  /\ listener = [j \in Jobs |-> "none"] /\ posted = [j \in Jobs |-> {}]

Hear(j, l) == listener' = [listener EXCEPT ![j] = l]

-----------------------------------------------------------------------------
(***************************************************************************)
(* The feed's handler, inside Ingest.                                      *)
(***************************************************************************)

\* The feed is fetched and compared with the table.
DeltaCheck(e) ==
  /\ stage[e] = "check" /\ e \notin checked
  /\ checked' = checked \union {e}
  /\ fresh' = [fresh EXCEPT ![e] = Values \ table]
  /\ UNCHANGED <<vars, table, eventVars>>

\* The rows are inserted.  An INSERT that fails is noted in the result and does not
\* change what it counts; a feed that cannot be fetched is noted as well, and counts
\* nothing.  What goes into the batch is up to the feed: what the handler hands over, or
\* what the table shows to have been touched since the run began.
Insert(e) ==
  /\ Ingest(e)
  /\ table' \in {table, table \union fresh[e]} /\ checked' = checked \ {e}
  /\ UNCHANGED <<fresh, eventVars>>

\* What throws may throw before or after the rows are there; its count is gone.
InsertThrows(e) ==
  /\ IngestThrows(e)
  /\ \/ UNCHANGED table
     \/ e \in checked /\ table' = table \union fresh[e]
  /\ checked' = checked \ {e} /\ fresh' = [fresh EXCEPT ![e] = {}]
  /\ UNCHANGED eventVars

SkipUnread(e) ==
  SkipFeed(e) /\ e \notin checked /\ UNCHANGED <<syncVars, eventVars>>

-----------------------------------------------------------------------------
(***************************************************************************)
(* The events.                                                             *)
(***************************************************************************)

\* Mutant of Added: it goes by the children of the batch.
AddedToBatch(e) == IF found[e] = {} THEN "done" ELSE "bell"

\* The listener of "completed" does something only if indicators were added.
Added(e) == IF fresh[e] = {} THEN "done" ELSE "bell"

\* What it adds after each job, for a feed: the lists are gone through in this order.
AfterCves(s) == IF s \in KevSources THEN "scores" ELSE "done"
AfterActors(s) == IF s \in CveSources THEN "cves" ELSE "done"
AfterIocs(s) == IF s \in ActorSources THEN "actors" ELSE AfterActors(s)
AfterBell(s) == IF s \in IocSources THEN "iocs" ELSE AfterIocs(s)

\* Mutant of Failed: one attempt too early.
FailedEarly(m) == IF m + 1 >= Attempts THEN "alert" ELSE "none"

\* The listener of "failed" raises an alert for a failure it takes for permanent,
\* and goes by attemptsMade.
Failed(m) == IF m >= Attempts THEN "alert" ELSE "none"

ReturnHeard(e) ==
  /\ Return(e)
  /\ IF Holds(e) THEN Hear(e[1], Added(e)) ELSE UNCHANGED listener
  /\ UNCHANGED <<syncVars, source, posted>>

\* Mutant of ThrowHeard: it goes by the attempts made before this one.
ThrowHeardBefore(e) ==
  /\ Throw(e)
  /\ IF Holds(e) THEN Hear(e[1], Failed(made[e[1]])) ELSE UNCHANGED listener
  /\ UNCHANGED <<syncVars, source, posted>>

ThrowHeard(e) ==
  /\ Throw(e)
  /\ IF Holds(e) THEN Hear(e[1], Failed(made[e[1]] + 1)) ELSE UNCHANGED listener
  /\ UNCHANGED <<syncVars, source, posted>>

\* A job that stalled once too often fails as well; whether that counts as an
\* attempt depends on the version of BullMQ.
StallHeard(j) ==
  /\ Stall(j) \/ FalseStall(j)
  /\ IF state'[j] = "failed"
     THEN \E m \in {made[j], made[j] + 1} : Hear(j, Failed(m))
     ELSE UNCHANGED listener
  /\ UNCHANGED <<syncVars, source, posted>>

Post(j, what, next) ==
  /\ listener[j] = what /\ Hear(j, next)
  /\ posted' = [posted EXCEPT ![j] = @ \union {what}]
  /\ UNCHANGED <<vars, syncVars>>

\* The notification of the dashboard, then the queues its feed is listed for.  The
\* indexing behind a sync of the graph is in a try of its own.
PostBell(j) ==
  \E s \in Sources :
    Post(j, "bell", AfterBell(s)) /\ source' = [source EXCEPT ![j] = s]
PostNews(j, what, next) == Post(j, what, next) /\ UNCHANGED source
PostIocs(j) == PostNews(j, "iocs", AfterIocs(source[j]))
PostActors(j) == PostNews(j, "actors", AfterActors(source[j]))
PostCves(j) == PostNews(j, "cves", AfterCves(source[j]))
PostScores(j) == PostNews(j, "scores", "done")
PostAlert(j) == PostNews(j, "alert", "done")

\* A call of the listener fails, or its process dies: nobody takes over.
ListenerFails(j) ==
  /\ listener[j] \in Busy /\ Hear(j, "lost")
  /\ UNCHANGED <<vars, syncVars, source, posted>>

\* The process dies, with what its executions had counted and with the listeners that
\* were at work in it.
CrashHeard ==
  /\ Crash
  /\ listener' = [j \in Jobs |-> IF listener[j] \in Busy THEN "lost" ELSE listener[j]]
  /\ checked' = {}
  /\ fresh' = [e \in Execs |-> IF stage[e] \in Live THEN {} ELSE fresh[e]]
  /\ UNCHANGED <<table, source, posted>>

-----------------------------------------------------------------------------
Unheard(e) ==
  /\ SkipAll(e) \/ OpenRun(e) \/ AddFlow(e) \/ CompleteRun(e) \/ FailRun(e)
  /\ UNCHANGED <<syncVars, eventVars>>

StepHeard(e) ==
  \/ Unheard(e) \/ SkipUnread(e) \/ DeltaCheck(e) \/ Insert(e) \/ InsertThrows(e)
  \/ ReturnHeard(e) \/ ThrowHeard(e)

Listen(j) ==
  \/ PostBell(j) \/ PostIocs(j) \/ PostActors(j) \/ PostCves(j) \/ PostScores(j)
  \/ PostAlert(j)

StartUnheard(j) == Start(j) /\ UNCHANGED <<syncVars, eventVars>>
TroubleUnheard(e) == Trouble(e) /\ UNCHANGED <<syncVars, eventVars>>
EnrichUnheard(e) == Enrich(e) /\ UNCHANGED <<syncVars, eventVars>>

EventsNext ==
  \/ \E j \in Jobs : StartUnheard(j) \/ StallHeard(j) \/ Listen(j) \/ ListenerFails(j)
  \/ \E e \in Execs : StepHeard(e) \/ TroubleUnheard(e) \/ EnrichUnheard(e)
  \/ CrashHeard

EventsSpec == EventsInit /\ [][EventsNext]_allVars

\* As in FeedSyncRun; the properties of the listeners do not need them to go on.
EventsFairness ==
  /\ \A j \in Jobs :
       /\ WF_allVars(StartUnheard(j)) /\ WF_allVars(Stall(j) /\ StallHeard(j))
  /\ \A e \in Execs : WF_allVars(StepHeard(e)) /\ WF_allVars(EnrichUnheard(e))
FairEventsSpec == EventsSpec /\ EventsFairness

-----------------------------------------------------------------------------
(***************************************************************************)
(* Properties.                                                             *)
(***************************************************************************)

\* An alert about a failure is about a job that has failed for good, after its last
\* attempt or its last stall, and a job that is announced has completed: an
\* execution that was overtaken raises neither.
AnnouncedAsSettled ==
  \A j \in Jobs :
    /\ "alert" \in posted[j] => state[j] = "failed"
    /\ posted[j] \intersect News # {} => state[j] = "completed"

\* A job that used up its attempts is alerted about, unless the listener was lost.
\* (One that stalled too often may not be.)
FailureAlerted ==
  \A j \in Jobs :
    state[j] = "failed" /\ made[j] = Attempts =>
      "alert" \in posted[j] \/ listener[j] \in {"alert", "lost"}

\* What the news of a feed is owed to.
Owed(s) ==
  {"bell"}
    \union (IF s \in IocSources THEN {"iocs"} ELSE {})
    \union (IF s \in ActorSources THEN {"actors"} ELSE {})
    \union (IF s \in CveSources THEN {"cves"} ELSE {})
    \union (IF s \in KevSources THEN {"scores"} ELSE {})

\* What a completed sync added is announced on the dashboard and goes to the queues its
\* feed is listed for, and to no other, unless an attempt of it threw, a call failed, a
\* process died or the listener was lost.  (What such an attempt has inserted is there
\* for the next, which counts it no more.)
AddedAnnounced ==
  faults = 0 =>
    \A e \in Execs :
      state[e[1]] = "completed" /\ made[e[1]] = 0 /\ fresh[e] # {} =>
        \/ posted[e[1]] = Owed(source[e[1]])
        \/ listener[e[1]] \in News \union {"lost"}
=============================================================================
