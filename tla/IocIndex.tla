------------------------------ MODULE IocIndex ------------------------------
(***************************************************************************)
(* The search index of IOCs.  Postgres triggers notify the channel         *)
(* opensearch_sync of every insert and update; the listener                *)
(* (services/db-listener.ts) reads the row and indexes it.  A timer        *)
(* (services/scheduler.ts), the listener of completed feed syncs           *)
(* (queues/workers/workerEvents.ts) and an admin's requests reindex all    *)
(* rows (services/opensearch/indexing.ts), and a daily job                 *)
(* (services/opensearchPrune.ts) is to drop the documents of decayed rows. *)
(*                                                                         *)
(* A row is a version, which every write of it increments, and a document  *)
(* is the version it was made from.  All IOC documents are in the index    *)
(* "unified"; nothing writes the other index the pruning goes over.        *)
(***************************************************************************)
EXTENDS Integers, FiniteSets

CONSTANTS
  Iocs,         \* uuids of rows
  None,         \* a handler that is not there
  Handlers,     \* bound: handlers of notifications under way
  Reindexers,   \* bound: calls of indexIOCs under way
  Timer,        \* the one of the scheduler's interval
  Batch,        \* BATCH of the pruning
  MaxRows,      \* MAX_ROWS of the pruning
  MaxVer,       \* bound: versions of a row
  MaxInbox,     \* bound: notifications of a row whose handler has not read it
  MaxFaults,    \* bound: calls of Postgres or OpenSearch that fail
  MaxDrops,     \* bound: losses of the LISTEN connection
  MaxCrashes    \* bound: process crashes

ASSUME IocIndexAssumption ==
  /\ None \notin Iocs /\ Timer \in Reindexers
  /\ Batch \in Nat \ {0} /\ MaxRows \in Nat \ {0}
  /\ MaxVer \in Nat \ {0} /\ MaxInbox \in Nat \ {0}
  /\ MaxFaults \in Nat /\ MaxDrops \in Nat /\ MaxCrashes \in Nat

\* _id of an IOC's document: the uuid with a prefix, so it is no uuid itself.
DocId(i) == <<"ioc", i>>
DocIds == {DocId(i) : i \in Iocs}

ASSUME DocIdAssumption == DocIds \intersect Iocs = {}

VARIABLES
  ver,        \* version of each row, 0 before the INSERT
  gone,       \* rows that have been deleted
  decayed,    \* rows with decayed_at set
  conn,       \* "down": no process; "deaf": its LISTEN connection is lost
  inbox,      \* notifications received, whose handler has not read the row yet
  row, read,  \* a handler's row and the version it read
  snap,       \* what a reindex has read and not indexed yet, 0 for nothing
  prune,      \* the pruning: "idle", or about to "select" or to "delete" a page
  offset, page,
  doc,        \* version in each document, 0 if there is none
  faults, drops, crashes

rowVars == <<ver, gone, decayed>>
listener == <<conn, inbox, row, read>>
pruneVars == <<prune, offset, page>>
env == <<faults, drops, crashes>>
vars == <<rowVars, listener, snap, pruneVars, doc, env>>

Versions == 0..MaxVer

TypeOK ==
  /\ ver \in [Iocs -> Versions] /\ gone \subseteq Iocs
  /\ decayed \subseteq Iocs
  /\ conn \in {"down", "deaf", "listening"}
  /\ inbox \in [Iocs -> 0..MaxInbox]
  /\ row \in [Handlers -> Iocs \union {None}] /\ read \in [Handlers -> Versions]
  /\ \A h \in Handlers : row[h] # None <=> read[h] > 0
  /\ snap \in [Reindexers -> [Iocs -> Versions]]
  /\ prune \in {"idle", "select", "delete"}
  /\ offset \in Nat /\ offset < MaxRows /\ page \subseteq Iocs
  /\ doc \in [DocIds -> Versions]
  /\ faults \in 0..MaxFaults /\ drops \in 0..MaxDrops /\ crashes \in 0..MaxCrashes

Nothing == [i \in Iocs |-> 0]

\* A process that has just begun to listen, and no IOC yet.
Init ==
  /\ ver = Nothing /\ gone = {} /\ decayed = {}
  /\ conn = "listening" /\ inbox = Nothing
  /\ row = [h \in Handlers |-> None] /\ read = [h \in Handlers |-> 0]
  /\ snap = [r \in Reindexers |-> Nothing]
  /\ prune = "idle" /\ offset = 0 /\ page = {}
  /\ doc = [k \in DocIds |-> 0]
  /\ faults = 0 /\ drops = 0 /\ crashes = 0

Live(i) == ver[i] > 0 /\ i \notin gone
Up == conn # "down"
UseFault == faults < MaxFaults /\ faults' = faults + 1

-----------------------------------------------------------------------------
(***************************************************************************)
(* The table and its triggers.                                             *)
(***************************************************************************)

\* Mutant of Notify: the trigger is AFTER UPDATE only.
NotifyUpdates(i) ==
  IF conn = "listening" /\ ver[i] > 0
  THEN inbox[i] < MaxInbox /\ inbox' = [inbox EXCEPT ![i] = @ + 1]
  ELSE UNCHANGED inbox

Notify(i) ==
  IF conn = "listening"
  THEN inbox[i] < MaxInbox /\ inbox' = [inbox EXCEPT ![i] = @ + 1]
  ELSE UNCHANGED inbox

Write(i) ==
  /\ ver[i] < MaxVer /\ ver' = [ver EXCEPT ![i] = @ + 1]
  /\ Notify(i)
  /\ UNCHANGED <<gone, conn, row, read, snap, pruneVars, doc, env>>

\* A feed brings a new IOC.
Insert(i) == ver[i] = 0 /\ Write(i) /\ UNCHANGED decayed

\* Any update of the row; one that moves last_seen takes decayed_at back.
Update(i) == Live(i) /\ Write(i) /\ decayed' \in {decayed, decayed \ {i}}

\* The confidence-decay job stamps the row; that is an update as well.
Decay(i) ==
  /\ Live(i) /\ i \notin decayed
  /\ Write(i) /\ decayed' = decayed \union {i}

\* POST /batch/iocs/delete and /purge; there is no trigger for it.
Delete(i) ==
  /\ Live(i) /\ gone' = gone \union {i} /\ decayed' = decayed \ {i}
  /\ UNCHANGED <<ver, listener, snap, pruneVars, doc, env>>

-----------------------------------------------------------------------------
(***************************************************************************)
(* The listener.                                                           *)
(***************************************************************************)

\* Mutant of ReadRow: a row that is gone is handed on.
ReadRowBlindly(h, i) ==
  /\ Up /\ row[h] = None /\ inbox[i] > 0
  /\ inbox' = [inbox EXCEPT ![i] = @ - 1]
  /\ row' = [row EXCEPT ![h] = i] /\ read' = [read EXCEPT ![h] = IF Live(i) THEN ver[i] ELSE 0]
  /\ UNCHANGED <<rowVars, conn, snap, pruneVars, doc, env>>

\* handleNotification, up to the SELECT: a row that is gone ends it, and so does
\* a SELECT that fails.
ReadRow(h, i) ==
  /\ Up /\ row[h] = None /\ inbox[i] > 0
  /\ inbox' = [inbox EXCEPT ![i] = @ - 1]
  /\ \/ /\ Live(i)
        /\ row' = [row EXCEPT ![h] = i] /\ read' = [read EXCEPT ![h] = ver[i]]
        /\ UNCHANGED faults
     \/ ~Live(i) /\ UNCHANGED <<row, read, faults>>
     \/ UseFault /\ UNCHANGED <<row, read>>
  /\ UNCHANGED <<rowVars, conn, snap, pruneVars, doc, drops, crashes>>

\* indexSingleIOC, once it has the embedding or has given it up.
IndexRow(h) ==
  /\ Up /\ row[h] # None
  /\ row' = [row EXCEPT ![h] = None] /\ read' = [read EXCEPT ![h] = 0]
  /\ \/ doc' = [doc EXCEPT ![DocId(row[h])] = read[h]] /\ UNCHANGED faults
     \/ UseFault /\ UNCHANGED doc
  /\ UNCHANGED <<rowVars, conn, inbox, snap, pruneVars, drops, crashes>>

-----------------------------------------------------------------------------
(***************************************************************************)
(* Reindexing.                                                             *)
(***************************************************************************)
Pending(r) == {i \in Iocs : snap[r][i] > 0}

\* indexIOCs reads all rows, decayed ones too.  isReindexing keeps the timer from
\* starting a second one; a feed sync and an admin's request do not look at it, so that
\* each call of theirs is a reindexer of its own.
StartReindex(r) ==
  /\ Up /\ Pending(r) = {}
  /\ snap' = [snap EXCEPT ![r] = [i \in Iocs |-> IF Live(i) THEN ver[i] ELSE 0]]
  /\ UNCHANGED <<rowVars, listener, pruneVars, doc, env>>

\* Mutant of BulkIndex: the bulk operation is "create", not "index".
BulkCreate(r, i) ==
  /\ Up /\ i \in Pending(r) /\ snap' = [snap EXCEPT ![r][i] = 0]
  /\ doc' = [doc EXCEPT ![DocId(i)] = IF @ = 0 THEN snap[r][i] ELSE @]
  /\ UNCHANGED <<rowVars, listener, pruneVars, env>>

\* The chunk of row i is indexed.
BulkIndex(r, i) ==
  /\ Up /\ i \in Pending(r) /\ snap' = [snap EXCEPT ![r][i] = 0]
  /\ doc' = [doc EXCEPT ![DocId(i)] = snap[r][i]]
  /\ UNCHANGED <<rowVars, listener, pruneVars, env>>

\* The bulk call throws and ends the reindex, or refuses row i and nobody looks.
BulkFails(r, i) ==
  /\ Up /\ i \in Pending(r) /\ UseFault
  /\ snap' \in {[snap EXCEPT ![r] = Nothing], [snap EXCEPT ![r][i] = 0]}
  /\ UNCHANGED <<rowVars, listener, pruneVars, doc, drops, crashes>>

-----------------------------------------------------------------------------
(***************************************************************************)
(* pruneDecayedFromOpenSearch.                                             *)
(***************************************************************************)
StartPrune ==
  /\ Up /\ prune = "idle" /\ prune' = "select"
  /\ UNCHANGED <<rowVars, listener, snap, offset, page, doc, env>>

EndPrune == prune' = "idle" /\ offset' = 0 /\ page' = {}

\* LIMIT and OFFSET.  The order is by decayed_at, which the rows that one UPDATE
\* stamped have in common: any of them may come next.
SelectPage ==
  /\ Up /\ prune = "select"
  /\ IF Cardinality(decayed) <= offset THEN EndPrune
     ELSE /\ prune' = "delete" /\ UNCHANGED offset
          /\ LET left == Cardinality(decayed) - offset
             IN  page' \in {ids \in SUBSET decayed :
                              Cardinality(ids) = IF left < Batch THEN left ELSE Batch}
  /\ UNCHANGED <<rowVars, listener, snap, doc, env>>

\* delete_by_query for the documents whose _id is one of the uuids.
DeleteByQuery(ids) == doc' = [k \in DocIds |-> IF k \in ids THEN 0 ELSE doc[k]]

\* A call that fails is logged, and the next page is taken.
DeletePage ==
  /\ Up /\ prune = "delete"
  /\ \/ DeleteByQuery(page) /\ UNCHANGED faults
     \/ UseFault /\ UNCHANGED doc
  /\ IF offset + Batch < MaxRows
     THEN prune' = "select" /\ offset' = offset + Batch /\ page' = {}
     ELSE EndPrune
  /\ UNCHANGED <<rowVars, listener, snap, drops, crashes>>

-----------------------------------------------------------------------------
(***************************************************************************)
(* The process and its LISTEN connection.                                  *)
(***************************************************************************)
Disconnect ==
  /\ conn = "listening" /\ drops < MaxDrops /\ drops' = drops + 1
  /\ conn' = "deaf"
  /\ inbox' \in [Iocs -> 0..MaxInbox] /\ \A i \in Iocs : inbox'[i] <= inbox[i]
  /\ UNCHANGED <<rowVars, row, read, snap, pruneVars, doc, faults, crashes>>

\* scheduleReconnect: it gives up for good after ten attempts.
Reconnect ==
  /\ conn = "deaf" /\ conn' = "listening"
  /\ UNCHANGED <<rowVars, inbox, row, read, snap, pruneVars, doc, env>>

\* The process dies.  A reindex that is not the timer's may be running in another one.
Crash ==
  /\ Up /\ crashes < MaxCrashes /\ crashes' = crashes + 1
  /\ conn' = "down" /\ inbox' = Nothing
  /\ row' = [h \in Handlers |-> None] /\ read' = [h \in Handlers |-> 0]
  /\ \E here \in SUBSET Reindexers :
       /\ Timer \in here
       /\ snap' = [r \in Reindexers |-> IF r \in here THEN Nothing ELSE snap[r]]
  /\ EndPrune
  /\ UNCHANGED <<rowVars, doc, faults, drops>>

\* startDBListener and startScheduler; no reindex at startup by default.
Boot ==
  /\ conn = "down"
  /\ \/ conn' = "listening" /\ UNCHANGED faults
     \/ conn' = "deaf" /\ UseFault
  /\ UNCHANGED <<rowVars, inbox, row, read, snap, pruneVars, doc, drops, crashes>>

-----------------------------------------------------------------------------
Table == \E i \in Iocs : Insert(i) \/ Update(i) \/ Decay(i) \/ Delete(i)

Listener == \E h \in Handlers : IndexRow(h) \/ \E i \in Iocs : ReadRow(h, i)

Reindex(r) ==
  StartReindex(r) \/ \E i \in Iocs : BulkIndex(r, i) \/ BulkFails(r, i)

Prune == StartPrune \/ SelectPage \/ DeletePage

Next ==
  \/ Table \/ Listener \/ Prune
  \/ \E r \in Reindexers : Reindex(r)
  \/ Disconnect \/ Reconnect \/ Crash \/ Boot

Spec == Init /\ [][Next]_vars

\* The process is restarted, its event loop serves what is due, the interval of
\* the reindex fires and so does the schedule of the pruning.  Nothing has to be
\* written, no sync or admin has to ask, and the listener need not be back.
Fairness ==
  /\ WF_vars(Boot)
  /\ \A h \in Handlers : WF_vars(IndexRow(h))
  /\ \A i \in Iocs : WF_vars(\E h \in Handlers : ReadRow(h, i))
  /\ WF_vars(StartReindex(Timer))
  /\ \A r \in Reindexers, i \in Iocs : WF_vars(BulkIndex(r, i))
  /\ WF_vars(Prune)

FairSpec == Spec /\ Fairness

-----------------------------------------------------------------------------
(***************************************************************************)
(* Properties.                                                             *)
(***************************************************************************)

\* A row that has been written and is not decayed has a document, or a handler on its
\* way to one: as long as nothing is lost, no race of handlers, reindexes and the pruning
\* leaves a row out of the index.
Lossless == faults = 0 /\ drops = 0 /\ crashes = 0
RowsReachIndex ==
  Lossless =>
    \A i \in Iocs : Live(i) /\ i \notin decayed =>
      \/ doc[DocId(i)] > 0 \/ inbox[i] > 0
      \/ \E h \in Handlers : row[h] = i

\* When the rows no longer change, the documents of those that are not decayed become
\* what the rows are and stay so: a handler or a reindex that indexes a version it read
\* long ago, a lost notification, a listener that gave up and a refused bulk are all made
\* up for by the next reindex.
IndexConverges ==
  <>[](\A i \in Iocs : Live(i) /\ i \notin decayed => doc[DocId(i)] = ver[i])

\* What the comment of opensearchPrune.ts says, "Drops documents from the OpenSearch
\* indices for IOCs that the confidenceDecay job [...] has marked as decayed", and the
\* roadmap, "OpenSearch prune deletes decayed-IOC documents daily": a row does not stay
\* decayed without its document being dropped some day.
DecayedDropped ==
  \A i \in Iocs : i \in decayed ~> (i \notin decayed \/ doc[DocId(i)] = 0)
=============================================================================
