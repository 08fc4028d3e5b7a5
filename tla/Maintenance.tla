----------------------------- MODULE Maintenance ----------------------------
(***************************************************************************)
(* The maintenance worker (apps/api/src/queues/workers/retentionWorker.ts) *)
(* and the two of its jobs that work on the IOCs' rows: the daily decay,   *)
(* which lowers scores and marks stale rows page by page, and the backfill *)
(* (services/scoringEngine.ts), which scores the rows nobody has scored.   *)
(* The worker runs one job at a time; feeds, enrichment, analysts and      *)
(* administrators write and delete the rows meanwhile.                     *)
(***************************************************************************)
EXTENDS IocTable, FiniteSets

CONSTANTS
  Stale,        \* staleDays of each IOC's type
  Floor,        \* minScore of each IOC's type
  Unscorable,   \* IOCs whose scoring always throws (raw_data that does not parse)
  BatchSize,    \* rows per page
  MaxOffset,    \* where a decay run stops
  MaxFaults     \* bound: failing database calls and dying workers

ASSUME MaintenanceAssumption ==
  /\ Stale \in [IOCs -> 1..MaxAge]
  /\ Floor \in [IOCs -> 1..MaxScore] /\ Unscorable \subseteq IOCs
  /\ BatchSize \in Nat \ {0} /\ MaxOffset \in Nat \ {0} /\ MaxFaults \in Nat

VARIABLES
  job,        \* what the worker does
  step,       \* its next database call
  page,       \* the rows it holds, with the age and score it read, but for rows
              \* deleted since: whatever it does by their ids meets no row
  offset,     \* the OFFSET of the decay's next SELECT
  raced,      \* rows seen again since the decay read them, or then marked
  faults

worker == <<job, step, page, offset>>
mvars == <<job, step, page, offset, raced, faults>>

Held == DOMAIN page
Reads == [age : 0..MaxAge, score : 0..MaxScore]

MaintenanceOK ==
  /\ job \in {"none", "decay", "backfill"}
  /\ step \in {"select", "score", "stamp"}
  /\ Held \subseteq rows /\ page \in [Held -> Reads]
  /\ offset \in 0..(MaxOffset - 1)
  /\ raced \in SUBSET IOCs
  /\ faults \in 0..MaxFaults

Nothing == [i \in {} |-> 0]

MaintenanceInit ==
  /\ TableInit
  /\ job = "none" /\ step = "select" /\ page = Nothing /\ offset = 0
  /\ raced = {} /\ faults = 0

Larger(x, y) == IF x > y THEN x ELSE y
Smaller(x, y) == IF x < y THEN x ELSE y

\* Only rows that the decay still holds or has marked are worth remembering.
Remember(S) == raced' = S \intersect (decayed' \union DOMAIN page')

\* last_seen of i was written: remember it if the decay holds the row.
Observe(i) ==
  Remember(IF job = "decay" /\ i \in Held THEN raced \union {i} ELSE raced \ {i})

UseFault == faults < MaxFaults /\ faults' = faults + 1

-----------------------------------------------------------------------------
(***************************************************************************)
(* Everybody else.                                                         *)
(***************************************************************************)

\* A feed inserts an IOC, or updates it with the date of its own record, which
\* may be older than the one the row has; enrichment sets last_seen to now.
FeedWrites(i, a) == Sight(i, a) /\ UNCHANGED <<worker, faults>> /\ Observe(i)

\* An administrator's rescoring of all rows gets to this one.
Rescore(i) ==
  /\ i \in rows \ Unscorable
  /\ \E s \in 1..MaxScore : score' = [score EXCEPT ![i] = s]
  /\ UNCHANGED <<rows, age, decayed, mvars>>

\* POST /batch/iocs/delete or /batch/iocs/purge.
DeleteRows(S) ==
  /\ S # {} /\ S \subseteq rows /\ Delete(S)
  /\ page' = [i \in Held \ S |-> page[i]]
  /\ UNCHANGED <<job, step, offset, faults>> /\ Remember(raced)

DayPasses == Day /\ UNCHANGED mvars

-----------------------------------------------------------------------------
(***************************************************************************)
(* The worker.                                                             *)
(***************************************************************************)
Start(j) ==
  /\ job = "none"
  /\ job' = j /\ step' = "select" /\ page' = Nothing /\ offset' = 0
  /\ UNCHANGED <<table, raced, faults>>

End ==
  /\ job' = "none" /\ step' = "select" /\ page' = Nothing /\ offset' = 0
  /\ Remember(raced)

\* The call throws, or the process dies: the job is over.  What it wrote stays.
JobFails ==
  /\ job # "none" /\ UseFault
  /\ UNCHANGED table
  /\ End

StartDecay == Start("decay")

\* Mutant of Selection: only scored rows (the state before June 2026).
ScoredSelection == {i \in rows \ decayed : age[i] >= 1 /\ score[i] > 0}

\* Rows the decay is about: not seen for a day, and not marked.
Selection == {i \in rows \ decayed : age[i] >= 1}

\* ORDER BY last_seen ASC LIMIT BatchSize OFFSET o.  Rows of one age come in any
\* order, and not in the same one each time.
Pages(o) ==
  {P \in SUBSET Selection :
     /\ Cardinality(P) <= BatchSize
     /\ \E Q \in SUBSET (Selection \ P) :
          /\ Cardinality(Q) = Smaller(o, Cardinality(Selection))
          /\ Cardinality(P) = Smaller(BatchSize, Cardinality(Selection \ Q))
          /\ \A q \in Q, p \in P : age[q] >= age[p]
          /\ \A p \in P \union Q, x \in Selection \ (P \union Q) : age[p] >= age[x]}

Read(P) == [i \in P |-> [age |-> age[i], score |-> score[i]]]

SelectPage ==
  /\ job = "decay" /\ step = "select"
  /\ UNCHANGED <<table, faults>>
  /\ \E P \in Pages(offset) :
       \/ P = {} /\ End
       \/ /\ P # {}
          /\ page' = Read(P) /\ step' = "score"
          /\ UNCHANGED <<job, offset, raced>>

\* Mutant of Decays: no floor.
DecaysToNothing(i, s) == 0..s

\* What is left of score s: an exponential in the row's age, rounded, but no less
\* than the type's floor.  It may be lower, the same or, below the floor, higher.
Decays(i, s) == {Larger(Floor[i], x) : x \in 0..s}

\* The scores are computed from what was read.  Only scored rows get a new one, and
\* only if it differs from the one read.
WriteScores ==
  /\ job = "decay" /\ step = "score"
  /\ \E f \in [Held -> 0..MaxScore] :
       /\ \A i \in Held :
            f[i] \in {IF page[i].score = 0 \/ x = page[i].score THEN score[i] ELSE x :
                        x \in Decays(i, page[i].score)}
       /\ score' = [i \in IOCs |-> IF i \in Held THEN f[i] ELSE score[i]]
  /\ step' = "stamp"
  /\ UNCHANGED <<rows, age, decayed, job, page, offset, raced, faults>>

\* Mutant of StampStale: without the limit per run.
StampWithoutLimit ==
  /\ job = "decay" /\ step = "stamp"
  /\ decayed' = decayed \union {i \in Held : page[i].age >= Stale[i]}
  /\ offset' = offset + BatchSize /\ step' = "select" /\ page' = Nothing
  /\ Remember(raced)
  /\ UNCHANGED <<job, rows, age, score, faults>>

\* decayed_at for the rows that were stale when they were read; on to the next page.
StampStale ==
  /\ job = "decay" /\ step = "stamp"
  /\ decayed' = decayed \union {i \in Held : page[i].age >= Stale[i]}
  /\ IF offset + BatchSize >= MaxOffset THEN End
     ELSE /\ offset' = offset + BatchSize /\ step' = "select" /\ page' = Nothing
          /\ Remember(raced) /\ UNCHANGED job
  /\ UNCHANGED <<rows, age, score, faults>>

StartBackfill == Start("backfill")

\* Mutant of SelectUnscored: all rows, from the start each time.
SelectAnyRow ==
  /\ job = "backfill" /\ Held = {}
  /\ UNCHANGED <<table, faults>>
  /\ LET unscored == rows
     IN \/ unscored = {} /\ End
        \/ \E P \in SUBSET unscored :
             /\ Cardinality(P) = Smaller(BatchSize, Cardinality(unscored)) /\ P # {}
             /\ page' = Read(P)
             /\ UNCHANGED <<job, step, offset>> /\ Remember(raced)

\* The next page of unscored rows, from the start each time: what was scored is out
\* of the selection.
SelectUnscored ==
  /\ job = "backfill" /\ Held = {}
  /\ UNCHANGED <<table, faults>>
  /\ LET unscored == {i \in rows : score[i] = 0}
     IN \/ unscored = {} /\ End
        \/ \E P \in SUBSET unscored :
             /\ Cardinality(P) = Smaller(BatchSize, Cardinality(unscored)) /\ P # {}
             /\ page' = Read(P)
             /\ UNCHANGED <<job, step, offset>> /\ Remember(raced)

LetGo(i) == page' = [k \in Held \ {i} |-> page[k]]

\* Mutant of ScoreRow: the composite is written as it is, 0 included.
ScoreRowAsIs(i) ==
  /\ job = "backfill" /\ i \in Held \ Unscorable
  /\ \E s \in 0..MaxScore : score' = [score EXCEPT ![i] = s]
  /\ LetGo(i)
  /\ UNCHANGED <<rows, age, decayed, job, step, offset, raced, faults>>

\* computeCompositeScore and the UPDATE, which writes at least 1.
ScoreRow(i) ==
  /\ job = "backfill" /\ i \in Held \ Unscorable
  /\ \E s \in 1..MaxScore : score' = [score EXCEPT ![i] = s]
  /\ LetGo(i)
  /\ UNCHANGED <<rows, age, decayed, job, step, offset, raced, faults>>

\* Scoring a row throws, once or whenever it is tried: it is logged, and the row stays
\* unscored, and so in the selection.
ScoreFails(i) ==
  /\ job = "backfill" /\ i \in Held
  /\ UseFault \/ (i \in Unscorable /\ UNCHANGED faults)
  /\ LetGo(i)
  /\ UNCHANGED <<table, job, step, offset, raced>>

Decay == StartDecay \/ SelectPage \/ WriteScores \/ StampStale
Backfill == StartBackfill \/ SelectUnscored \/ \E i \in IOCs : ScoreRow(i) \/ ScoreFails(i)

MaintenanceNext ==
  \/ DayPasses \/ Decay \/ Backfill \/ JobFails
  \/ \E i \in IOCs : (\E a \in 0..MaxAge : FeedWrites(i, a)) \/ Rescore(i)
  \/ \E S \in SUBSET IOCs : DeleteRows(S)

MaintenanceSpec == MaintenanceInit /\ [][MaintenanceNext]_<<table, mvars>>

\* Days pass and the worker works.  A decay that was queued gets its turn however
\* often other jobs are queued, because a queue is served in order; nobody has to
\* queue a backfill.
MaintenanceFairness ==
  /\ WF_<<table, mvars>>(DayPasses)
  /\ WF_<<table, mvars>>(SelectPage \/ WriteScores \/ StampStale)
  /\ WF_<<table, mvars>>(SelectUnscored \/ \E i \in IOCs : ScoreRow(i) \/ ScoreFails(i))
  /\ SF_<<table, mvars>>(StartDecay)

FairMaintenanceSpec == MaintenanceSpec /\ MaintenanceFairness

-----------------------------------------------------------------------------
(***************************************************************************)
(* Properties.                                                             *)
(***************************************************************************)
MaintenanceTypeOK == TableOK /\ MaintenanceOK

\* A fresh IOC is hidden only if it was seen again between the decay's SELECT and
\* its UPDATE: whoever writes last_seen later un-decays the row, be it a feed, an
\* enrichment or a report (migration 0058).
FreshHiddenOnlyByRace ==
  \A i \in decayed : age[i] < Stale[i] => i \in raced

\* A scored row stays scored while it is there: the decay never takes it back into the backfill,
\* which would score it afresh as if it had not aged.
ScoredStays ==
  [][\A i \in IOCs : score[i] > 0 /\ i \in rows' => score'[i] > 0]_<<table, mvars>>

\* Once nothing is seen any more, every row is marked in the end, however the types,
\* the scores, the dates and the pages of the decay fall, whatever jobs fail and
\* whatever is deleted meanwhile; unless a row that cannot be scored stays, which
\* keeps a backfill, and with it the worker, busy for ever.
Silence == <>[][\A i \in IOCs, a \in 0..MaxAge : ~FeedWrites(i, a)]_<<table, mvars>>
AllScorable == <>[](rows \intersect Unscorable = {})
DecayedEventually == Silence /\ AllScorable => <>[](decayed = rows)

\* A backfill ends once no rows are added to it, even if scoring some row fails now and
\* then, as soon as the rows that cannot be scored at all have been deleted.
NothingNew == <>[][rows' \subseteq rows]_<<table, mvars>>
BackfillEnds ==
  NothingNew /\ AllScorable => (job = "backfill" ~> job # "backfill")
=============================================================================
