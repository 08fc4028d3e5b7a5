--------------------------- MODULE IocLifeProofs ----------------------------
(***************************************************************************)
(* Proofs about IocLife, for any IOCs, types, page sizes, requests and     *)
(* bounds.                                                                 *)
(***************************************************************************)
EXTENDS IocLife, TLAPS

USE TableAssumption, MaintenanceAssumption, CommitAssumption

LEMMA TypeInit == Init => TypeOK
BY DEF Init, TypeOK, TableInit, TableOK, MaintenanceInit, MaintenanceOK, CommitInit,
  CommitOK, Held, Nothing, Reads, Statuses, Stages

\* Holding rows of a page keeps the page well-formed.
LEMMA ReadType ==
  ASSUME TableOK, NEW P \in SUBSET rows
  PROVE  Read(P) \in [P -> Reads] /\ DOMAIN Read(P) = P
BY DEF TableOK, Read, Reads

\* Whatever is remembered is a set of IOCs.
LEMMA RememberType ==
  ASSUME NEW S \in SUBSET IOCs, Remember(S)
  PROVE  raced' \in SUBSET IOCs
BY DEF Remember

LEMMA EndType == End /\ MaintenanceOK =>
  /\ job' \in {"none", "decay", "backfill"} /\ step' \in {"select", "score", "stamp"}
  /\ DOMAIN page' = {} /\ page' \in [{} -> Reads]
  /\ offset' \in 0..(MaxOffset - 1) /\ raced' \in SUBSET IOCs
BY DEF End, Nothing, Remember, MaintenanceOK

LEMMA MaintenanceTypeStep ==
  ASSUME TableOK, MaintenanceOK, MaintenanceNext
  PROVE  TableOK' /\ MaintenanceOK'
<1> USE DEF TableOK, MaintenanceOK, Held, UseFault, table, mvars, worker
<1>1. CASE DayPasses
  <2>1. age' \in [IOCs -> 0..MaxAge]
    BY <1>1 DEF DayPasses, Day
  <2>2. UNCHANGED <<rows, score, decayed, mvars>>
    BY <1>1 DEF DayPasses, Day
  <2>3. QED
    BY <2>1, <2>2
<1>2. CASE StartDecay \/ StartBackfill
  <2>1. job' \in {"none", "decay", "backfill"} /\ step' = "select" /\ offset' = 0
        /\ page' = Nothing /\ UNCHANGED <<table, raced, faults>>
    BY <1>2 DEF StartDecay, StartBackfill, Start
  <2>2. DOMAIN Nothing = {} /\ Nothing \in [{} -> Reads]
    BY DEF Nothing
  <2>3. QED
    BY <2>1, <2>2
<1>3. CASE JobFails
  <2>1. End /\ UNCHANGED table /\ faults' \in 0..MaxFaults
    BY <1>3 DEF JobFails
  <2>2. QED
    BY <2>1, EndType
<1>4. CASE SelectPage
  <2>1. CASE End
    BY <1>4, <2>1, EndType DEF SelectPage
  <2>2. ASSUME NEW P \in Pages(offset), page' = Read(P), step' = "score",
               UNCHANGED <<table, faults, job, offset, raced>>
        PROVE  TableOK' /\ MaintenanceOK'
    <3>1. P \in SUBSET rows
      BY DEF Pages, Selection
    <3>2. QED
      BY <2>2, <3>1, ReadType
  <2>3. QED
    BY <1>4, <2>1, <2>2 DEF SelectPage
<1>5. CASE WriteScores
  BY <1>5 DEF WriteScores
<1>6. CASE StampStale
  <2>1. decayed' \in SUBSET rows' /\ UNCHANGED <<rows, age, score, faults>>
    BY <1>6 DEF StampStale
  <2>2. CASE End
    BY <2>1, <2>2, EndType
  <2>3. CASE ~(offset + BatchSize >= MaxOffset)
    <3>1. offset' \in 0..(MaxOffset - 1)
      BY <1>6, <2>3 DEF StampStale
    <3>2. QED
      BY <1>6, <2>1, <2>3, <3>1 DEF StampStale, Nothing, Remember
  <2>4. QED
    BY <1>6, <2>2, <2>3 DEF StampStale
<1>7. CASE SelectUnscored
  <2>1. CASE End
    BY <1>7, <2>1, EndType DEF SelectUnscored
  <2>2. ASSUME NEW P \in SUBSET {i \in rows : score[i] = 0}, page' = Read(P),
               UNCHANGED <<table, faults, job, step, offset>>, Remember(raced)
        PROVE  TableOK' /\ MaintenanceOK'
    BY <2>2, ReadType, RememberType
  <2>3. QED
    BY <1>7, <2>1, <2>2 DEF SelectUnscored
<1>8. ASSUME NEW i \in IOCs, ScoreRow(i) \/ ScoreFails(i)
      PROVE  TableOK' /\ MaintenanceOK'
  BY <1>8 DEF ScoreRow, ScoreFails, LetGo
<1>12. ASSUME NEW S \in SUBSET IOCs, DeleteRows(S) PROVE TableOK' /\ MaintenanceOK'
  <2>1. TableOK'
    BY <1>12 DEF DeleteRows, Delete
  <2>2. Held' = Held \ S /\ Held' \subseteq rows' /\ page' \in [Held' -> Reads]
    BY <1>12 DEF DeleteRows, Delete
  <2>3. raced' \in SUBSET IOCs
    BY <1>12, RememberType DEF DeleteRows
  <2> QED BY <1>12, <2>1, <2>2, <2>3 DEF DeleteRows
<1>9. ASSUME NEW i \in IOCs, NEW a \in 0..MaxAge, FeedWrites(i, a)
      PROVE  TableOK' /\ MaintenanceOK'
  BY <1>9 DEF FeedWrites, Sight, Observe, Remember
<1>10. ASSUME NEW i \in IOCs, Rescore(i) PROVE TableOK' /\ MaintenanceOK'
  BY <1>10 DEF Rescore
<1>11. QED
  BY <1>1, <1>2, <1>3, <1>4, <1>5, <1>6, <1>7, <1>8, <1>9, <1>10, <1>12
  DEF MaintenanceNext, Decay, Backfill

LEMMA CommitTypeStep ==
  ASSUME TypeOK, NEW r \in Requests, Report(r)
  PROVE  TableOK' /\ MaintenanceOK' /\ CommitOK'
<1> USE DEF TypeOK, TableOK, CommitOK, Stages, Statuses, Go, UseError, table, mvars
<1>1. ASSUME NEW i \in IOCs, UpsertIoc(r, i), UNCHANGED <<worker, faults>>, Observe(i)
      PROVE  TableOK' /\ MaintenanceOK' /\ CommitOK'
  BY <1>1 DEF UpsertIoc, Sight, Observe, Remember, MaintenanceOK, worker, Held
<1>2. ASSUME NEW i \in IOCs, UpsertFails(r, i), UNCHANGED mvars
      PROVE  TableOK' /\ MaintenanceOK' /\ CommitOK'
  BY <1>2 DEF UpsertFails, MaintenanceOK, Held
<1>3. ASSUME NEW S \in SUBSET IOCs, CommitReport(r, S), UNCHANGED <<table, mvars>>
      PROVE  TableOK' /\ MaintenanceOK' /\ CommitOK'
  BY <1>3 DEF CommitReport, MaintenanceOK, Held
<1>4. CASE (MarkCommitted(r) \/ StartDismiss(r) \/ DismissReport(r)) /\ UNCHANGED <<table, mvars>>
  BY <1>4 DEF MarkCommitted, StartDismiss, DismissReport, MaintenanceOK, Held
<1>5. CASE (RequestDies(r) \/ Refuse(r)) /\ UNCHANGED <<table, mvars>>
  BY <1>5 DEF RequestDies, Refuse, MaintenanceOK, Held
<1>6. QED
  BY <1>1, <1>2, <1>3, <1>4, <1>5 DEF Report, Upsert, RequestStep

\* The types of the whole, for any constants.
THEOREM TypeCorrect == Spec => []TypeOK
<1>1. TypeOK /\ [Next]_vars => TypeOK'
  <2> SUFFICES ASSUME TypeOK, [Next]_vars PROVE TypeOK'
    OBVIOUS
  <2>5. Next => lost' \in [Requests -> SUBSET IOCs]
    BY DEF Next, Lose, TypeOK, TableOK
  <2>1. CASE Next /\ MaintenanceNext /\ UNCHANGED cvars
    <3>1. TableOK' /\ MaintenanceOK'
      BY <2>1, MaintenanceTypeStep DEF TypeOK
    <3>2. QED
      BY <2>1, <3>1, <2>5 DEF TypeOK, CommitOK, cvars
  <2>2. CASE Next /\ \E r \in Requests : Report(r)
    BY <2>2, <2>5, CommitTypeStep DEF TypeOK
  <2>3. CASE UNCHANGED vars
    BY <2>3 DEF vars, table, mvars, cvars, TypeOK, TableOK, MaintenanceOK, CommitOK, Held
  <2>4. QED
    BY <2>1, <2>2, <2>3 DEF Next
<1>2. QED
  BY TypeInit, <1>1, PTL DEF Spec

-----------------------------------------------------------------------------
(***************************************************************************)
(* Fresh rows.  What the invariant adds: a row that the decay will stamp   *)
(* is stale, or has been seen again since it was read.                     *)
(***************************************************************************)
HeldIsStale ==
  job = "decay" =>
    \A i \in Held : page[i].age >= Stale[i] => age[i] >= Stale[i] \/ i \in raced

FreshInv == FreshHiddenOnlyByRace /\ HeldIsStale

LEMMA SightKeepsFresh ==
  ASSUME TypeOK, FreshInv, NEW k \in IOCs, NEW a \in 0..MaxAge,
         Sight(k, a), Observe(k), UNCHANGED <<worker, faults>>
  PROVE  FreshInv'
BY DEF TypeOK, TableOK, MaintenanceOK, FreshInv, FreshHiddenOnlyByRace, HeldIsStale, Sight,
  Observe, Remember, worker, Held

LEMMA FreshStep ==
  ASSUME TypeOK, FreshInv, [Next]_vars
  PROVE  FreshInv'
<1> USE DEF FreshInv, FreshHiddenOnlyByRace, HeldIsStale, Held, table, mvars
<1>1. CASE DayPasses
  BY <1>1 DEF DayPasses, Day, TypeOK, TableOK, MaintenanceOK
<1>2. CASE StartDecay \/ StartBackfill
  BY <1>2 DEF StartDecay, StartBackfill, Start, Nothing
<1>3. CASE JobFails
  BY <1>3 DEF JobFails, End, Remember, TypeOK, TableOK
<1>4. CASE SelectPage
  <2>1. CASE End
    BY <1>4, <2>1 DEF SelectPage, End, Remember
  <2>2. ASSUME NEW P \in Pages(offset), page' = Read(P),
               UNCHANGED <<table, job, raced>>
        PROVE  FreshInv'
    BY <2>2 DEF Read
  <2>3. QED
    BY <1>4, <2>1, <2>2 DEF SelectPage
<1>5. CASE WriteScores
  BY <1>5 DEF WriteScores
<1>6. CASE StampStale
  BY <1>6 DEF StampStale, End, Remember, Nothing, TypeOK, TableOK, MaintenanceOK
<1>7. CASE SelectUnscored
  BY <1>7 DEF SelectUnscored, End, Remember
<1>8. ASSUME NEW i \in IOCs, ScoreRow(i) \/ ScoreFails(i) PROVE FreshInv'
  BY <1>8 DEF ScoreRow, ScoreFails, LetGo
<1>9. ASSUME NEW i \in IOCs, NEW a \in 0..MaxAge, FeedWrites(i, a) PROVE FreshInv'
  BY <1>9, SightKeepsFresh DEF FeedWrites
<1>10. ASSUME NEW i \in IOCs, Rescore(i) PROVE FreshInv'
  BY <1>10 DEF Rescore
<1>14. ASSUME NEW S \in SUBSET IOCs, DeleteRows(S) PROVE FreshInv'
  BY <1>14 DEF DeleteRows, Delete, Remember, TypeOK, TableOK, MaintenanceOK
<1>11. ASSUME NEW r \in Requests, Report(r) PROVE FreshInv'
  <2>1. ASSUME NEW i \in IOCs, UpsertIoc(r, i), UNCHANGED <<worker, faults>>, Observe(i)
        PROVE  FreshInv'
    BY <2>1, SightKeepsFresh DEF UpsertIoc
  <2>2. CASE UNCHANGED <<table, mvars>>
    BY <2>2
  <2>3. QED
    BY <1>11, <2>1, <2>2 DEF Report, Upsert, UpsertFails
<1>12. CASE UNCHANGED vars
  BY <1>12 DEF vars
<1>13. QED
  BY <1>1, <1>2, <1>3, <1>4, <1>5, <1>6, <1>7, <1>8, <1>9, <1>10, <1>11, <1>12, <1>14
  DEF Next, MaintenanceNext, Decay, Backfill

\* However feeds, reports and maintenance interleave, a fresh IOC is hidden only if
\* it was seen again between the decay's SELECT and its UPDATE.
THEOREM FreshHiddenOnlyByRaceHolds == Spec => []FreshHiddenOnlyByRace
<1>1. Init => FreshInv
  BY DEF Init, TableInit, MaintenanceInit, FreshInv, FreshHiddenOnlyByRace, HeldIsStale
<1>2. TypeOK /\ FreshInv /\ [Next]_vars => FreshInv'
  BY FreshStep
<1>3. FreshInv => FreshHiddenOnlyByRace
  BY DEF FreshInv
<1>4. QED
  BY <1>1, <1>2, <1>3, TypeCorrect, PTL DEF Spec

\* No job, request or administrator takes a score away from a row that stays.
THEOREM ScoredStaysHolds == Spec => ScoredStays
<1>1. TypeOK /\ [Next]_vars =>
        [\A i \in IOCs : score[i] > 0 /\ i \in rows' => score'[i] > 0]_<<table, mvars>>
  <2> SUFFICES ASSUME TypeOK, [Next]_vars, NEW i \in IOCs, score[i] > 0, i \in rows'
               PROVE  score'[i] > 0
    OBVIOUS
  <2> USE DEF TypeOK, TableOK, MaintenanceOK, table, mvars, Held
  <2>1. CASE WriteScores
    <3>1. CASE i \in Held
      <4>1. PICK x \in 0..page[i].score :
              score'[i] = IF page[i].score = 0 \/ Larger(Floor[i], x) = page[i].score
                          THEN score[i] ELSE Larger(Floor[i], x)
        BY <2>1, <3>1 DEF WriteScores, Decays, Reads
      <4>2. Floor[i] \in 1..MaxScore /\ page[i].score \in 0..MaxScore
        BY <3>1 DEF Reads
      <4>3. Larger(Floor[i], x) > 0
        BY <4>2 DEF Larger
      <4>4. QED
        BY <4>1, <4>3
    <3>2. QED
      BY <2>1, <3>1 DEF WriteScores
  <2>2. CASE \E k \in IOCs : ScoreRow(k) \/ Rescore(k)
    BY <2>2 DEF ScoreRow, Rescore
  <2>3. CASE UNCHANGED score
    BY <2>3
  <2>5. ASSUME NEW S \in SUBSET IOCs, DeleteRows(S) PROVE score'[i] > 0
    BY <2>5 DEF DeleteRows, Delete
  <2>4. QED
    BY <2>1, <2>2, <2>3, <2>5 DEF Next, vars, MaintenanceNext, Decay, Backfill, DayPasses, Day,
      StartDecay, StartBackfill, Start, SelectPage, StampStale, SelectUnscored, ScoreFails,
      JobFails, FeedWrites, Sight, Report, Upsert, UpsertIoc, UpsertFails, RequestStep
<1>2. QED
  BY <1>1, TypeCorrect, PTL DEF Spec, ScoredStays

-----------------------------------------------------------------------------
(***************************************************************************)
(* Reports.  What the invariant adds: a request on its way has imported,   *)
(* skipped or still to do what it approved, but for what was deleted       *)
(* since, and the one that is named in the report is over, so that nothing *)
(* changes what it did.                                                    *)
(***************************************************************************)
Handled(r) == approved[r] \subseteq rows \union skipped[r] \union todo[r] \union lost[r]

CommitInv ==
  /\ \A r \in Requests : Handled(r)
  /\ report.status = "committed" =>
       report.by \in Requests /\ stage[report.by] = "over" /\ todo[report.by] = {}

\* What a request no longer has to do it imported or skipped; a row that goes after
\* that is noted as lost.
LEMMA HandledRests ==
  ASSUME TypeOK, Lose, NEW r \in Requests, Handled(r), approved'[r] = approved[r],
         skipped[r] \subseteq skipped'[r],
         todo[r] \subseteq todo'[r] \union skipped'[r] \union rows'
  PROVE  Handled(r)'
<1>1. lost'[r] = (approved[r] \intersect (lost[r] \union (rows \ todo[r]))) \ rows'
  BY DEF Lose
<1> QED BY <1>1 DEF Handled

\* A committed report has imported or skipped on record what its request approved,
\* for any number of overlapping, failing and dying requests, and whatever was
\* deleted before them or beside them.
THEOREM CommittedIsCompleteHolds == Spec => []CommittedIsComplete
<1>1. Init => CommitInv
  BY DEF Init, CommitInit, CommitInv, Handled
<1>2. TypeOK /\ CommitInv /\ [Next]_vars => CommitInv'
  <2> SUFFICES ASSUME TypeOK, CommitInv, [Next]_vars PROVE CommitInv'
    OBVIOUS
  <2> USE DEF TypeOK, CommitOK, CommitInv, Go, UseError
  <2>1. CASE Lose /\ MaintenanceNext /\ UNCHANGED cvars
    <3>1. \A r \in Requests : Handled(r)'
      BY <2>1, HandledRests DEF cvars
    <3> QED BY <2>1, <3>1 DEF cvars
  <2>2. ASSUME NEW r \in Requests, NEW i \in IOCs, Lose, UpsertIoc(r, i) PROVE CommitInv'
    <3>1. rows' = rows \union {i} /\ todo'[r] = todo[r] \ {i}
      BY <2>2 DEF UpsertIoc, Sight
    <3>2. \A q \in Requests : q # r => todo'[q] = todo[q]
      BY <2>2 DEF UpsertIoc
    <3>3. stage[r] = "committing" /\ UNCHANGED <<report, stage, approved, skipped>>
      BY <2>2 DEF UpsertIoc
    <3>4. \A q \in Requests : Handled(q)'
      BY <2>2, <3>1, <3>2, <3>3, HandledRests
    <3> QED BY <3>2, <3>3, <3>4
  <2>3. ASSUME NEW r \in Requests, NEW i \in IOCs, Lose, UpsertFails(r, i) PROVE CommitInv'
    <3>1. todo'[r] = todo[r] \ {i} /\ skipped'[r] = skipped[r] \union {i}
      BY <2>3 DEF UpsertFails
    <3>2. \A q \in Requests : q # r => todo'[q] = todo[q] /\ skipped'[q] = skipped[q]
      BY <2>3 DEF UpsertFails
    <3>3. stage[r] = "committing" /\ UNCHANGED <<report, stage, approved>>
      BY <2>3 DEF UpsertFails
    <3>4. \A q \in Requests : Handled(q)'
      BY <2>3, <3>1, <3>2, <3>3, HandledRests
    <3> QED BY <3>2, <3>3, <3>4
  <2>4. ASSUME NEW r \in Requests, NEW S \in SUBSET IOCs, Lose, CommitReport(r, S)
        PROVE  CommitInv'
    <3>1. /\ approved'[r] = S /\ todo'[r] = S \intersect Draft /\ skipped'[r] = S \ Draft
          /\ report.status = "draft" /\ UNCHANGED report
      BY <2>4 DEF CommitReport
    <3>2. \A q \in Requests : q # r => /\ approved'[q] = approved[q] /\ todo'[q] = todo[q]
                                       /\ skipped'[q] = skipped[q]
      BY <2>4 DEF CommitReport
    <3>3. Handled(r)'
      BY <3>1 DEF Handled
    <3>4. \A q \in Requests : q # r => Handled(q)'
      BY <2>4, <3>2, HandledRests
    <3> QED BY <3>1, <3>3, <3>4
  <2>5. ASSUME NEW r \in Requests, Lose, MarkCommitted(r) PROVE CommitInv'
    <3>1. UNCHANGED <<approved, todo, skipped>> /\ todo[r] = {} /\ stage'[r] = "over"
      BY <2>5 DEF MarkCommitted
    <3>2. \A q \in Requests : Handled(q)'
      BY <2>5, <3>1, HandledRests
    <3>3. report'.by = r
      BY <2>5 DEF MarkCommitted
    <3> QED BY <3>1, <3>2, <3>3
  <2>6. ASSUME NEW r \in Requests, Lose, StartDismiss(r) \/ DismissReport(r) \/ Refuse(r)
        PROVE  CommitInv'
    <3>1. UNCHANGED <<approved, todo, skipped>>
      BY <2>6 DEF StartDismiss, DismissReport, Refuse
    <3>2. \A q \in Requests : Handled(q)'
      BY <2>6, <3>1, HandledRests
    <3>3. report'.status = "committed" => UNCHANGED report /\ Refuse(r)
      BY <2>6 DEF StartDismiss, DismissReport, Refuse
    <3>4. Refuse(r) => \A q \in Requests : stage[q] = "over" => stage'[q] = "over"
      BY DEF Refuse
    <3> QED BY <3>1, <3>2, <3>3, <3>4
  <2>7. ASSUME NEW r \in Requests, Lose, RequestDies(r) PROVE CommitInv'
    <3>1. approved'[r] = {} /\ UNCHANGED report /\ stage[r] # "over" /\ stage'[r] = "over"
      BY <2>7 DEF RequestDies
    <3>2. \A q \in Requests : q # r => /\ approved'[q] = approved[q] /\ todo'[q] = todo[q]
                                       /\ skipped'[q] = skipped[q] /\ stage'[q] = stage[q]
      BY <2>7 DEF RequestDies
    <3>3. Handled(r)'
      BY <3>1 DEF Handled
    <3>4. \A q \in Requests : q # r => Handled(q)'
      BY <2>7, <3>2, HandledRests
    <3> QED BY <3>1, <3>2, <3>3, <3>4
  <2>8. CASE UNCHANGED vars
    BY <2>8 DEF vars, cvars, table, Handled
  <2>9. QED
    BY <2>1, <2>2, <2>3, <2>4, <2>5, <2>6, <2>7, <2>8
    DEF Next, Report, Upsert, RequestStep
<1>3. CommitInv => CommittedIsComplete
  BY DEF CommitInv, Handled, CommittedIsComplete
<1>4. QED
  BY <1>1, <1>2, <1>3, TypeCorrect, PTL DEF Spec

-----------------------------------------------------------------------------
(***************************************************************************)
(* The composition.                                                        *)
(***************************************************************************)

\* With reports beside it, maintenance does what it does on its own: to the jobs of
\* retentionWorker.ts the upsert of an approved IOC is a feed's that saw it today, and
\* nothing else a request does touches what they read.  What is checked of Maintenance
\* for any feeds therefore holds with reports as well.
THEOREM ImplementsMaintenance == Spec => MaintenanceSpec
<1>1. Init => MaintenanceInit
  BY DEF Init
<1>2. [Next]_vars => [MaintenanceNext]_<<table, mvars>>
  <2> SUFFICES ASSUME [Next]_vars PROVE [MaintenanceNext]_<<table, mvars>>
    OBVIOUS
  <2>1. ASSUME NEW r \in Requests, NEW i \in IOCs, Upsert(r, i)
        PROVE  [MaintenanceNext]_<<table, mvars>>
    <3>1. CASE UpsertIoc(r, i) /\ UNCHANGED <<worker, faults>> /\ Observe(i)
      <4>1. FeedWrites(i, 0)
        BY <3>1 DEF UpsertIoc, FeedWrites
      <4>2. 0 \in 0..MaxAge
        OBVIOUS
      <4> QED BY <4>1, <4>2 DEF MaintenanceNext
    <3>2. CASE UpsertFails(r, i) /\ UNCHANGED mvars
      BY <3>2 DEF UpsertFails
    <3> QED BY <2>1, <3>1, <3>2 DEF Upsert
  <2>2. ASSUME NEW r \in Requests, RequestStep(r), UNCHANGED <<table, mvars>>
        PROVE  [MaintenanceNext]_<<table, mvars>>
    BY <2>2
  <2>3. CASE UNCHANGED vars
    BY <2>3 DEF vars
  <2> QED BY <2>1, <2>2, <2>3 DEF Next, Report
<1> QED BY <1>1, <1>2, PTL DEF Spec, MaintenanceSpec

\* A row goes only when an administrator deletes it, and decayed_at is only ever
\* cleared by a write of last_seen, or goes with its row.
MarksStay ==
  [][\A i \in rows :
       LET deleted == \E S \in SUBSET rows : i \in S /\ DeleteRows(S)
           sighted == \E a \in 0..MaxAge : Sight(i, a)
       IN /\ i \in rows' \/ deleted
          /\ i \in decayed => i \in decayed' \/ sighted \/ deleted]_<<table, mvars>>

\* MarksStay: the half of DecayedEventually that says the marks the decay has made are
\* kept while nothing is seen and nothing deleted, whatever jobs fail, requests die or
\* administrators rescore.
THEOREM MarksStayHolds == Spec => MarksStay
<1> DEFINE Deleted(i) == \E S \in SUBSET rows : i \in S /\ DeleteRows(S)
           Sighted(i) == \E a \in 0..MaxAge : Sight(i, a)
           Kept(i) == /\ i \in rows' \/ Deleted(i)
                      /\ i \in decayed => i \in decayed' \/ Sighted(i) \/ Deleted(i)
<1>1. ASSUME TypeOK, [MaintenanceNext]_<<table, mvars>>, NEW i \in rows
      PROVE  Kept(i)
  <2>1. ASSUME NEW k \in IOCs, NEW a \in 0..MaxAge, FeedWrites(k, a) PROVE Kept(i)
    <3>1. Sight(k, a)
      BY <2>1 DEF FeedWrites
    <3>2. i \in rows' /\ (i \in decayed /\ i # k => i \in decayed')
      BY <3>1 DEF Sight
    <3>3. i = k => Sighted(i)
      BY <3>1
    <3> QED BY <3>2, <3>3
  <2>2. CASE StampStale
    BY <2>2 DEF StampStale
  <2>3. CASE UNCHANGED <<rows, decayed>>
    BY <2>3
  <2>4. ASSUME NEW S \in SUBSET IOCs, DeleteRows(S) PROVE Kept(i)
    <3>1. S \subseteq rows /\ rows' = rows \ S /\ decayed' = decayed \ S
      BY <2>4 DEF DeleteRows, Delete
    <3>2. i \in S => Deleted(i)
      BY <2>4, <3>1
    <3> QED BY <3>1, <3>2
  <2> QED
    BY <1>1, <2>1, <2>2, <2>3, <2>4 DEF MaintenanceNext, DayPasses, Day, Decay, Backfill,
      StartDecay, StartBackfill, Start, SelectPage, WriteScores, SelectUnscored, ScoreRow,
      ScoreFails, JobFails, Rescore, table, mvars
<1>2. TypeOK /\ [MaintenanceNext]_<<table, mvars>> =>
        [\A i \in rows : Kept(i)]_<<table, mvars>>
  BY <1>1
<1> QED BY <1>2, TypeCorrect, ImplementsMaintenance, PTL DEF MaintenanceSpec, MarksStay

-----------------------------------------------------------------------------
(***************************************************************************)
(* How a backfill comes to its end.                                        *)
(***************************************************************************)

\* What the backfill still has to do about a row: to read it, to score it, nothing.
Due(i) == IF i \in Held THEN 1 ELSE IF i \in rows /\ score[i] = 0 THEN 2 ELSE 0

\* The dues of a step that leaves the scores and the page alone, or only raises them.
LEMMA DueRests ==
  ASSUME TypeOK, NEW i \in IOCs, i \in Held <=> i \in Held', i \in rows' => i \in rows,
         score[i] > 0 /\ i \in rows' => score'[i] > 0
  PROVE  Due(i)' <= Due(i)
<1>1. score[i] \in Nat
  BY DEF TypeOK, TableOK
<1> QED BY <1>1 DEF Due

ScoringFails == \E i \in IOCs : ScoreFails(i)

\* A backfill that goes on has no more to do about any row, unless scoring one failed or
\* rows were added; and every page it reads and every row it scores leaves it less to do.
BackfillDescends ==
  [][job = "backfill" /\ job' = "backfill" =>
       /\ rows' \subseteq rows /\ ~ScoringFails => \A i \in IOCs : Due(i)' <= Due(i)
       /\ SelectUnscored \/ (\E i \in IOCs : ScoreRow(i))
            => \E i \in IOCs : Due(i)' < Due(i)]_<<table, mvars>>

\* BackfillDescends: the argument for BackfillEnds but for the fairness.  A row that was
\* scored is out of the selection and stays out (computeCompositeScore's result is
\* raised to 1), and a page is read of unscored rows only, so it is never read twice
\* for nothing.
THEOREM BackfillDescendsHolds == Spec => BackfillDescends
<1>1. ASSUME TypeOK, [MaintenanceNext]_<<table, mvars>>,
             \A i \in IOCs : score[i] > 0 /\ i \in rows' => score'[i] > 0,
             job = "backfill", job' = "backfill"
      PROVE  /\ rows' \subseteq rows /\ ~ScoringFails => \A i \in IOCs : Due(i)' <= Due(i)
             /\ SelectUnscored \/ (\E i \in IOCs : ScoreRow(i))
                  => \E i \in IOCs : Due(i)' < Due(i)
  <2>0. /\ \A i \in IOCs : score[i] \in Nat /\ (i \in Held => i \in rows)
        /\ rows \subseteq IOCs /\ score \in [IOCs -> 0..MaxScore]
    BY <1>1 DEF TypeOK, TableOK, MaintenanceOK
  <2>1. UNCHANGED page /\ rows' \subseteq rows => \A i \in IOCs : Due(i)' <= Due(i)
    BY <1>1, DueRests DEF Held
  <2>2. ASSUME NEW k \in IOCs, ScoreRow(k)
        PROVE  Due(k)' < Due(k) /\ \A i \in IOCs : Due(i)' <= Due(i)
    <3>1. Held' = Held \ {k} /\ k \in Held /\ UNCHANGED rows
      BY <2>2 DEF ScoreRow, LetGo, Held
    <3>2. score'[k] > 0
      BY <2>0, <2>2 DEF ScoreRow
    <3>3. Due(k) = 1 /\ Due(k)' = 0
      BY <3>1, <3>2 DEF Due
    <3>4. ASSUME NEW i \in IOCs, i # k PROVE Due(i)' <= Due(i)
      <4>1. i \in Held <=> i \in Held'
        BY <3>1, <3>4
      <4> QED BY <1>1, <3>1, <4>1, DueRests
    <3> QED BY <3>3, <3>4
  <2>3. ASSUME SelectUnscored
        PROVE  (\E i \in IOCs : Due(i)' < Due(i)) /\ \A i \in IOCs : Due(i)' <= Due(i)
    <3>1. ~End
      BY <1>1 DEF End
    <3>2. PICK P \in SUBSET {i \in rows : score[i] = 0} : P # {} /\ page' = Read(P)
      BY <2>3, <3>1 DEF SelectUnscored
    <3>3. Held = {} /\ Held' = P /\ UNCHANGED <<rows, score>>
      BY <2>3, <3>2 DEF SelectUnscored, Held, Read, table
    <3>4. \A i \in P : Due(i) = 2 /\ Due(i)' = 1
      BY <3>2, <3>3 DEF Due
    <3>5. ASSUME NEW i \in IOCs \ P PROVE Due(i)' <= Due(i)
      BY <1>1, <3>3, DueRests
    <3>6. \E i \in IOCs : Due(i)' < Due(i)
      BY <2>0, <3>2, <3>4
    <3> QED BY <3>4, <3>5, <3>6
  <2>4. ASSUME NEW S \in SUBSET IOCs, DeleteRows(S), NEW i \in IOCs
        PROVE  Due(i)' <= Due(i)
    <3>1. Held' = Held \ S /\ rows' = rows \ S
      BY <2>4 DEF DeleteRows, Delete, Held
    <3>2. CASE i \in S
      BY <2>0, <3>1, <3>2 DEF Due
    <3>3. CASE i \notin S
      BY <1>1, <3>1, <3>3, DueRests
    <3> QED BY <3>2, <3>3
  <2>5. ~JobFails /\ ~Decay /\ ~StartBackfill
    BY <1>1 DEF JobFails, End, Decay, StartDecay, StartBackfill, Start, SelectPage,
      WriteScores, StampStale
  <2>6. \/ DayPasses \/ UNCHANGED <<table, mvars>>
        \/ (\E i \in IOCs : (\E a \in 0..MaxAge : FeedWrites(i, a)) \/ Rescore(i))
        => UNCHANGED page
    BY DEF DayPasses, FeedWrites, Rescore, worker, mvars
  <2>7. SelectUnscored \/ (\E i \in IOCs : ScoreRow(i)) => \E i \in IOCs : Due(i)' < Due(i)
    BY <2>2, <2>3
  <2>8. ASSUME rows' \subseteq rows, ~ScoringFails, NEW i \in IOCs PROVE Due(i)' <= Due(i)
    BY <1>1, <2>1, <2>2, <2>3, <2>4, <2>5, <2>6, <2>8
    DEF MaintenanceNext, Backfill, ScoringFails
  <2> QED BY <2>7, <2>8
<1>2. TypeOK /\ [MaintenanceNext]_<<table, mvars>>
        /\ [\A i \in IOCs : score[i] > 0 /\ i \in rows' => score'[i] > 0]_<<table, mvars>> =>
      [job = "backfill" /\ job' = "backfill" =>
         /\ rows' \subseteq rows /\ ~ScoringFails => \A i \in IOCs : Due(i)' <= Due(i)
         /\ SelectUnscored \/ (\E i \in IOCs : ScoreRow(i))
              => \E i \in IOCs : Due(i)' < Due(i)]_<<table, mvars>>
  <2>1. UNCHANGED <<table, mvars>> => UNCHANGED score
    BY DEF table
  <2> QED BY <1>1, <2>1
<1> QED
  BY <1>2, TypeCorrect, ScoredStaysHolds, ImplementsMaintenance, PTL
  DEF MaintenanceSpec, ScoredStays, BackfillDescends
=============================================================================
