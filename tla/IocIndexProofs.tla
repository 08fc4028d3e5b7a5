--------------------------- MODULE IocIndexProofs ---------------------------
(***************************************************************************)
(* Proofs about IocIndex: type correctness, and that no row stays out of   *)
(* the index as long as nothing is lost.                                   *)
(***************************************************************************)
EXTENDS IocIndex, TLAPS

\* The documents of two rows are different ones, and no uuid is the id of one.
LEMMA DocIdInjective ==
  /\ \A i \in Iocs : DocId(i) \in DocIds /\ DocId(i) \notin Iocs
  /\ \A i, j \in Iocs : DocId(i) = DocId(j) => i = j
BY DocIdAssumption DEF DocId, DocIds

\* A write notifies the listener, if it listens, and nobody else's counter moves.
LEMMA NotifyType ==
  ASSUME TypeOK, NEW i \in Iocs, Notify(i)
  PROVE  inbox' \in [Iocs -> 0..MaxInbox]
<1>1. CASE conn = "listening"
  BY <1>1, IocIndexAssumption DEF TypeOK, Notify
<1>2. CASE conn # "listening"
  BY <1>2 DEF TypeOK, Notify
<1> QED BY <1>1, <1>2

LEMMA WriteType ==
  ASSUME TypeOK, NEW i \in Iocs, Write(i), decayed' \subseteq Iocs
  PROVE  TypeOK'
<1>1. inbox' \in [Iocs -> 0..MaxInbox]
  BY NotifyType DEF Write
<1>2. ver' \in [Iocs -> Versions]
  BY IocIndexAssumption DEF TypeOK, Write, Versions
<1> QED BY <1>1, <1>2 DEF TypeOK, Write, Versions, pruneVars, env

\* A reindex that drops some of what it has read, of one row or of all.
LEMMA SnapType ==
  ASSUME TypeOK, NEW r \in Reindexers, NEW i \in Iocs,
         snap' \in {[snap EXCEPT ![r] = Nothing], [snap EXCEPT ![r][i] = 0]}
  PROVE  snap' \in [Reindexers -> [Iocs -> Versions]]
<1>1. Nothing \in [Iocs -> Versions] /\ snap[r] \in [Iocs -> Versions]
  BY IocIndexAssumption DEF TypeOK, Nothing, Versions
<1>2. [snap[r] EXCEPT ![i] = 0] \in [Iocs -> Versions]
  BY <1>1, IocIndexAssumption DEF Versions
<1>3. CASE snap' = [snap EXCEPT ![r] = Nothing]
  BY <1>1, <1>3 DEF TypeOK
<1>4. CASE snap' = [snap EXCEPT ![r] = [snap[r] EXCEPT ![i] = 0]]
  BY <1>2, <1>4 DEF TypeOK
<1> QED BY <1>3, <1>4

LEMMA TypeStep ==
  ASSUME TypeOK, [Next]_vars
  PROVE  TypeOK'
<1> USE IocIndexAssumption DEF UseFault, rowVars, listener, pruneVars, env
<1>1. ASSUME NEW i \in Iocs, Insert(i) PROVE TypeOK'
  BY <1>1, WriteType DEF Insert, TypeOK
<1>2. ASSUME NEW i \in Iocs, Update(i) PROVE TypeOK'
  BY <1>2, WriteType DEF Update, TypeOK
<1>3. ASSUME NEW i \in Iocs, Decay(i) PROVE TypeOK'
  BY <1>3, WriteType DEF Decay, TypeOK
<1>4. ASSUME NEW i \in Iocs, Delete(i) PROVE TypeOK'
  BY <1>4 DEF Delete, TypeOK, Versions
<1>5. ASSUME NEW h \in Handlers, NEW i \in Iocs, ReadRow(h, i) PROVE TypeOK'
  <2>1. inbox' \in [Iocs -> 0..MaxInbox]
    BY <1>5 DEF ReadRow, TypeOK
  <2>2. CASE Live(i) /\ row' = [row EXCEPT ![h] = i] /\ read' = [read EXCEPT ![h] = ver[i]]
             /\ UNCHANGED faults
    <3>1. ver[i] \in Versions /\ ver[i] > 0
      BY <2>2 DEF TypeOK, Live
    <3>2. row' \in [Handlers -> Iocs \union {None}] /\ read' \in [Handlers -> Versions]
      BY <2>2, <3>1 DEF TypeOK
    <3>3. \A g \in Handlers : row'[g] # None <=> read'[g] > 0
      BY <2>2, <3>1 DEF TypeOK
    <3> QED BY <1>5, <2>1, <2>2, <3>2, <3>3 DEF ReadRow, TypeOK, Versions
  <2>3. CASE UNCHANGED <<row, read>> /\ (UNCHANGED faults \/ UseFault)
    BY <1>5, <2>1, <2>3 DEF ReadRow, TypeOK, Versions
  <2> QED BY <1>5, <2>2, <2>3 DEF ReadRow
<1>6. ASSUME NEW h \in Handlers, IndexRow(h) PROVE TypeOK'
  <2>1. read[h] \in Versions /\ 0 \in Versions /\ row[h] \in Iocs
    BY <1>6 DEF IndexRow, TypeOK, Versions
  <2>2. doc' \in [DocIds -> Versions]
    BY <1>6, <2>1, DocIdInjective DEF IndexRow, TypeOK
  <2>3. row' \in [Handlers -> Iocs \union {None}] /\ read' \in [Handlers -> Versions]
    BY <1>6, <2>1 DEF IndexRow, TypeOK
  <2>4. \A g \in Handlers : row'[g] # None <=> read'[g] > 0
    BY <1>6 DEF IndexRow, TypeOK
  <2> QED BY <1>6, <2>2, <2>3, <2>4 DEF IndexRow, TypeOK, Versions
<1>7. ASSUME NEW r \in Reindexers, StartReindex(r) PROVE TypeOK'
  <2>1. [i \in Iocs |-> IF Live(i) THEN ver[i] ELSE 0] \in [Iocs -> Versions]
    BY DEF TypeOK, Versions
  <2>2. snap' \in [Reindexers -> [Iocs -> Versions]]
    BY <1>7, <2>1 DEF StartReindex, TypeOK
  <2> QED BY <1>7, <2>2 DEF StartReindex, TypeOK, Versions
<1>8. ASSUME NEW r \in Reindexers, NEW i \in Iocs, BulkIndex(r, i) PROVE TypeOK'
  <2>1. snap[r][i] \in Versions
    BY DEF TypeOK
  <2>2. doc' \in [DocIds -> Versions]
    BY <1>8, <2>1, DocIdInjective DEF BulkIndex, TypeOK
  <2>3. snap' \in [Reindexers -> [Iocs -> Versions]]
    BY <1>8, SnapType DEF BulkIndex
  <2> QED BY <1>8, <2>2, <2>3 DEF BulkIndex, TypeOK, Versions
<1>9. ASSUME NEW r \in Reindexers, NEW i \in Iocs, BulkFails(r, i) PROVE TypeOK'
  <2>1. snap' \in [Reindexers -> [Iocs -> Versions]]
    BY <1>9, SnapType DEF BulkFails
  <2> QED BY <1>9, <2>1 DEF BulkFails, TypeOK, Versions
<1>10. CASE StartPrune
  BY <1>10 DEF StartPrune, TypeOK, Versions
<1>11. CASE SelectPage
  <2>1. prune' \in {"idle", "select", "delete"} /\ offset' \in Nat /\ offset' < MaxRows
        /\ page' \subseteq Iocs
    BY <1>11 DEF SelectPage, EndPrune, TypeOK
  <2> QED BY <1>11, <2>1 DEF SelectPage, TypeOK, Versions
<1>12. CASE DeletePage
  <2>1. doc' \in [DocIds -> Versions]
    BY <1>12 DEF DeletePage, DeleteByQuery, TypeOK, Versions
  <2>2. prune' \in {"idle", "select", "delete"} /\ offset' \in Nat /\ offset' < MaxRows
        /\ page' \subseteq Iocs
    BY <1>12 DEF DeletePage, EndPrune, TypeOK
  <2> QED BY <1>12, <2>1, <2>2 DEF DeletePage, TypeOK, Versions
<1>13. CASE Disconnect
  BY <1>13 DEF Disconnect, TypeOK, Versions
<1>14. CASE Reconnect
  BY <1>14 DEF Reconnect, TypeOK, Versions
<1>15. CASE Crash
  <2>1. snap' \in [Reindexers -> [Iocs -> Versions]]
    BY <1>15 DEF Crash, TypeOK, Nothing, Versions
  <2>2. inbox' \in [Iocs -> 0..MaxInbox]
    BY <1>15 DEF Crash, Nothing
  <2> QED BY <1>15, <2>1, <2>2 DEF Crash, EndPrune, TypeOK, Versions
<1>16. CASE Boot
  BY <1>16 DEF Boot, TypeOK, Versions
<1>17. CASE UNCHANGED vars
  BY <1>17 DEF vars, TypeOK, Versions
<1> QED
  BY <1>1, <1>2, <1>3, <1>4, <1>5, <1>6, <1>7, <1>8, <1>9, <1>10, <1>11, <1>12, <1>13,
     <1>14, <1>15, <1>16, <1>17 DEF Next, Table, Listener, Reindex, Prune

LEMMA TypeInit == Init => TypeOK
BY IocIndexAssumption DEF Init, TypeOK, Nothing, Versions

\* Every action keeps the variables in their types: a handler that holds a row
\* has read a version of it, and the pruning stays below its cap.
THEOREM TypeCorrect == Spec => []TypeOK
BY TypeInit, TypeStep, PTL DEF Spec

-----------------------------------------------------------------------------
(***************************************************************************)
(* RowsReachIndex.  A write counts on the listener, so the invariant also  *)
(* says that it is lost only by a counted loss; and it is about the        *)
(* decayed rows too, since the pruning does not reach their documents.     *)
(***************************************************************************)
InIndex(i) == doc[DocId(i)] > 0
OnItsWay(i) == inbox[i] > 0 \/ \E h \in Handlers : row[h] = i
IndexInv ==
  /\ TypeOK
  /\ Lossless => conn = "listening" /\ \A i \in Iocs : Live(i) => InIndex(i) \/ OnItsWay(i)

\* The pruning removes no document, since it looks for uuids.
LEMMA DeletePageRemovesNothing ==
  ASSUME TypeOK, DeletePage
  PROVE  doc' = doc
<1>1. CASE DeleteByQuery(page)
  <2>1. \A k \in DocIds : k \notin page
    BY DocIdAssumption DEF TypeOK
  <2>2. doc' = [k \in DocIds |-> doc[k]]
    BY <1>1, <2>1 DEF DeleteByQuery
  <2> QED BY <2>2 DEF TypeOK
<1>2. CASE UNCHANGED doc
  BY <1>2
<1> QED BY <1>1, <1>2 DEF DeletePage

\* The losses are counted, and none of the counters goes back.
LEMMA LossStays ==
  ASSUME TypeOK, [Next]_vars, Lossless'
  PROVE  Lossless
BY DEF Next, Table, Insert, Update, Decay, Delete, Write, Listener, ReadRow, IndexRow,
       Reindex, StartReindex, BulkIndex, BulkFails, Prune, StartPrune, SelectPage, DeletePage,
       Disconnect, Reconnect, Crash, Boot, UseFault, Lossless, TypeOK,
       vars, rowVars, listener, pruneVars, env

\* A write of row i leaves it on its way, and the other rows where they are.
LEMMA WriteOnItsWay ==
  ASSUME TypeOK, conn = "listening", NEW i \in Iocs, Write(i), NEW j \in Iocs,
         j # i => InIndex(j) \/ OnItsWay(j)
  PROVE  (InIndex(j) \/ OnItsWay(j))'
<1>1. inbox' = [inbox EXCEPT ![i] = @ + 1] /\ UNCHANGED <<doc, row>>
  BY DEF Write, Notify
<1>2. inbox[j] \in Nat
  BY DEF TypeOK
<1> QED BY <1>1, <1>2 DEF InIndex, OnItsWay, TypeOK

LEMMA IndexStep ==
  ASSUME IndexInv, [Next]_vars
  PROVE  IndexInv'
<1>1. TypeOK /\ TypeOK'
  BY TypeStep DEF IndexInv
<1> SUFFICES ASSUME Lossless'
             PROVE  conn' = "listening" /\ \A j \in Iocs : Live(j)' => (InIndex(j) \/ OnItsWay(j))'
  BY <1>1 DEF IndexInv
<1>2. Lossless /\ conn = "listening" /\ \A j \in Iocs : Live(j) => InIndex(j) \/ OnItsWay(j)
  BY <1>1, LossStays DEF IndexInv
<1> USE DEF rowVars, listener, pruneVars, env
<1>3. ASSUME NEW i \in Iocs, Insert(i) \/ Update(i) \/ Decay(i)
      PROVE  conn' = "listening" /\ \A j \in Iocs : Live(j)' => (InIndex(j) \/ OnItsWay(j))'
  <2>1. Write(i) /\ conn' = conn
    BY <1>3 DEF Insert, Update, Decay, Write
  <2>2. \A j \in Iocs : j # i /\ Live(j)' => Live(j)
    BY <1>1, <2>1 DEF Write, Live, TypeOK
  <2> QED BY <1>1, <1>2, <2>1, <2>2, WriteOnItsWay
<1>4. ASSUME NEW i \in Iocs, Delete(i)
      PROVE  conn' = "listening" /\ \A j \in Iocs : Live(j)' => (InIndex(j) \/ OnItsWay(j))'
  BY <1>2, <1>4 DEF Delete, Live, InIndex, OnItsWay
<1>5. ASSUME NEW h \in Handlers, NEW i \in Iocs, ReadRow(h, i)
      PROVE  conn' = "listening" /\ \A j \in Iocs : Live(j)' => (InIndex(j) \/ OnItsWay(j))'
  <2>1. ~UseFault
    BY <1>1, <1>2 DEF UseFault, Lossless, TypeOK
  <2>2. \A j \in Iocs : j # i /\ inbox[j] > 0 => inbox'[j] > 0
    BY <1>1, <1>5 DEF ReadRow, TypeOK
  <2>3. CASE Live(i) /\ row' = [row EXCEPT ![h] = i]
    <3>1. row'[h] = i
      BY <1>1, <2>3 DEF TypeOK
    <3>2. \A j \in Iocs, g \in Handlers : row[g] = j => row'[g] = j
      BY <1>1, <1>5, <2>3, IocIndexAssumption DEF ReadRow, TypeOK
    <3> QED BY <1>2, <1>5, <2>2, <3>1, <3>2 DEF ReadRow, Live, InIndex, OnItsWay
  <2>4. CASE ~Live(i) /\ UNCHANGED row
    BY <1>2, <1>5, <2>2, <2>4 DEF ReadRow, Live, InIndex, OnItsWay
  <2> QED BY <1>5, <2>1, <2>3, <2>4 DEF ReadRow
<1>6. ASSUME NEW h \in Handlers, IndexRow(h)
      PROVE  conn' = "listening" /\ \A j \in Iocs : Live(j)' => (InIndex(j) \/ OnItsWay(j))'
  <2>1. ~UseFault
    BY <1>1, <1>2 DEF UseFault, Lossless, TypeOK
  <2>2. row[h] \in Iocs /\ read[h] > 0
    BY <1>1, <1>6 DEF IndexRow, TypeOK
  <2>3. doc' = [doc EXCEPT ![DocId(row[h])] = read[h]]
    BY <1>6, <2>1 DEF IndexRow
  <2>4. doc'[DocId(row[h])] > 0
    BY <1>1, <2>2, <2>3, DocIdInjective DEF TypeOK
  <2>5. \A j \in Iocs : InIndex(j) => InIndex(j)'
    BY <1>1, <2>2, <2>3, <2>4, DocIdInjective DEF TypeOK, InIndex
  <2>6. \A j \in Iocs, g \in Handlers : row[g] = j => row'[g] = j \/ j = row[h]
    BY <1>1, <1>6 DEF IndexRow, TypeOK
  <2> QED BY <1>2, <1>6, <2>4, <2>5, <2>6 DEF IndexRow, Live, InIndex, OnItsWay
<1>7. ASSUME NEW r \in Reindexers, NEW i \in Iocs, BulkIndex(r, i)
      PROVE  conn' = "listening" /\ \A j \in Iocs : Live(j)' => (InIndex(j) \/ OnItsWay(j))'
  <2>1. snap[r][i] > 0 /\ doc' = [doc EXCEPT ![DocId(i)] = snap[r][i]]
    BY <1>7 DEF BulkIndex, Pending
  <2>2. \A j \in Iocs : InIndex(j) => InIndex(j)'
    BY <1>1, <2>1, DocIdInjective DEF TypeOK, InIndex
  <2> QED BY <1>2, <1>7, <2>2 DEF BulkIndex, Live, OnItsWay
<1>8. CASE DeletePage
  BY <1>1, <1>2, <1>8, DeletePageRemovesNothing DEF DeletePage, Live, InIndex, OnItsWay
<1>9. CASE \/ StartPrune \/ SelectPage
           \/ \E r \in Reindexers : StartReindex(r) \/ \E i \in Iocs : BulkFails(r, i)
  BY <1>2, <1>9 DEF StartPrune, SelectPage, StartReindex, BulkFails, Live, InIndex, OnItsWay
<1>10. CASE Disconnect \/ Reconnect \/ Crash \/ Boot
  BY <1>1, <1>2, <1>10 DEF Disconnect, Reconnect, Crash, Boot, Lossless, TypeOK
<1>11. CASE UNCHANGED vars
  BY <1>2, <1>11 DEF vars, Live, InIndex, OnItsWay
<1> QED
  BY <1>3, <1>4, <1>5, <1>6, <1>7, <1>8, <1>9, <1>10, <1>11
     DEF Next, Table, Listener, Reindex, Prune

\* RowsReachIndex: as long as nothing is lost, a row that has been written and is not
\* decayed has a document, or a handler on its way to one, however many handlers and
\* calls of indexIOCs overlap.
THEOREM RowsReachIndexHolds == Spec => []RowsReachIndex
<1>1. Init => IndexInv
  BY TypeInit DEF Init, IndexInv, Live, Nothing
<1>2. IndexInv => RowsReachIndex
  BY DEF IndexInv, RowsReachIndex, InIndex, OnItsWay
<1> QED BY <1>1, <1>2, IndexStep, PTL DEF Spec

-----------------------------------------------------------------------------
(***************************************************************************)
(* IndexConverges without the fairness: where the documents can come from, *)
(* and what each step does to what is on its way to the document of a row  *)
(* that no longer changes.                                                 *)
(***************************************************************************)

\* A document, a handler and a reindex have a version of the row that was written.
NothingNewer ==
  \A i \in Iocs :
    /\ doc[DocId(i)] <= ver[i]
    /\ \A h \in Handlers : row[h] = i => read[h] <= ver[i]
    /\ \A r \in Reindexers : snap[r][i] <= ver[i]

\* The handlers and the reindexes that hold an outdated version of row i.
Late(i) == {h \in Handlers : row[h] = i /\ read[h] # ver[i]}
Old(i) == {r \in Reindexers : snap[r][i] \notin {0, ver[i]}}

\* What one step does to the document of row i, to a handler that has the row and to a
\* reindex that has read it.
DocFollows(i) ==
  \/ doc'[DocId(i)] = doc[DocId(i)]
  \/ \E h \in Handlers : row[h] = i /\ doc'[DocId(i)] = read[h]
  \/ \E r \in Reindexers : snap[r][i] > 0 /\ doc'[DocId(i)] = snap[r][i]
HandlerFollows(i) ==
  \A h \in Handlers : row'[h] = i =>
    (row[h] = i /\ read'[h] = read[h]) \/ read'[h] = ver[i]
ReindexFollows(i) ==
  \A r \in Reindexers : snap'[r][i] \in {0, snap[r][i], ver[i]}
Follows(i) ==
  DocFollows(i) /\ HandlerFollows(i) /\ ReindexFollows(i) /\ ver'[i] >= ver[i]

LEMMA Following ==
  ASSUME TypeOK, [Next]_vars, NEW i \in Iocs
  PROVE  Follows(i)
<1> USE DEF rowVars, listener, pruneVars, env
<1>1. ver[i] \in Nat /\ DocId(i) \in DocIds
  BY DocIdInjective DEF TypeOK, Versions
<1>2. (UNCHANGED doc => DocFollows(i)) /\ (UNCHANGED <<row, read>> => HandlerFollows(i))
      /\ (UNCHANGED snap => ReindexFollows(i)) /\ (UNCHANGED ver => ver'[i] >= ver[i])
  BY <1>1 DEF DocFollows, HandlerFollows, ReindexFollows
<1>3. ASSUME NEW j \in Iocs, Write(j) PROVE Follows(i)
  <2>1. ver'[i] >= ver[i]
    BY <1>1, <1>3 DEF Write, TypeOK, Versions
  <2> QED BY <1>2, <1>3, <2>1 DEF Write, Follows
<1>4. ASSUME NEW h \in Handlers, NEW j \in Iocs, ReadRow(h, j) PROVE Follows(i)
  <2>1. HandlerFollows(i)
    BY <1>4 DEF ReadRow, HandlerFollows, TypeOK
  <2> QED BY <1>2, <1>4, <2>1 DEF ReadRow, Follows
<1>5. ASSUME NEW h \in Handlers, IndexRow(h) PROVE Follows(i)
  <2>1. row[h] \in Iocs
    BY <1>5 DEF IndexRow, TypeOK
  <2>2. DocFollows(i)
    BY <1>1, <1>5, <2>1, DocIdInjective DEF IndexRow, DocFollows, TypeOK
  <2>3. HandlerFollows(i)
    BY <1>5, IocIndexAssumption DEF IndexRow, HandlerFollows, TypeOK
  <2> QED BY <1>2, <1>5, <2>2, <2>3 DEF IndexRow, Follows
<1>6. ASSUME NEW r \in Reindexers, StartReindex(r) PROVE Follows(i)
  <2>1. ReindexFollows(i)
    BY <1>6 DEF StartReindex, ReindexFollows, TypeOK
  <2> QED BY <1>2, <1>6, <2>1 DEF StartReindex, Follows
<1>7. ASSUME NEW r \in Reindexers, NEW j \in Iocs,
             snap' \in {[snap EXCEPT ![r] = Nothing], [snap EXCEPT ![r][j] = 0]}
      PROVE  ReindexFollows(i)
  <2>1. \A s \in Reindexers : snap[s] \in [Iocs -> Versions]
    BY DEF TypeOK
  <2>2. ASSUME NEW s \in Reindexers PROVE snap'[s][i] \in {0, snap[s][i]}
    BY <1>7, <2>1 DEF TypeOK, Nothing
  <2> QED BY <2>2 DEF ReindexFollows
<1>8. ASSUME NEW r \in Reindexers, NEW j \in Iocs, BulkIndex(r, j) PROVE Follows(i)
  <2>1. snap[r][j] > 0
    BY <1>8 DEF BulkIndex, Pending
  <2>2. DocFollows(i)
    BY <1>1, <1>8, <2>1, DocIdInjective DEF BulkIndex, DocFollows, TypeOK
  <2>3. ReindexFollows(i)
    BY <1>7, <1>8 DEF BulkIndex
  <2> QED BY <1>2, <1>8, <2>2, <2>3 DEF BulkIndex, Follows
<1>9. ASSUME NEW r \in Reindexers, NEW j \in Iocs, BulkFails(r, j) PROVE Follows(i)
  <2>1. ReindexFollows(i)
    BY <1>7, <1>9 DEF BulkFails
  <2> QED BY <1>2, <1>9, <2>1 DEF BulkFails, Follows
<1>10. CASE DeletePage
  BY <1>2, <1>10, DeletePageRemovesNothing DEF DeletePage, Follows
<1>11. CASE Crash
  <2>1. HandlerFollows(i)
    BY <1>11, IocIndexAssumption DEF Crash, HandlerFollows
  <2>2. ASSUME NEW r \in Reindexers PROVE snap'[r][i] \in {0, snap[r][i]}
    BY <1>11 DEF Crash, Nothing, TypeOK
  <2>3. ReindexFollows(i)
    BY <2>2 DEF ReindexFollows
  <2> QED BY <1>2, <1>11, <2>1, <2>3 DEF Crash, Follows
<1>12. CASE StartPrune \/ SelectPage \/ Disconnect \/ Reconnect \/ Boot \/ UNCHANGED vars
            \/ \E j \in Iocs : Delete(j)
  BY <1>2, <1>12 DEF StartPrune, SelectPage, Disconnect, Reconnect, Boot, Delete, vars, Follows
<1> QED
  BY <1>3, <1>4, <1>5, <1>6, <1>8, <1>9, <1>10, <1>11, <1>12
     DEF Next, Table, Insert, Update, Decay, Listener, Reindex, Prune

\* No document is of a version that was never written, whatever is lost: a handler and a
\* reindex write what they have read, and nothing puts a version of its own in the index.
THEOREM NothingNewerHolds == Spec => []NothingNewer
<1>1. Init => NothingNewer
  BY IocIndexAssumption, DocIdInjective DEF Init, NothingNewer, Nothing
<1>2. ASSUME TypeOK, TypeOK', NothingNewer, [Next]_vars, NEW i \in Iocs
      PROVE  /\ doc'[DocId(i)] <= ver'[i]
             /\ \A h \in Handlers : row'[h] = i => read'[h] <= ver'[i]
             /\ \A r \in Reindexers : snap'[r][i] <= ver'[i]
  <2>1. Follows(i)
    BY <1>2, Following
  <2>2. /\ ver[i] \in Nat /\ ver'[i] \in Nat /\ ver[i] <= ver'[i]
        /\ doc[DocId(i)] \in Nat /\ doc'[DocId(i)] \in Nat
        /\ \A h \in Handlers : read[h] \in Nat /\ read'[h] \in Nat
        /\ \A r \in Reindexers : snap[r][i] \in Nat /\ snap'[r][i] \in Nat
    BY <1>2, <2>1, DocIdInjective DEF TypeOK, Versions, Follows
  <2>3. /\ doc[DocId(i)] <= ver[i]
        /\ \A h \in Handlers : row[h] = i => read[h] <= ver[i]
        /\ \A r \in Reindexers : snap[r][i] <= ver[i]
    BY <1>2 DEF NothingNewer
  <2>4. doc'[DocId(i)] <= ver'[i]
    BY <2>1, <2>2, <2>3 DEF Follows, DocFollows
  <2>5. ASSUME NEW h \in Handlers, row'[h] = i PROVE read'[h] <= ver'[i]
    BY <2>1, <2>2, <2>3, <2>5 DEF Follows, HandlerFollows
  <2>6. ASSUME NEW r \in Reindexers PROVE snap'[r][i] <= ver'[i]
    <3>1. snap'[r][i] \in {0, snap[r][i], ver[i]}
      BY <2>1 DEF Follows, ReindexFollows
    <3> QED BY <2>2, <2>3, <3>1
  <2> QED BY <2>4, <2>5, <2>6
<1>3. TypeOK /\ TypeOK' /\ NothingNewer /\ [Next]_vars => NothingNewer'
  BY <1>2 DEF NothingNewer
<1> QED BY <1>1, <1>3, TypeCorrect, PTL DEF Spec

\* While row i has the same version, no outdated version of it gets on its way; what is
\* handed to OpenSearch is under way no more; a reindex that starts takes up the version
\* there is; a handler and a reindex that are not outdated write that version; and when
\* nothing outdated is on its way, a document of that version stays.
IndexSettles ==
  [][\A i \in Iocs : UNCHANGED ver[i] =>
       /\ Late(i)' \subseteq Late(i) /\ Old(i)' \subseteq Old(i)
       /\ \A h \in Handlers : IndexRow(h) => h \notin Late(i)'
       /\ \A r \in Reindexers :
            /\ BulkIndex(r, i) => /\ r \notin Old(i)'
                                  /\ r \notin Old(i) => doc'[DocId(i)] = ver[i]
            /\ StartReindex(r) /\ Live(i) => snap'[r][i] = ver[i]
       /\ Late(i) = {} /\ Old(i) = {} /\ doc[DocId(i)] = ver[i] => doc'[DocId(i)] = ver[i]]_vars

\* IndexSettles: the argument for IndexConverges but for the fairness.  Handlers and
\* reindexes are raced only by those that read the row before its last write, and the
\* pruning removes nothing.
THEOREM IndexSettlesHolds == Spec => IndexSettles
<1>1. ASSUME TypeOK, [Next]_vars, NEW i \in Iocs, UNCHANGED ver[i]
      PROVE  /\ Late(i)' \subseteq Late(i) /\ Old(i)' \subseteq Old(i)
             /\ \A h \in Handlers : IndexRow(h) => h \notin Late(i)'
             /\ \A r \in Reindexers :
                  /\ BulkIndex(r, i) => /\ r \notin Old(i)'
                                        /\ r \notin Old(i) => doc'[DocId(i)] = ver[i]
                  /\ StartReindex(r) /\ Live(i) => snap'[r][i] = ver[i]
             /\ Late(i) = {} /\ Old(i) = {} /\ doc[DocId(i)] = ver[i] => doc'[DocId(i)] = ver[i]
  <2>1. DocFollows(i) /\ HandlerFollows(i) /\ ReindexFollows(i)
    BY <1>1, Following DEF Follows
  <2>2. Late(i)' \subseteq Late(i)
    BY <1>1, <2>1 DEF HandlerFollows, Late
  <2>3. Old(i)' \subseteq Old(i)
    BY <1>1, <2>1 DEF ReindexFollows, Old
  <2>4. ASSUME NEW h \in Handlers, IndexRow(h) PROVE h \notin Late(i)'
    BY <1>1, <2>4, IocIndexAssumption DEF IndexRow, Late, TypeOK
  <2>5. ASSUME NEW r \in Reindexers, BulkIndex(r, i)
        PROVE  r \notin Old(i)' /\ (r \notin Old(i) => doc'[DocId(i)] = ver[i])
    <3>1. snap[r] \in [Iocs -> Versions] /\ snap[r][i] > 0
      BY <1>1, <2>5 DEF BulkIndex, Pending, TypeOK
    <3>2. snap'[r][i] = 0 /\ doc'[DocId(i)] = snap[r][i]
      BY <1>1, <2>5, <3>1, DocIdInjective DEF BulkIndex, TypeOK
    <3> QED BY <3>1, <3>2 DEF Old
  <2>6. ASSUME NEW r \in Reindexers, StartReindex(r), Live(i) PROVE snap'[r][i] = ver[i]
    BY <1>1, <2>6 DEF StartReindex, TypeOK
  <2>7. ASSUME Late(i) = {}, Old(i) = {}, doc[DocId(i)] = ver[i] PROVE doc'[DocId(i)] = ver[i]
    BY <1>1, <2>1, <2>7 DEF DocFollows, Late, Old
  <2> QED BY <2>2, <2>3, <2>4, <2>5, <2>6, <2>7
<1>2. TypeOK /\ [Next]_vars =>
        [\A i \in Iocs : UNCHANGED ver[i] =>
           /\ Late(i)' \subseteq Late(i) /\ Old(i)' \subseteq Old(i)
           /\ \A h \in Handlers : IndexRow(h) => h \notin Late(i)'
           /\ \A r \in Reindexers :
                /\ BulkIndex(r, i) => /\ r \notin Old(i)'
                                      /\ r \notin Old(i) => doc'[DocId(i)] = ver[i]
                /\ StartReindex(r) /\ Live(i) => snap'[r][i] = ver[i]
           /\ Late(i) = {} /\ Old(i) = {} /\ doc[DocId(i)] = ver[i]
                => doc'[DocId(i)] = ver[i]]_vars
  BY <1>1
<1> QED BY <1>2, TypeCorrect, PTL DEF Spec, IndexSettles
=============================================================================
