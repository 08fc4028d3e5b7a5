------------------------------ MODULE IocTable ------------------------------
(***************************************************************************)
(* The columns of the table iocs that its maintenance reads and writes     *)
(* (packages/db/src/schema/feeds.ts).  last_seen is kept as its age in     *)
(* days, which saturates; risk_score is 0 for a row nobody has scored.     *)
(***************************************************************************)
EXTENDS Integers

CONSTANTS
  IOCs,       \* values that feeds and reports speak of
  MaxAge,     \* bound: ages beyond it are not told apart
  MaxScore    \* the highest risk_score

ASSUME TableAssumption == MaxAge \in Nat \ {0} /\ MaxScore \in Nat \ {0}

VARIABLES
  rows,       \* the IOCs that have a row
  age,        \* days since last_seen; 0 without a row, and so is score
  score,      \* risk_score
  decayed     \* the rows whose decayed_at is set

table == <<rows, age, score, decayed>>

TableOK ==
  /\ rows \in SUBSET IOCs
  /\ age \in [IOCs -> 0..MaxAge]
  /\ score \in [IOCs -> 0..MaxScore]
  /\ decayed \in SUBSET rows

TableInit ==
  /\ rows = {} /\ decayed = {}
  /\ age = [i \in IOCs |-> 0]
  /\ score = [i \in IOCs |-> 0]

\* Mutant of Sight: the trigger is missing.
SightOnly(i, a) ==
  /\ rows' = rows \union {i}
  /\ age' = [age EXCEPT ![i] = a]
  /\ UNCHANGED <<score, decayed>>

\* A row is inserted or its last_seen is written, with a date a days back.  The
\* trigger of migration 0058 clears decayed_at whenever last_seen changes, in
\* either direction.
Sight(i, a) ==
  /\ rows' = rows \union {i}
  /\ age' = [age EXCEPT ![i] = a]
  /\ decayed' = decayed \ {i}
  /\ UNCHANGED score

\* An administrator deletes rows, by their ids or by a filter, in one statement.  An
\* IOC that is inserted again has a row with an id of its own.
Delete(S) ==
  /\ rows' = rows \ S /\ decayed' = decayed \ S
  /\ age' = [i \in IOCs |-> IF i \in S THEN 0 ELSE age[i]]
  /\ score' = [i \in IOCs |-> IF i \in S THEN 0 ELSE score[i]]

\* A day goes by.
Day ==
  /\ age' = [i \in IOCs |-> IF i \in rows /\ age[i] < MaxAge THEN age[i] + 1 ELSE age[i]]
  /\ UNCHANGED <<rows, score, decayed>>
=============================================================================
