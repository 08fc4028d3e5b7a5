------------------------ MODULE BootLockOutageProofs ------------------------
(***************************************************************************)
(* The bound on an outage, for any number of processes and any TTL,        *)
(* heartbeat period, lateness and failure bounds.                          *)
(***************************************************************************)
EXTENDS BootLockOutage, BootLockProofs

USE BootLockAssumption

Bound(f) == (2 + f) * (TTL + Lag)

\* q has an answer on its way that makes it serve.
Answered(q) == Waiting(q) /\ reply[q] \in {"OK", "error"}

\* q stands by, so that it polls again when its timer has run out.
Polling(q) == mode[q] \in {"standby", "reclaiming"} /\ ~Answered(q)

(***************************************************************************)
(* In how many ticks at most q serves, if nothing fails from now on.  An   *)
(* answer is seen within Lag.  A poll that finds no key is answered within *)
(* Lag after a timer that may be Lag late.  If the key outlives the timer, *)
(* q polls once in vain, before the key expires, and its next poll comes   *)
(* after that, because no key lives longer than the interval.              *)
(***************************************************************************)
Rest(q) ==
  IF Answered(q) THEN timer[q] - (TTL - Lag)
  ELSE IF lock = None \/ timer[q] >= ttl THEN timer[q] + 2 * Lag
  ELSE TTL + 2 * Lag + (IF timer[q] + Lag < ttl - 1 THEN timer[q] + Lag ELSE ttl - 1)

Rescues(q) ==
  /\ Answered(q) \/ Polling(q)
  /\ outage + Rest(q) < Bound(faults)

OutageInv ==
  /\ TypeOK /\ \A p \in Procs : TimerOK(p)
  /\ outage \in Nat
  /\ ~Down => outage = 0
  /\ Down => \E q \in Procs : Rescues(q)

-----------------------------------------------------------------------------
LEMMA BoundNat ==
  ASSUME NEW f \in Nat
  PROVE  Bound(f) \in Nat /\ Bound(f) >= 2 * (TTL + Lag)
<1>1. f * (TTL + Lag) \in Nat
  OBVIOUS
<1>2. Bound(f) = 2 * (TTL + Lag) + f * (TTL + Lag)
  BY DEF Bound
<1> QED BY <1>1, <1>2

LEMMA BoundSucc == ASSUME NEW f \in Nat PROVE Bound(f + 1) = Bound(f) + TTL + Lag
BY DEF Bound

\* Whoever stands by after a step is in time if the step left an outage of 0.
LEMMA FreshRescuer ==
  ASSUME TypeOK', NEW q \in Procs, TimerOK(q)', outage' = 0,
         mode'[q] \in {"standby", "reclaiming"}
  PROVE  Rescues(q)'
<1>1. Bound(faults') \in Nat /\ Bound(faults') >= 2 * (TTL + Lag)
  BY BoundNat DEF TypeOK
<1>2. Rest(q)' < 2 * (TTL + Lag)
  BY DEF Rest, TypeOK, TimerOK, Answered, Waiting
<1>3. Rest(q)' \in Int
  BY DEF Rest, TypeOK
<1>4. (outage + Rest(q) < Bound(faults))'
  BY <1>1, <1>2, <1>3 DEF Bound
<1> QED BY <1>4 DEF Rescues, Polling

LEMMA RestRange ==
  ASSUME TypeOK, NEW q \in Procs, TimerOK(q), Answered(q) \/ Polling(q)
  PROVE  Rest(q) \in Nat /\ (~Answered(q) => Rest(q) >= Lag)
BY DEF Rest, TypeOK, TimerOK, Answered, Polling, Waiting

LEMMA RestRangeNext ==
  ASSUME TypeOK', NEW q \in Procs, TimerOK(q)', (Answered(q) \/ Polling(q))'
  PROVE  Rest(q)' \in Nat
BY DEF Rest, TypeOK, TimerOK, Answered, Polling, Waiting

-----------------------------------------------------------------------------
\* A step that lowers or keeps what is left, or uses up a failure, keeps a rescuer.
LEMMA StillRescues ==
  ASSUME TypeOK, TypeOK', NEW q \in Procs, NEW r \in Procs, Rescues(q),
         TimerOK(q), outage \in Nat,
         (Answered(r) \/ Polling(r))', outage' \in Nat, Rest(r)' \in Int,
         \/ faults' = faults /\ outage' + Rest(r)' <= outage + Rest(q)
         \/ faults' = faults + 1 /\ outage' + Rest(r)' <= outage + Rest(q) + TTL + Lag
  PROVE  Rescues(r)'
<1>1. Bound(faults) \in Nat /\ Bound(faults + 1) = Bound(faults) + TTL + Lag
  BY BoundNat, BoundSucc DEF TypeOK
<1>2. Rest(q) \in Int
  BY RestRange DEF Rescues
<1>3. outage + Rest(q) < Bound(faults)
  BY DEF Rescues
<1>4. outage' + Rest(r)' < Bound(faults')
  <2>1. CASE faults' = faults /\ outage' + Rest(r)' <= outage + Rest(q)
    BY <1>1, <1>2, <1>3, <2>1
  <2>2. CASE faults' = faults + 1 /\ outage' + Rest(r)' <= outage + Rest(q) + TTL + Lag
    BY <1>1, <1>2, <1>3, <2>2
  <2> QED BY <2>1, <2>2
<1>5. (outage + Rest(r) < Bound(faults))'
  BY <1>4 DEF Bound
<1> QED BY <1>5 DEF Rescues

\* Time passes: what is left goes down by as much as the outage goes up.
LEMMA TickRescues ==
  ASSUME TypeOK, TypeOK', \A p \in Procs : TimerOK(p), (\A p \in Procs : TimerOK(p))',
         outage \in Nat, Tick, outage' \in {outage, outage + 1},
         NEW q \in Procs, Rescues(q)
  PROVE  Rescues(q)'
<1>1. (Answered(q) \/ Polling(q)) /\ (Answered(q) \/ Polling(q))'
  BY DEF Rescues, Answered, Polling, Waiting, Tick
<1>2. Rest(q) \in Nat /\ Rest(q)' \in Nat
  BY <1>1, RestRange, RestRangeNext
<1>3. Rest(q)' <= Rest(q) - 1
  <2>1. timer'[q] = timer[q] - 1
    BY <1>1 DEF Tick, Runs, TypeOK, Answered, Polling, Waiting
  <2>2. CASE Answered(q)
    BY <2>1, <2>2 DEF Rest, Answered, Waiting, Tick, TypeOK
  <2>3. CASE ~Answered(q)
    <3>1. ~Answered(q)' /\ Polling(q)
      BY <1>1, <2>3 DEF Answered, Polling, Waiting, Tick
    <3> QED
      BY <2>1, <2>3, <3>1 DEF Rest, Polling, Tick, TypeOK, TimerOK, Waiting
  <2> QED BY <2>2, <2>3
<1>4. faults' = faults
  BY DEF Tick, env
<1> QED BY <1>1, <1>2, <1>3, <1>4, StillRescues

\* A poll that fails costs at most one more interval.
LEMMA PollRescues ==
  ASSUME TypeOK, TypeOK', \A p \in Procs : TimerOK(p), (\A p \in Procs : TimerOK(p))',
         outage \in Nat, outage' = outage,
         NEW p \in Procs, BootServices(p) \/ ReclaimPoll(p),
         NEW q \in Procs, Rescues(q)
  PROVE  \E r \in Procs : Rescues(r)'
<1> USE DEF Waiting, Enter
<1>1. /\ ~Waiting(p) /\ Waiting(p)' /\ timer'[p] = TTL
      /\ \A r \in Procs \ {p} :
           mode'[r] = mode[r] /\ timer'[r] = timer[r] /\ reply'[r] = reply[r]
  BY DEF BootServices, ReclaimPoll, TypeOK
<1>2. PICK r \in Replies \ {"none"} : SetNx(p, r) /\ reply' = [reply EXCEPT ![p] = r]
  BY DEF BootServices, ReclaimPoll
<1>3. reply'[p] = r
  BY <1>2 DEF TypeOK
<1>4. Rest(q) \in Nat /\ (~Answered(q) => Rest(q) >= Lag)
  BY RestRange DEF Rescues
<1>5. Answered(q) \/ Polling(q)
  BY DEF Rescues
<1>6. CASE Answered(q)
  <2>1. q # p
    BY <1>1, <1>6 DEF Answered
  <2>2. Answered(q)' /\ Rest(q)' = Rest(q)
    BY <1>1, <1>6, <2>1 DEF Answered, Rest
  <2>3. faults' \in {faults, faults + 1}
    BY <1>2 DEF SetNx, UseFault
  <2> QED BY <1>4, <2>2, <2>3, StillRescues
<1>7. CASE ~Answered(q) /\ r \in {"OK", "error"}
  <2>1. Answered(p)' /\ Rest(p)' = Lag
    BY <1>1, <1>3, <1>7 DEF Answered, Rest
  <2>2. faults' \in {faults, faults + 1}
    BY <1>2 DEF SetNx, UseFault
  <2> QED BY <1>4, <1>7, <2>1, <2>2, StillRescues
<1>8. CASE ~Answered(q) /\ r \notin {"OK", "error"}
  <2>0. r = "nil" /\ Polling(q) /\ ~Answered(q)'
    BY <1>1, <1>3, <1>5, <1>8 DEF Replies, Answered
  <2>1. q = p => mode[p] = "standby" /\ timer[p] <= 0
    BY <2>0 DEF BootServices, ReclaimPoll, Polling
  <2>2. Polling(q)'
    BY <2>0, <2>1, <1>1 DEF Polling, ReclaimPoll, BootServices, TypeOK
  <2>3. Rest(q)' \in Nat
    BY <2>2, RestRangeNext
  <2>4. CASE lock # None /\ lock' = lock /\ ttl' = ttl /\ faults' = faults
    <3>1. CASE q = p
      <4>1. Rest(q)' <= Rest(q)
        BY <1>1, <1>8, <2>0, <2>1, <2>4, <3>1 DEF Rest, TypeOK, TimerOK
      <4> QED BY <1>4, <2>2, <2>3, <2>4, <4>1, StillRescues
    <3>2. CASE q # p
      <4>1. Rest(q)' = Rest(q)
        BY <1>1, <1>8, <2>0, <2>4, <3>2 DEF Rest
      <4> QED BY <1>4, <2>2, <2>3, <2>4, <4>1, StillRescues
    <3> QED BY <3>1, <3>2
  <2>5. CASE lock = None /\ faults' = faults + 1 /\ lock' = p /\ ttl' = TTL
    <3>1. Rest(q)' <= Rest(q) + TTL + Lag
      BY <1>1, <1>8, <2>0, <2>1, <2>5 DEF Rest, TypeOK, TimerOK, Polling
    <3> QED BY <1>4, <2>2, <2>3, <2>5, <3>1, StillRescues
  <2> QED BY <1>2, <2>0, <2>4, <2>5 DEF SetNx, UseFault, redis
<1> QED BY <1>6, <1>7, <1>8

\* A process that neither polls, nor serves, nor dies leaves every rescuer as it is.
LEMMA SettledRescues ==
  ASSUME TypeOK, TypeOK', \A p \in Procs : TimerOK(p), (\A p \in Procs : TimerOK(p))',
         outage \in Nat, outage' = outage, Down,
         NEW p \in Procs, Refused(p) \/ StopWorkers(p),
         NEW q \in Procs, Rescues(q)
  PROVE  Rescues(q)'
<1>1. Answered(q) \/ Polling(q)
  BY DEF Rescues
<1>2. (Answered(q)' <=> Answered(q)) /\ (Polling(q)' <=> Polling(q)) /\ timer'[q] = timer[q]
  BY <1>1 DEF Refused, StopWorkers, Answered, Polling, Waiting, Enter, TypeOK
<1>3. lock' = lock /\ ttl' = ttl /\ faults' = faults
  BY DEF Refused, StopWorkers, redis, env
<1>4. Rest(q)' = Rest(q)
  BY <1>2, <1>3 DEF Rest
<1>5. Rest(q) \in Nat
  BY <1>1, RestRange
<1> QED BY <1>1, <1>2, <1>3, <1>4, <1>5, StillRescues

\* Without the key the next poll succeeds.
LEMMA EvictRescues ==
  ASSUME TypeOK, TypeOK', \A p \in Procs : TimerOK(p), (\A p \in Procs : TimerOK(p))',
         outage \in Nat, outage' = outage, Evict, NEW q \in Procs, Rescues(q)
  PROVE  Rescues(q)'
<1>1. (Answered(q) \/ Polling(q)) /\ (Answered(q) \/ Polling(q))'
  BY DEF Rescues, Answered, Polling, Waiting, Evict
<1>2. Rest(q) \in Nat /\ Rest(q)' \in Nat
  BY <1>1, RestRange, RestRangeNext
<1>3. Answered(q)' <=> Answered(q)
  BY DEF Evict, Answered, Waiting
<1>4. Rest(q)' <= Rest(q)
  BY <1>1, <1>3 DEF Rest, Evict, TypeOK, TimerOK, Polling, Waiting
<1>5. faults' = faults
  BY DEF Evict
<1> QED BY <1>1, <1>2, <1>4, <1>5, StillRescues

-----------------------------------------------------------------------------
LEMMA OutageInvInit == OutageInit => OutageInv
<1> SUFFICES ASSUME OutageInit PROVE OutageInv
  OBVIOUS
<1>1. TypeOK /\ outage = 0 /\ ~Down
  BY TypeInit DEF OutageInit, Init, Down, Standby
<1>2. \A p \in Procs : TimerOK(p)
  BY DEF OutageInit, Init, TimerOK, Waiting
<1> QED BY <1>1, <1>2 DEF OutageInv

\* With an outage of 0 whoever stands by is a rescuer.
LEMMA Fresh ==
  ASSUME TypeOK', (\A p \in Procs : TimerOK(p))', outage' = 0
  PROVE  OutageInv'
<1>1. ASSUME Down' PROVE (\E q \in Procs : Rescues(q))'
  <2>1. PICK q \in Procs : mode'[q] \in {"standby", "reclaiming"}
    BY <1>1 DEF Down, Standby
  <2>2. TimerOK(q)'
    OBVIOUS
  <2>3. Rescues(q)'
    BY <2>1, <2>2, FreshRescuer
  <2> QED BY <2>3
<1> QED BY <1>1 DEF OutageInv

LEMMA OutageInvStep == OutageInv /\ [OutageNext]_<<vars, outage>> => OutageInv'
<1> SUFFICES ASSUME OutageInv, [OutageNext]_<<vars, outage>> PROVE OutageInv'
  OBVIOUS
<1>0. /\ TypeOK /\ (\A p \in Procs : TimerOK(p)) /\ outage \in Nat
      /\ ~Down => outage = 0
      /\ Down => \E q \in Procs : Rescues(q)
  BY DEF OutageInv
<1>1. [Next]_vars
  BY DEF OutageNext, Next, Process, Dies
<1>2. TypeOK' /\ (\A p \in Procs : TimerOK(p))'
  BY <1>0, <1>1, TypeStep, TimerStep
<1>3. CASE Tick /\ Down /\ outage' = IF outage < MaxOutage THEN outage + 1 ELSE outage
  <2>1. outage' \in {outage, outage + 1} /\ outage' \in Nat
    BY <1>0, <1>3
  <2>2. Down'
    BY <1>3 DEF Tick, Down, Standby, Serving
  <2>3. PICK q \in Procs : Rescues(q)
    BY <1>0, <1>3
  <2>4. Rescues(q)'
    BY <1>0, <1>2, <1>3, <2>1, <2>3, TickRescues
  <2> QED BY <1>2, <2>1, <2>2, <2>4 DEF OutageInv
<1>4. CASE Tick /\ ~Down /\ outage' = 0
  BY <1>2, <1>4, Fresh
<1>5. ASSUME NEW p \in Procs, Dies(p), outage' = 0 PROVE OutageInv'
  BY <1>2, <1>5, Fresh
<1>6. ASSUME NEW p \in Procs, Process(p), ~Dies(p), outage' = IF Down' THEN outage ELSE 0
      PROVE  OutageInv'
  <2>1. CASE ~Down' \/ ~Down
    <3>1. outage' = 0
      BY <1>0, <1>6, <2>1
    <3> QED BY <1>2, <3>1, Fresh
  <2>2. CASE Down' /\ Down
    <3>1. outage' = outage
      BY <1>6, <2>2
    <3>2. PICK q \in Procs : Rescues(q)
      BY <1>0, <2>2
    <3>3. CASE BootServices(p) \/ ReclaimPoll(p)
      <4>1. \E r \in Procs : Rescues(r)'
        BY <1>0, <1>2, <3>1, <3>2, <3>3, PollRescues
      <4> QED BY <1>0, <1>2, <2>2, <3>1, <4>1 DEF OutageInv
    <3>4. CASE Refused(p) \/ StopWorkers(p)
      <4>1. Rescues(q)'
        BY <1>0, <1>2, <2>2, <3>1, <3>2, <3>4, SettledRescues
      <4> QED BY <1>0, <1>2, <2>2, <3>1, <4>1 DEF OutageInv
    <3>5. CASE Acquired(p) \/ FailedOpen(p) \/ RefreshLock(p) \/ RefreshFailed(p)
      <4>1. mode'[p] \in {"holding", "unguarded"}
        BY <1>0, <3>5 DEF Acquired, FailedOpen, RefreshLock, RefreshFailed, Enter, TypeOK
      <4>2. p \in Serving'
        BY <4>1 DEF Serving
      <4> QED BY <2>2, <4>2 DEF Down
    <3> QED BY <1>6, <3>3, <3>4, <3>5 DEF Process, Dies
  <2> QED BY <2>1, <2>2
<1>7. CASE Evict /\ outage' = outage
  <2>1. Down' <=> Down
    BY <1>7 DEF Evict, Down, Standby, Serving
  <2>2. ASSUME NEW q \in Procs, Rescues(q) PROVE Rescues(q)'
    BY <1>0, <1>2, <1>7, <2>2, EvictRescues
  <2> QED BY <1>0, <1>2, <1>7, <2>1, <2>2 DEF OutageInv
<1>8. CASE UNCHANGED <<vars, outage>>
  BY <1>8 DEF OutageInv, vars, TypeOK, TimerOK, Waiting, Down, Standby, Serving, Rescues,
       Answered, Polling, Rest, Bound
<1> QED BY <1>3, <1>4, <1>5, <1>6, <1>7, <1>8 DEF OutageNext

\* OutageBounded: while a process stands by, the owner-only services are down for
\* less than two reclaim intervals after a death, and one more for every command
\* that failed, however many processes start, stop or are killed meanwhile.
THEOREM OutageBoundedHolds == OutageSpec => []OutageBounded
<1>1. OutageInv => OutageBounded
  <2> SUFFICES ASSUME OutageInv PROVE OutageBounded
    OBVIOUS
  <2>1. Bound(faults) \in Nat /\ Bound(faults) >= 2 * (TTL + Lag)
    BY BoundNat DEF OutageInv, TypeOK
  <2>2. outage < Bound(faults)
    <3>1. CASE Down
      <4>1. PICK q \in Procs : Rescues(q)
        BY <3>1 DEF OutageInv
      <4>2. Rest(q) \in Nat
        BY <4>1, RestRange DEF OutageInv, Rescues
      <4> QED BY <2>1, <4>1, <4>2 DEF OutageInv, Rescues
    <3>2. CASE ~Down
      BY <2>1, <3>2 DEF OutageInv
    <3> QED BY <3>1, <3>2
  <2> QED BY <2>2 DEF OutageBounded, Bound
<1> QED BY <1>1, OutageInvInit, OutageInvStep, PTL DEF OutageSpec

\* The count only observes: whoever is down, the processes and the key do what
\* bootlock.ts and startup.ts let them do without it, so OutageBounded is about BootLock
\* and what is proved of BootLock holds here.
THEOREM OutageObserves == OutageSpec => Spec
<1>1. OutageInit => Init
  BY DEF OutageInit
<1>2. [OutageNext]_<<vars, outage>> => [Next]_vars
  BY DEF OutageNext, Next, Process, Dies
<1> QED BY <1>1, <1>2, PTL DEF OutageSpec, Spec
=============================================================================
