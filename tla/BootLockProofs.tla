--------------------------- MODULE BootLockProofs ---------------------------
(***************************************************************************)
(* Proofs about BootLock, for any number of processes and any TTL,         *)
(* heartbeat period, lateness and failure bounds.                          *)
(***************************************************************************)
EXTENDS BootLock, TLAPS

USE BootLockAssumption

(***************************************************************************)
(* The inductive invariant.  A process that has been granted the lock and  *)
(* is not shutting down owns the key, and the key outlives its timer.  It  *)
(* holds until a key is evicted or more commands have failed than one TTL  *)
(* can absorb.                                                             *)
(***************************************************************************)
TimerOK(p) ==
  /\ Waiting(p) => timer[p] \in (TTL - Lag)..TTL
  /\ mode[p] = "standby" => timer[p] \in -Lag..TTL
  /\ mode[p] = "holding" => timer[p] \in -Lag..HB

Covered(p) ==
  /\ Waiting(p) /\ reply[p] = "OK" => lock = p /\ ttl >= timer[p]
  /\ mode[p] = "holding" => lock = p /\ ttl >= TTL - Late(faults) - HB + timer[p]

KeyInv ==
  /\ TypeOK
  /\ \A p \in Procs : TimerOK(p)
  /\ evictions = 0 /\ Fits(faults) => \A p \in Procs : ~stopping[p] => Covered(p)

-----------------------------------------------------------------------------
LEMMA TypeInit == Init => TypeOK
BY DEF Init, TypeOK, Modes, Replies

LEMMA TypeStep == TypeOK /\ [Next]_vars => TypeOK'
<1> SUFFICES ASSUME TypeOK, [Next]_vars PROVE TypeOK'
  OBVIOUS
<1> USE DEF TypeOK, Modes, Replies, redis, env, UseFault, Enter
<1>1. CASE Tick
  BY <1>1 DEF Tick
<1>2. CASE Evict
  BY <1>2 DEF Evict
<1>3. ASSUME NEW p \in Procs, BootServices(p) \/ ReclaimPoll(p) PROVE TypeOK'
  BY <1>3 DEF BootServices, ReclaimPoll, SetNx
<1>4. ASSUME NEW p \in Procs, Acquired(p) \/ Refused(p) \/ FailedOpen(p) PROVE TypeOK'
  BY <1>4 DEF Acquired, Refused, FailedOpen, LoadWorkers
<1>5. ASSUME NEW p \in Procs, RefreshLock(p) \/ RefreshFailed(p) PROVE TypeOK'
  BY <1>5 DEF RefreshLock, RefreshFailed, CompareAndExpire
<1>6. ASSUME NEW p \in Procs, Shutdown(p) PROVE TypeOK'
  BY <1>6 DEF Shutdown, CompareAndDelete
<1>7. ASSUME NEW p \in Procs, StopWorkers(p) PROVE TypeOK'
  BY <1>7 DEF StopWorkers
<1>8. ASSUME NEW p \in Procs, Exit(p) PROVE TypeOK'
  BY <1>8 DEF Exit, Reset, Disown
<1>9. ASSUME NEW p \in Procs, Crash(p) PROVE TypeOK'
  BY <1>9 DEF Crash, Reset, Disown
<1>10. CASE UNCHANGED vars
  BY <1>10 DEF vars
<1>11. QED
  BY <1>1, <1>2, <1>3, <1>4, <1>5, <1>6, <1>7, <1>8, <1>9, <1>10 DEF Next, Process

\* TypeOK: every variable keeps its type, and the key has a TTL exactly while
\* it exists.
THEOREM TypeCorrect == Spec => []TypeOK
BY TypeInit, TypeStep, PTL DEF Spec

-----------------------------------------------------------------------------
LEMMA LateNat == ASSUME NEW f \in Nat PROVE Late(f) \in Nat /\ Lag <= Late(f)
<1>1. f * (HB + Lag) \in Nat
  OBVIOUS
<1>2. QED
  BY <1>1 DEF Late

LEMMA LateSucc == ASSUME NEW f \in Nat PROVE Late(f + 1) = Late(f) + HB + Lag
BY DEF Late

-----------------------------------------------------------------------------
LEMMA KeyInvInit == Init => KeyInv
BY TypeInit DEF Init, KeyInv, TimerOK, Covered, Waiting

\* Every step keeps the timers within their ranges: time passes only while no
\* callback is more than Lag late.
LEMMA TimerStep ==
  ASSUME TypeOK, \A p \in Procs : TimerOK(p), [Next]_vars
  PROVE  (\A p \in Procs : TimerOK(p))'
<1> SUFFICES ASSUME NEW q \in Procs PROVE TimerOK(q)'
  OBVIOUS
<1> USE DEF TypeOK, TimerOK, Waiting, Enter
<1>1. CASE Tick
  BY <1>1 DEF Tick, MayWait, Runs
<1>2. CASE Evict
  BY <1>2 DEF Evict
<1>3. ASSUME NEW p \in Procs, BootServices(p) \/ ReclaimPoll(p) PROVE TimerOK(q)'
  BY <1>3 DEF BootServices, ReclaimPoll
<1>4. ASSUME NEW p \in Procs, Acquired(p) \/ Refused(p) \/ FailedOpen(p)
      PROVE  TimerOK(q)'
  BY <1>4 DEF Acquired, Refused, FailedOpen
<1>5. ASSUME NEW p \in Procs, RefreshLock(p) \/ RefreshFailed(p) PROVE TimerOK(q)'
  BY <1>5 DEF RefreshLock, RefreshFailed
<1>6. ASSUME NEW p \in Procs, Shutdown(p) \/ StopWorkers(p) PROVE TimerOK(q)'
  BY <1>6 DEF Shutdown, StopWorkers
<1>7. ASSUME NEW p \in Procs, Exit(p) \/ Crash(p) PROVE TimerOK(q)'
  BY <1>7 DEF Exit, Crash, Reset
<1>8. CASE UNCHANGED vars
  BY <1>8 DEF vars
<1>9. QED
  BY <1>1, <1>2, <1>3, <1>4, <1>5, <1>6, <1>7, <1>8 DEF Next, Process

\* Failures only ever use the slack up.
LEMMA FitsBefore ==
  ASSUME TypeOK, [Next]_vars, evictions' = 0, Fits(faults)'
  PROVE  /\ evictions = 0 /\ Fits(faults)
         /\ Late(faults) \in Nat /\ Late(faults') \in Nat
         /\ faults' = faults \/ Late(faults') = Late(faults) + HB + Lag
<1>1. evictions = 0 /\ (faults' = faults \/ faults' = faults + 1)
  BY DEF TypeOK, Next, Process, vars, redis, env, UseFault, Tick, Evict, BootServices,
    ReclaimPoll, SetNx, Acquired, Refused, FailedOpen, RefreshLock, RefreshFailed,
    Shutdown, StopWorkers, Exit, Crash
<1>2. faults \in Nat /\ faults' \in Nat
  BY <1>1 DEF TypeOK
<1>3. faults' = faults \/ Late(faults') = Late(faults) + HB + Lag
  BY <1>1, <1>2, LateSucc
<1>4. Late(faults) \in Nat /\ Late(faults') \in Nat
  BY <1>2, LateNat
<1>5. QED
  BY <1>1, <1>3, <1>4 DEF Fits

\* The core of the argument, one action at a time: a live holder's key outlives
\* its timer.
LEMMA CoveredStep ==
  ASSUME KeyInv, [Next]_vars, evictions' = 0, Fits(faults)',
         NEW q \in Procs, ~stopping'[q]
  PROVE  Covered(q)'
<1>0. /\ TypeOK /\ TimerOK(q) /\ evictions = 0 /\ Fits(faults)
      /\ ~stopping[q] => Covered(q)
  BY FitsBefore DEF KeyInv
<1>1. /\ TypeOK /\ TimerOK(q) /\ TypeOK'
      /\ ~stopping[q] => Covered(q)
      /\ Late(faults) \in Nat /\ Late(faults') \in Nat
      /\ Late(faults) + HB + Lag < TTL /\ Late(faults') + HB + Lag < TTL
      /\ Late(faults) <= Late(faults')
  <2>1. /\ Late(faults) \in Nat /\ Late(faults') \in Nat
        /\ faults' = faults \/ Late(faults') = Late(faults) + HB + Lag
    BY <1>0, FitsBefore
  <2>2. Late(faults) <= Late(faults')
    BY <2>1
  <2>3. Late(faults) + HB + Lag < TTL /\ Late(faults') + HB + Lag < TTL
    BY <1>0 DEF Fits
  <2>4. QED
    BY <1>0, <2>1, <2>2, <2>3, TypeStep DEF KeyInv
<1>2. Lag <= Late(faults) /\ Lag <= Late(faults')
  BY <1>1, LateNat DEF TypeOK
<1> USE DEF TypeOK, TimerOK, Covered, Waiting, Enter
<1>3. CASE Tick
  BY <1>1, <1>3 DEF Tick, MayWait, Runs
<1>4. CASE Evict
  BY <1>0, <1>4 DEF Evict
<1>5. ASSUME NEW p \in Procs, BootServices(p) \/ ReclaimPoll(p) PROVE Covered(q)'
  <2>1. CASE p = q
    BY <1>1, <1>5, <2>1 DEF BootServices, ReclaimPoll, SetNx, redis, Replies
  <2>2. CASE p # q
    BY <1>1, <1>5, <2>2 DEF BootServices, ReclaimPoll, SetNx, redis, Replies
  <2>3. QED
    BY <2>1, <2>2
<1>6. ASSUME NEW p \in Procs, Acquired(p) \/ Refused(p) \/ FailedOpen(p)
      PROVE  Covered(q)'
  BY <1>1, <1>2, <1>6 DEF Acquired, Refused, FailedOpen, redis, env
<1>7. ASSUME NEW p \in Procs, RefreshLock(p) PROVE Covered(q)'
  BY <1>1, <1>2, <1>7 DEF RefreshLock, CompareAndExpire, env
<1>8. ASSUME NEW p \in Procs, RefreshFailed(p) PROVE Covered(q)'
  <2>1. Late(faults') = Late(faults) + HB + Lag
    BY <1>8, FitsBefore DEF KeyInv, RefreshFailed, UseFault
  <2>2. CASE p = q
    BY <1>1, <1>2, <1>8, <2>1, <2>2 DEF RefreshFailed, CompareAndExpire, redis
  <2>3. CASE p # q
    BY <1>1, <1>2, <1>8, <2>1, <2>3 DEF RefreshFailed, CompareAndExpire, redis
  <2>4. QED
    BY <2>2, <2>3
<1>9. ASSUME NEW p \in Procs, Shutdown(p) PROVE Covered(q)'
  <2>1. p # q
    BY <1>1, <1>9 DEF Shutdown
  <2>2. QED
    BY <1>1, <1>9, <2>1 DEF Shutdown, CompareAndDelete, redis
<1>10. ASSUME NEW p \in Procs, StopWorkers(p) PROVE Covered(q)'
  BY <1>1, <1>10 DEF StopWorkers, redis, env
<1>11. ASSUME NEW p \in Procs, Exit(p) \/ Crash(p) PROVE Covered(q)'
  BY <1>1, <1>11 DEF Exit, Crash, Reset, Disown, env
<1>12. CASE UNCHANGED vars
  BY <1>1, <1>12 DEF vars
<1>13. QED
  BY <1>3, <1>4, <1>5, <1>6, <1>7, <1>8, <1>9, <1>10, <1>11, <1>12 DEF Next, Process

LEMMA KeyInvStep == KeyInv /\ [Next]_vars => KeyInv'
<1> SUFFICES ASSUME KeyInv, [Next]_vars PROVE KeyInv'
  OBVIOUS
<1>1. TypeOK'
  BY TypeStep DEF KeyInv
<1>2. (\A p \in Procs : TimerOK(p))'
  BY TimerStep DEF KeyInv
<1>3. ASSUME (evictions = 0 /\ Fits(faults))', NEW q \in Procs, (~stopping[q])'
      PROVE  Covered(q)'
  BY <1>3, CoveredStep
<1>4. QED
  BY <1>1, <1>2, <1>3 DEF KeyInv

LEMMA KeyInvariant == Spec => []KeyInv
BY KeyInvInit, KeyInvStep, PTL DEF Spec

-----------------------------------------------------------------------------
\* A process whose heartbeat runs owns the key, if nobody deletes the key and one
\* TTL absorbs a late reply and all the heartbeats that failed or ran late.
THEOREM HolderKeepsLockHolds == Spec => []HolderKeepsLock
<1>1. KeyInv => HolderKeepsLock
  BY DEF KeyInv, Covered, HolderKeepsLock
<1>2. QED
  BY <1>1, KeyInvariant, PTL

(***************************************************************************)
(* How a process comes to run the services without the lock.               *)
(***************************************************************************)
CauseInv ==
  /\ UnguardedHasCause
  /\ \A p \in Procs : reply[p] = "error" => faults > 0

LEMMA CauseInvariant == ASSUME Fits(0) PROVE Spec => []CauseInv
<1>1. Init => CauseInv
  BY DEF Init, CauseInv, UnguardedHasCause
<1>2. KeyInv /\ CauseInv /\ [Next]_vars => CauseInv'
  <2> SUFFICES ASSUME KeyInv, CauseInv, [Next]_vars PROVE CauseInv'
    OBVIOUS
  <2>1. TypeOK
    BY DEF KeyInv
  <2> USE <2>1 DEF TypeOK, CauseInv, UnguardedHasCause, Enter, UseFault
  <2>2. CASE Tick \/ Evict
    BY <2>2 DEF Tick, Evict, env
  <2>3. ASSUME NEW p \in Procs, BootServices(p) \/ ReclaimPoll(p) PROVE CauseInv'
    BY <2>3 DEF BootServices, ReclaimPoll, SetNx, redis
  <2>4. ASSUME NEW p \in Procs, Acquired(p) \/ Refused(p) \/ FailedOpen(p)
        PROVE  CauseInv'
    BY <2>4 DEF Acquired, Refused, FailedOpen, env
  <2>5. ASSUME NEW p \in Procs, RefreshLock(p) PROVE CauseInv'
    <3>1. lock = p \/ stopping[p] \/ faults > 0 \/ evictions > 0
      <4> SUFFICES ASSUME ~stopping[p], faults = 0, evictions = 0 PROVE lock = p
        OBVIOUS
      <4>1. Covered(p)
        BY DEF KeyInv
      <4>2. QED
        BY <4>1, <2>5 DEF Covered, RefreshLock
    <3>2. QED
      BY <3>1, <2>5 DEF RefreshLock, env
  <2>6. ASSUME NEW p \in Procs, RefreshFailed(p) PROVE CauseInv'
    BY <2>6 DEF RefreshFailed
  <2>7. ASSUME NEW p \in Procs, Shutdown(p) PROVE CauseInv'
    BY <2>7 DEF Shutdown
  <2>8. ASSUME NEW p \in Procs, StopWorkers(p) \/ Exit(p) \/ Crash(p) PROVE CauseInv'
    BY <2>8 DEF StopWorkers, Exit, Crash, Reset, env
  <2>9. CASE UNCHANGED vars
    BY <2>9 DEF vars
  <2>10. QED
    BY <2>2, <2>3, <2>4, <2>5, <2>6, <2>7, <2>8, <2>9 DEF Next, Process
<1>3. QED
  BY <1>1, <1>2, KeyInvariant, PTL DEF Spec

\* A process that runs the services unprotected is stopping, or Redis failed it,
\* or the key was evicted.
THEOREM UnguardedHasCauseHolds ==
  ASSUME Fits(0)
  PROVE  Spec => []UnguardedHasCause
BY CauseInvariant, PTL DEF CauseInv

\* Until Redis fails or evicts the key, of two processes that run the owner-only
\* services at least one is shutting down.
THEOREM OverlapOnlyWhileStoppingHolds ==
  ASSUME Fits(0)
  PROVE  Spec => []OverlapOnlyWhileStopping
<1>1. TypeOK /\ HolderKeepsLock /\ UnguardedHasCause => OverlapOnlyWhileStopping
  BY DEF TypeOK, HolderKeepsLock, UnguardedHasCause, OverlapOnlyWhileStopping, Serving
<1>2. Spec => []HolderKeepsLock /\ []UnguardedHasCause
  BY HolderKeepsLockHolds, UnguardedHasCauseHolds
<1>3. QED
  BY <1>1, <1>2, TypeCorrect, PTL

\* Failures are only ever counted up.
LEMMA FailuresCounted ==
  ASSUME TypeOK, [Next]_vars, ~Failed'
  PROVE  faults = 0 /\ evictions = 0
<1>1. faults' \in {faults, faults + 1} /\ evictions' \in {evictions, evictions + 1}
  BY DEF TypeOK, Next, Process, vars, redis, env, UseFault, Tick, Evict, BootServices,
    ReclaimPoll, SetNx, Acquired, Refused, FailedOpen, RefreshLock, RefreshFailed,
    Shutdown, StopWorkers, Exit, Crash
<1>2. QED
  BY <1>1 DEF TypeOK, Failed

\* The key leaves its owner's hands only by expiry, by eviction or by what the owner
\* itself does when it shuts down, however many commands fail.
THEOREM OnlyOwnerReleasesHolds == Spec => OnlyOwnerReleases
<1>1. TypeOK /\ [Next]_vars =>
        [\A p \in Procs :
           lock = p /\ lock' # p =>
             ttl = 1 \/ evictions' > evictions \/ mode'[p] = "down" \/ stopping'[p]]_vars
  <2> SUFFICES ASSUME TypeOK, [Next]_vars, NEW p \in Procs, lock = p, lock' # p
               PROVE  ttl = 1 \/ evictions' > evictions \/ mode'[p] = "down" \/ stopping'[p]
    OBVIOUS
  <2> USE DEF TypeOK, Enter, redis
  <2>1. CASE Tick \/ Evict
    BY <2>1 DEF Tick, Evict
  <2>2. ASSUME NEW q \in Procs, BootServices(q) \/ ReclaimPoll(q) PROVE FALSE
    BY <2>2, BootLockAssumption DEF BootServices, ReclaimPoll, SetNx
  <2>3. ASSUME NEW q \in Procs, Acquired(q) \/ Refused(q) \/ FailedOpen(q) PROVE FALSE
    BY <2>3 DEF Acquired, Refused, FailedOpen
  <2>4. ASSUME NEW q \in Procs, RefreshLock(q) \/ RefreshFailed(q) PROVE FALSE
    BY <2>4 DEF RefreshLock, RefreshFailed, CompareAndExpire
  <2>5. ASSUME NEW q \in Procs, Shutdown(q) PROVE stopping'[p]
    BY <2>5 DEF Shutdown, CompareAndDelete
  <2>6. ASSUME NEW q \in Procs, StopWorkers(q) PROVE FALSE
    BY <2>6 DEF StopWorkers
  <2>7. ASSUME NEW q \in Procs, Exit(q) \/ Crash(q) PROVE mode'[p] = "down"
    BY <2>7 DEF Exit, Crash, Reset, Disown
  <2>8. CASE UNCHANGED vars
    BY <2>8 DEF vars
  <2>9. QED
    BY <2>1, <2>2, <2>3, <2>4, <2>5, <2>6, <2>7, <2>8 DEF Next, Process
<1>2. QED
  BY <1>1, TypeCorrect, PTL DEF Spec, OnlyOwnerReleases

\* The boot lock implements the abstract owner: until Redis fails or loses the key, a
\* step of the code takes, retires or leaves the ownership, or does not change it.
THEOREM ImplementsSoleOwnerHolds ==
  ASSUME Fits(0)
  PROVE  Spec => ImplementsSoleOwner
<1>1. Init => Owners!Init
  BY DEF Init, Owners!Init, Active, Retiring, Serving, Failed
<1>2. KeyInv /\ CauseInv /\ [Next]_vars => [Owners!Next]_<<Active, Retiring, Failed>>
  <2> SUFFICES ASSUME KeyInv, CauseInv, [Next]_vars, ~Failed'
               PROVE  Owners!Next \/ UNCHANGED <<Active, Retiring, Failed>>
    BY DEF Owners!Next, Owners!Break
  <2>0. TypeOK /\ faults = 0 /\ evictions = 0
    BY FailuresCounted DEF KeyInv, Failed, TypeOK
  <2>1. TypeOK /\ ~Failed /\ faults = 0 /\ evictions = 0 /\ Fits(faults)
    BY <2>0 DEF Failed
  <2>1x. UNCHANGED Failed
    BY <2>1 DEF Failed
  <2>2. \A p \in Procs : ~stopping[p] => Covered(p) /\ mode[p] # "unguarded"
    BY <2>1 DEF KeyInv, CauseInv, UnguardedHasCause
  <2> USE <2>1, <2>1x DEF TypeOK, Enter, Active, Retiring, Serving
  <2>3. CASE Tick \/ Evict
    BY <2>3 DEF Tick, Evict
  <2>4. ASSUME NEW p \in Procs, BootServices(p) \/ ReclaimPoll(p)
        PROVE  UNCHANGED <<Active, Retiring, Failed>>
    BY <2>4 DEF BootServices, ReclaimPoll
  <2>5. ASSUME NEW p \in Procs, Acquired(p) PROVE Owners!Next
    <3>1. CASE stopping[p]
      <4>1. Owners!LateStart(p)
        BY <2>5, <3>1 DEF Acquired, Waiting, Owners!LateStart
      <4>2. QED
        BY <4>1 DEF Owners!Next
    <3>2. CASE ~stopping[p]
      <4>1. Active = {}
        BY <2>2, <2>5, <3>2 DEF Acquired, Waiting, Covered
      <4>2. Owners!Take(p)
        BY <2>5, <3>2, <4>1 DEF Acquired, Waiting, Owners!Take
      <4>3. QED
        BY <4>2 DEF Owners!Next
    <3>3. QED
      BY <3>1, <3>2
  <2>6. ASSUME NEW p \in Procs, Refused(p) PROVE UNCHANGED <<Active, Retiring, Failed>>
    BY <2>6 DEF Refused, Waiting
  <2>7. ASSUME NEW p \in Procs, FailedOpen(p) PROVE FALSE
    BY <2>7 DEF FailedOpen, CauseInv
  <2>8. ASSUME NEW p \in Procs, RefreshLock(p) \/ RefreshFailed(p)
        PROVE  UNCHANGED <<Active, Retiring, Failed>>
    BY <2>8 DEF RefreshLock, RefreshFailed
  <2>9. ASSUME NEW p \in Procs, Shutdown(p)
        PROVE  Owners!Next \/ UNCHANGED <<Active, Retiring, Failed>>
    <3>1. CASE p \in Active
      <4>1. Owners!Retire(p)
        BY <2>9, <3>1 DEF Shutdown, Owners!Retire
      <4>2. QED
        BY <4>1 DEF Owners!Next
    <3>2. CASE p \notin Active
      BY <2>9, <3>2 DEF Shutdown
    <3>3. QED
      BY <3>1, <3>2
  <2>10. ASSUME NEW p \in Procs, StopWorkers(p) PROVE UNCHANGED <<Active, Retiring, Failed>>
    BY <2>10 DEF StopWorkers
  <2>11. ASSUME NEW p \in Procs, Exit(p) \/ Crash(p) PROVE Owners!Next
    <3>1. Owners!Leave(p)
      BY <2>11 DEF Exit, Crash, Reset, Owners!Leave
    <3>2. QED
      BY <3>1 DEF Owners!Next
  <2>12. CASE UNCHANGED vars
    BY <2>12 DEF vars
  <2>13. QED
    BY <2>1, <2>3, <2>4, <2>5, <2>6, <2>7, <2>8, <2>9, <2>10, <2>11, <2>12 DEF Next, Process
<1>3. QED
  BY <1>1, <1>2, KeyInvariant, CauseInvariant, PTL DEF Spec, ImplementsSoleOwner, Owners!Spec,
    Owners!vars
=============================================================================
