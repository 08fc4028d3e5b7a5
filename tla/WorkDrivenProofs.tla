-------------------------- MODULE WorkDrivenProofs --------------------------
(***************************************************************************)
(* Proofs about WorkDriven: type correctness, when a dispatch of CVE work  *)
(* can be swallowed by the job id of its epoch, and what the retained jobs *)
(* of an IOC keep out.                                                     *)
(***************************************************************************)
EXTENDS WorkDriven, TLAPS

USE DEF Kinds

LEMMA LimitedSubset ==
  ASSUME NEW rows, NEW n, NEW s \in Limited(rows, n)
  PROVE  s \subseteq rows
BY DEF Limited

\* The counters, each with the actions that count.
LEMMA FaultType ==
  ASSUME faults \in 0..MaxFaults, UseFault \/ UNCHANGED faults
  PROVE  faults' \in 0..MaxFaults
BY WorkDrivenAssumption DEF UseFault

LEMMA QueueType ==
  ASSUME queued \in 0..MaxQueue, SweepCve \/ DispatchCve
  PROVE  queued' \in 0..MaxQueue
<1>1. CASE queued < MaxQueue /\ queued' = queued + 1
  BY <1>1, WorkDrivenAssumption
<1>2. CASE UNCHANGED queued
  BY <1>2
<1>3. SweepCve => (queued < MaxQueue /\ queued' = queued + 1) \/ UNCHANGED queued
  BY Zenon DEF SweepCve
<1>4. DispatchCve => (queued < MaxQueue /\ queued' = queued + 1) \/ UNCHANGED queued
  BY Zenon DEF DispatchCve
<1> QED BY <1>1, <1>2, <1>3, <1>4

\* What is retained after one more job: a sequence of IOCs that is not too long.
LEMMA RetainType ==
  ASSUME retained \in [Ends -> Seq(Iocs)], \A e \in Ends : Len(retained[e]) <= Keep(e),
         NEW i \in Iocs, NEW end \in Ends, Retain(i, end)
  PROVE  retained' \in [Ends -> Seq(Iocs)] /\ \A e \in Ends : Len(retained'[e]) <= Keep(e)
<1> DEFINE all == Append(retained[end], i)
           kept == IF Len(all) > Keep(end) THEN Tail(all) ELSE all
<1>0. Keep(end) \in Nat
  BY WorkDrivenAssumption DEF Keep
<1>1. all \in Seq(Iocs) /\ Len(all) = Len(retained[end]) + 1 /\ Len(retained[end]) \in Nat
  OBVIOUS
<1>2. Tail(all) \in Seq(Iocs) /\ Len(Tail(all)) = Len(retained[end])
  BY <1>1
<1>3. retained' = [retained EXCEPT ![end] = kept]
  BY DEF Retain
<1>4. kept \in Seq(Iocs) /\ Len(kept) <= Keep(end)
  <2>1. Len(retained[end]) <= Keep(end)
    OBVIOUS
  <2> HIDE DEF all
  <2> QED BY <1>0, <1>1, <1>2, <2>1
<1> HIDE DEF kept
<1> QED BY <1>3, <1>4

LEMMA ClockType ==
  ASSUME window \in [Kinds -> 0..Window], phase \in 0..(Window - 1),
         epochJob \in {"none", "added"}, straddled \in BOOLEAN, Tick
  PROVE  /\ window' \in [Kinds -> 0..Window] /\ phase' \in 0..(Window - 1)
         /\ epochJob' \in {"none", "added"} /\ straddled' \in BOOLEAN
<1> USE WorkDrivenAssumption
<1>1. \A k \in Kinds : Expire(k) \in 0..Window
  <2>1. \A n \in 0..Window : n # 0 => n - 1 \in 0..Window
    OBVIOUS
  <2> QED BY <2>1 DEF Expire
<1>2. window' \in [Kinds -> 0..Window]
  BY <1>1 DEF Tick
<1>3. CASE phase + 1 < Window
  <2>1. phase' = phase + 1 /\ UNCHANGED <<epochJob, straddled>>
    BY <1>3 DEF Tick, NextEpoch
  <2> QED BY <1>2, <1>3, <2>1
<1>4. CASE ~(phase + 1 < Window)
  <2>1. phase' = 0 /\ epochJob' = "none" /\ straddled' = (dispatching["cve-enrich"] > 0)
    BY <1>4 DEF Tick, NextEpoch
  <2>2. straddled' \in BOOLEAN
    BY <2>1
  <2> QED BY <1>2, <2>1, <2>2
<1> QED BY <1>3, <1>4

\* Every action keeps the variables in their types, for all values of the
\* bounds and of the window.
THEOREM TypeCorrect == Spec => []TypeOK
<1>1. Init => TypeOK
  <2> SUFFICES ASSUME Init PROVE TypeOK
    OBVIOUS
  <2>1. retained \in [Ends -> Seq(Iocs)] /\ \A end \in Ends : Len(retained[end]) <= Keep(end)
    <3>1. \A end \in Ends : Keep(end) \in Nat
      BY WorkDrivenAssumption DEF Keep
    <3> QED BY <3>1 DEF Init
  <2>2. faults \in 0..MaxFaults /\ drops \in 0..MaxDrops /\ toggles \in 0..MaxToggles
        /\ crashes \in 0..MaxCrashes /\ queued \in 0..MaxQueue /\ phase \in 0..(Window - 1)
    BY WorkDrivenAssumption DEF Init
  <2>3. inbox \in [Kinds -> 0..MaxInbox] /\ dispatching \in [Kinds -> 0..MaxDispatch]
        /\ window \in [Kinds -> 0..Window]
    BY WorkDrivenAssumption DEF Init
  <2> QED BY <2>1, <2>2, <2>3 DEF Init, TypeOK
<1>2. TypeOK /\ [Next]_vars => TypeOK'
  <2> SUFFICES ASSUME TypeOK, [Next]_vars PROVE TypeOK'
    OBVIOUS
  <2> USE WorkDrivenAssumption DEF TypeOK, UseFault, listener, clock, cves, iocVars, env
  <2>1. CASE Data
    <3>0. ASSUME NEW k \in Kinds, Notify(k) PROVE inbox' \in [Kinds -> 0..MaxInbox]
      <4>1. CASE conn = "listening"
        BY <3>0, <4>1 DEF Notify
      <4>2. CASE conn # "listening"
        BY <3>0, <4>2 DEF Notify
      <4> QED BY <4>1, <4>2
    <3>1. ASSUME NEW c \in Cves, UpsertCve(c) PROVE TypeOK'
      <4>1. inbox' \in [Kinds -> 0..MaxInbox]
        BY <3>0, <3>1 DEF UpsertCve
      <4>2. cve' \in [Cves -> {"absent", "unscored", "scored"}]
        BY <3>1 DEF UpsertCve
      <4> QED BY <3>1, <4>1, <4>2 DEF UpsertCve
    <3>2. ASSUME NEW i \in Iocs, InsertIoc(i) PROVE TypeOK'
      BY <3>0, <3>2 DEF InsertIoc
    <3>3. ASSUME NEW i \in Iocs, LeaveBacklog(i) PROVE TypeOK'
      BY <3>3 DEF LeaveBacklog
    <3>4. CASE OtherIoc
      BY <3>0, <3>4 DEF OtherIoc
    <3>5. CASE Toggle
      BY <3>5 DEF Toggle
    <3> QED BY <2>1, <3>1, <3>2, <3>3, <3>4, <3>5 DEF Data
  <2>2. CASE Listener
    <3>1. ASSUME NEW k \in Kinds, HandleNotification(k) PROVE TypeOK'
      <4>1. inbox' \in [Kinds -> 0..MaxInbox]
        BY <3>1 DEF HandleNotification
      <4>2. /\ window' \in [Kinds -> 0..Window]
            /\ dispatching' \in [Kinds -> 0..MaxDispatch]
            /\ faults' \in 0..MaxFaults
        <5>1. CASE UNCHANGED <<window, dispatching>>
          <6>1. UseFault \/ UNCHANGED faults
            BY <3>1, <5>1 DEF HandleNotification
          <6>2. faults' \in 0..MaxFaults
            BY <6>1, FaultType
          <6> QED BY <5>1, <6>2
        <5>2. CASE /\ dispatching[k] < MaxDispatch /\ DedupSet(k) /\ UNCHANGED faults
                   /\ dispatching' = [dispatching EXCEPT ![k] = @ + 1]
          BY <5>2 DEF DedupSet
        <5> QED BY <3>1, <5>1, <5>2 DEF HandleNotification
      <4>3. UNCHANGED <<conn, sweeps, clock, cves, iocVars, drops, toggles, crashes>>
        BY <3>1 DEF HandleNotification
      <4> QED BY <4>1, <4>2, <4>3
    <3>2. ASSUME NEW k \in Kinds, AdminSweep(k) PROVE TypeOK'
      BY <3>2 DEF AdminSweep
    <3>9. ASSUME NEW k \in Kinds, Dispatched(k)
          PROVE  dispatching' \in [Kinds -> 0..MaxDispatch]
      BY <3>9 DEF Dispatched
    <3>3. CASE DispatchCve
      <4>1. dispatching' \in [Kinds -> 0..MaxDispatch]
        BY <3>3, <3>9 DEF DispatchCve
      <4>4. queued' \in 0..MaxQueue /\ (UseFault \/ UNCHANGED faults)
        BY <3>3, QueueType DEF DispatchCve
      <4>5. epochJob' \in {"none", "added"}
        BY <3>3 DEF DispatchCve
      <4>2. /\ queued' \in 0..MaxQueue /\ epochJob' \in {"none", "added"}
            /\ faults' \in 0..MaxFaults
        BY <4>4, <4>5, FaultType
      <4>3. UNCHANGED <<conn, inbox, window, sweeps, phase, straddled, cve, worker, batch,
                        ioc, iocJob, retained, verdict, enabled, drops, toggles, crashes>>
        BY <3>3 DEF DispatchCve
      <4> QED BY <4>1, <4>2, <4>3
    <3>4. SweepIocs => /\ iocJob' \in [Iocs -> {"none", "waiting", "active"}]
                       /\ faults' \in 0..MaxFaults
      <4>1. SweepIocs => faults' = faults \/ (faults < MaxFaults /\ faults' = faults + 1)
        <5>1. ASSUME NEW rows \in Limited(Backlog, SweepLimit),
                     NEW added \in {rows} \union (IF faults < MaxFaults
                                                    THEN {rows \ {i} : i \in rows} ELSE {}),
                     added # rows
              PROVE  faults < MaxFaults
          BY <5>1
        <5> QED BY <5>1, Zenon DEF SweepIocs
      <4>2. SweepIocs => iocJob' \in [Iocs -> {"none", "waiting", "active"}]
        BY DEF SweepIocs
      <4> QED BY <4>1, <4>2
    <3>5. CASE DispatchIoc
      <4>1. dispatching' \in [Kinds -> 0..MaxDispatch]
        BY <3>5, <3>9 DEF DispatchIoc
      <4>4. SweepIocs \/ (UseFault /\ UNCHANGED iocJob)
        BY <3>5, Zenon DEF DispatchIoc
      <4>5. UseFault => faults' \in 0..MaxFaults
        BY FaultType
      <4>2. iocJob' \in [Iocs -> {"none", "waiting", "active"}] /\ faults' \in 0..MaxFaults
        BY <3>4, <4>4, <4>5
      <4>3. UNCHANGED <<conn, inbox, window, sweeps, phase, epochJob, straddled, cve, queued, worker, batch,
                        ioc, retained, verdict, enabled, drops, toggles, crashes>>
        BY <3>5 DEF DispatchIoc
      <4> QED BY <4>1, <4>2, <4>3
    <3>6. CASE SweepCve
      <4>4. queued' \in 0..MaxQueue /\ (UseFault \/ UNCHANGED faults)
        BY <3>6, QueueType DEF SweepCve
      <4>1. queued' \in 0..MaxQueue /\ faults' \in 0..MaxFaults
        BY <4>4, FaultType
      <4>3. sweeps' \subseteq Kinds
        BY <3>6 DEF SweepCve
      <4>2. UNCHANGED <<conn, inbox, window, dispatching, phase, epochJob, straddled, cve, worker, batch,
                        ioc, iocJob, retained, verdict, enabled, drops, toggles, crashes>>
        BY <3>6 DEF SweepCve
      <4> QED BY <4>1, <4>2, <4>3
    <3>7. CASE SweepIoc
      <4>1. sweeps' \subseteq Kinds
        BY <3>7 DEF SweepIoc
      <4>2. SweepIocs \/ (UseFault /\ UNCHANGED iocJob)
        BY <3>7, Zenon DEF SweepIoc
      <4>3. UseFault => faults' \in 0..MaxFaults
        BY FaultType
      <4>4. iocJob' \in [Iocs -> {"none", "waiting", "active"}] /\ faults' \in 0..MaxFaults
        BY <3>4, <4>2, <4>3
      <4>5. UNCHANGED <<conn, inbox, window, dispatching, phase, epochJob, straddled, cve, queued, worker,
                        batch, ioc, retained, verdict, enabled, drops, toggles, crashes>>
        BY <3>7 DEF SweepIoc
      <4> QED BY <4>1, <4>4, <4>5
    <3> QED BY <2>2, <3>1, <3>2, <3>3, <3>5, <3>6, <3>7 DEF Listener
  <2>3. CASE Workers
    <3>1. CASE StartCveJob
      <4>1. batch' \subseteq Cves
        BY <3>1, LimitedSubset DEF StartCveJob, Candidates, Unscored
      <4> QED BY <3>1, <4>1 DEF StartCveJob
    <3>2. CASE FinishCveJob
      BY <3>2 DEF FinishCveJob
    <3>3. ASSUME NEW c \in Cves, EnrichCve(c) PROVE TypeOK'
      <4>1. cve' \in [Cves -> {"absent", "unscored", "scored"}] /\ batch' \subseteq Cves
        BY <3>3 DEF EnrichCve
      <4>2. UseFault \/ UNCHANGED faults
        BY <3>3, Zenon DEF EnrichCve
      <4>3. faults' \in 0..MaxFaults
        BY <4>2, FaultType
      <4>4. UNCHANGED <<conn, inbox, window, dispatching, sweeps, phase, epochJob, straddled,
                        queued, worker, ioc, iocJob, retained, verdict, enabled, drops, toggles, crashes>>
        BY <3>3 DEF EnrichCve
      <4> QED BY <4>1, <4>3, <4>4
    <3>4. CASE FailCveJob
      <4>1. queued' \in 0..MaxQueue
        <5>1. (queued < MaxQueue /\ queued' = queued + 1) \/ UNCHANGED queued
          BY <3>4, Zenon DEF FailCveJob
        <5> QED BY <5>1
      <4>2. faults' \in 0..MaxFaults
        BY <3>4, FaultType DEF FailCveJob
      <4>3. worker' = "idle" /\ batch' = {}
        BY <3>4 DEF FailCveJob
      <4>4. UNCHANGED <<conn, inbox, window, dispatching, sweeps, phase, epochJob, straddled,
                        cve, ioc, iocJob, retained, verdict, enabled, drops, toggles, crashes>>
        BY <3>4 DEF FailCveJob
      <4> QED BY <4>1, <4>2, <4>3, <4>4
    <3>5. ASSUME NEW i \in Iocs, StartIocJob(i) PROVE TypeOK'
      <4>1. faults' \in 0..MaxFaults
        <5>1. UseFault \/ UNCHANGED faults
          BY <3>5 DEF StartIocJob
        <5> QED BY <5>1, FaultType
      <4>2. iocJob' \in [Iocs -> {"none", "waiting", "active"}]
        BY <3>5 DEF StartIocJob
      <4>3. UNCHANGED <<conn, inbox, window, dispatching, sweeps, phase, epochJob, straddled,
                        cve, queued, worker, batch, ioc, retained, verdict, enabled, drops,
                        toggles, crashes>>
        BY <3>5 DEF StartIocJob
      <4> QED BY <4>1, <4>2, <4>3
    <3>6. ASSUME NEW i \in Iocs, SkipIocJob(i) PROVE TypeOK'
      <4>1. retained' \in [Ends -> Seq(Iocs)] /\ \A e \in Ends : Len(retained'[e]) <= Keep(e)
        BY <3>6, RetainType DEF SkipIocJob, Ends
      <4>2. iocJob' \in [Iocs -> {"none", "waiting", "active"}]
        BY <3>6 DEF SkipIocJob
      <4>3. UNCHANGED <<conn, inbox, window, dispatching, sweeps, phase, epochJob, straddled,
                        cve, queued, worker, batch, ioc, verdict, enabled, faults, drops,
                        toggles, crashes>>
        BY <3>6 DEF SkipIocJob
      <4> QED BY <4>1, <4>2, <4>3
    <3>7. ASSUME NEW i \in Iocs, FinishIocJob(i) PROVE TypeOK'
      <4>1. retained' \in [Ends -> Seq(Iocs)] /\ \A e \in Ends : Len(retained'[e]) <= Keep(e)
        BY <3>7, RetainType DEF FinishIocJob, Ends
      <4>2. /\ iocJob' \in [Iocs -> {"none", "waiting", "active"}]
            /\ verdict' \in [Iocs -> BOOLEAN]
        BY <3>7 DEF FinishIocJob
      <4>3. faults' \in 0..MaxFaults
        <5>1. UseFault \/ UNCHANGED faults
          BY <3>7 DEF FinishIocJob
        <5> QED BY <5>1, FaultType
      <4>4. UNCHANGED <<conn, inbox, window, dispatching, sweeps, phase, epochJob, straddled,
                        cve, queued, worker, batch, ioc, enabled, drops, toggles, crashes>>
        BY <3>7 DEF FinishIocJob
      <4> QED BY <4>1, <4>2, <4>3, <4>4
    <3>8. ASSUME NEW i \in Iocs, FailIocJob(i) PROVE TypeOK'
      <4>1. retained' \in [Ends -> Seq(Iocs)] /\ \A e \in Ends : Len(retained'[e]) <= Keep(e)
        <5>1. Retain(i, "failed") \/ UNCHANGED retained
          BY <3>8 DEF FailIocJob
        <5> QED BY <5>1, RetainType DEF Ends
      <4>2. iocJob' \in [Iocs -> {"none", "waiting", "active"}]
        BY <3>8 DEF FailIocJob
      <4>3. faults' \in 0..MaxFaults
        BY <3>8, FaultType DEF FailIocJob
      <4>4. UNCHANGED <<conn, inbox, window, dispatching, sweeps, phase, epochJob, straddled,
                        cve, queued, worker, batch, ioc, verdict, enabled, drops, toggles,
                        crashes>>
        BY <3>8 DEF FailIocJob
      <4> QED BY <4>1, <4>2, <4>3, <4>4
    <3> QED BY <2>3, <3>1, <3>2, <3>3, <3>4, <3>5, <3>6, <3>7, <3>8 DEF Workers
  <2>4. CASE Boot
    <3>1. conn' \in {"down", "deaf", "givenUp", "listening"} /\ sweeps' \subseteq Kinds
      BY <2>4 DEF Boot, BootSweeps
    <3>2. faults' \in 0..MaxFaults
      <4>1. UseFault \/ UNCHANGED faults
        BY <2>4, Zenon DEF Boot
      <4> QED BY <4>1, FaultType
    <3>3. UNCHANGED <<inbox, window, dispatching, phase, epochJob, straddled, cve, queued, worker, batch,
                      ioc, iocJob, retained, verdict, enabled, drops, toggles, crashes>>
      BY <2>4 DEF Boot
    <3> QED BY <3>1, <3>2, <3>3
  <2>5. CASE Disconnect
    BY <2>5 DEF Disconnect
  <2>6. CASE Reconnect
    <3>1. conn' \in {"down", "deaf", "givenUp", "listening"}
      BY <2>6 DEF Reconnect
    <3>2. faults' \in 0..MaxFaults
      <4>1. UseFault \/ UNCHANGED faults
        BY <2>6 DEF Reconnect
      <4> QED BY <4>1, FaultType
    <3>3. UNCHANGED <<inbox, window, dispatching, sweeps, phase, epochJob, straddled, cve, queued,
                      worker, batch, ioc, iocJob, retained, verdict, enabled, drops, toggles,
                      crashes>>
      BY <2>6 DEF Reconnect
    <3> QED BY <3>1, <3>2, <3>3
  <2>7. CASE Crash
    BY <2>7 DEF Crash
  <2>8. CASE Tick
    <3>1. /\ window' \in [Kinds -> 0..Window] /\ phase' \in 0..(Window - 1)
          /\ epochJob' \in {"none", "added"} /\ straddled' \in BOOLEAN
      BY <2>8, ClockType
    <3>2. UNCHANGED <<conn, inbox, dispatching, sweeps, cve, queued, worker, batch, ioc,
                      iocJob, retained, verdict, enabled, faults, drops, toggles, crashes>>
      BY <2>8 DEF Tick
    <3> QED BY <3>1, <3>2
  <2>9. CASE UNCHANGED vars
    BY <2>9 DEF vars
  <2> QED BY <2>1, <2>2, <2>3, <2>4, <2>5, <2>6, <2>7, <2>8, <2>9 DEF Next
<1> QED BY <1>1, <1>2, PTL DEF Spec

-----------------------------------------------------------------------------
(***************************************************************************)
(* The dedup key and the epoch have the same length.  In an epoch that     *)
(* began with no handler past the dedup, a key is set no earlier than the  *)
(* epoch began and so lives at least as long, which keeps a second         *)
(* dispatch out until the job id has changed.                              *)
(***************************************************************************)
KeyOutlivesEpoch ==
  ~straddled /\ (epochJob = "added" \/ dispatching["cve-enrich"] > 0)
    => window["cve-enrich"] >= Window - phase

OneDispatch == ~straddled => dispatching["cve-enrich"] <= 1

DedupInv == KeyOutlivesEpoch /\ OneDispatch /\ SwallowedHasCause

\* A dispatch of CVE work that passed the dedup is ignored by BullMQ only in an epoch
\* that began while a handler was between its SET and its add, for any window and any
\* number of handlers at once.
THEOREM SwallowedHasCauseHolds == Spec => []SwallowedHasCause
<1> USE WorkDrivenAssumption DEF DedupInv, KeyOutlivesEpoch, OneDispatch, SwallowedHasCause
<1>1. Init => DedupInv
  BY DEF Init
<1>2. TypeOK /\ DedupInv /\ [Next]_vars => DedupInv'
  <2> SUFFICES ASSUME TypeOK, DedupInv, [Next]_vars PROVE DedupInv'
    OBVIOUS
  <2>0. /\ window \in [Kinds -> 0..Window] /\ dispatching \in [Kinds -> 0..MaxDispatch]
        /\ phase \in 0..(Window - 1) /\ epochJob \in {"none", "added"}
    BY DEF TypeOK
  <2>1. ASSUME UNCHANGED <<window, dispatching, phase, epochJob, straddled>> PROVE DedupInv'
    BY <2>1
  <2>2. CASE Data
    BY <2>1, <2>2 DEF Data, UpsertCve, InsertIoc, LeaveBacklog, OtherIoc, Toggle,
                      clock, listener
  <2>3. CASE Listener
    <3>1. ASSUME NEW k \in Kinds, HandleNotification(k) PROVE DedupInv'
      <4>1. UNCHANGED <<phase, epochJob, straddled>>
        BY <3>1 DEF HandleNotification, clock
      <4>9. CASE straddled
        BY <4>1, <4>9
      <4>2. CASE UNCHANGED <<window, dispatching>>
        BY <2>1, <4>1, <4>2
      <4>3. CASE /\ ~straddled /\ window[k] = 0 /\ DedupSet(k)
                 /\ dispatching' = [dispatching EXCEPT ![k] = @ + 1]
        <5>1. CASE k = "cve-enrich"
          <6>1. dispatching["cve-enrich"] = 0 /\ epochJob = "none"
            <7>1. window["cve-enrich"] = 0 /\ Window - phase > 0
              BY <2>0, <4>3, <5>1
            <7>2. ~(epochJob = "added" \/ dispatching["cve-enrich"] > 0)
              BY <2>0, <4>3, <7>1
            <7> QED BY <2>0, <7>2
          <6>2. window'["cve-enrich"] = Window /\ dispatching'["cve-enrich"] = 1
            BY <2>0, <4>3, <5>1, <6>1 DEF DedupSet
          <6> QED BY <2>0, <4>1, <6>1, <6>2
        <5>2. CASE k # "cve-enrich"
          <6>1. /\ window'["cve-enrich"] = window["cve-enrich"]
                /\ dispatching'["cve-enrich"] = dispatching["cve-enrich"]
            BY <2>0, <4>3, <5>2 DEF DedupSet
          <6> QED BY <4>1, <6>1
        <5> QED BY <5>1, <5>2
      <4> QED BY <3>1, <4>2, <4>3, <4>9 DEF HandleNotification
    <3>2. ASSUME NEW k \in Kinds, AdminSweep(k) PROVE DedupInv'
      BY <2>1, <3>2 DEF AdminSweep, clock
    <3>3. CASE DispatchCve
      <4>1. UNCHANGED <<window, phase, straddled>>
        BY <3>3 DEF DispatchCve
      <4>0. "cve-enrich" \in Kinds
        OBVIOUS
      <4>2. CASE straddled
        BY <4>1, <4>2
      <4>3. CASE ~straddled
        <5>1. dispatching["cve-enrich"] \in 0..MaxDispatch /\ dispatching["cve-enrich"] > 0
          BY <2>0, <3>3, <4>0 DEF DispatchCve, Dispatched
        <5>2. dispatching'["cve-enrich"] = dispatching["cve-enrich"] - 1
          BY <2>0, <3>3, <4>0 DEF DispatchCve, Dispatched
        <5>3. dispatching["cve-enrich"] = 1 /\ dispatching'["cve-enrich"] = 0
          BY <4>3, <5>1, <5>2
        <5>4. window["cve-enrich"] >= Window - phase
          BY <4>3, <5>3
        <5> QED BY <4>1, <4>3, <5>3, <5>4
      <4> QED BY <4>2, <4>3
    <3>4. CASE DispatchIoc
      <4>1. UNCHANGED <<window, phase, epochJob, straddled>>
        BY <3>4 DEF DispatchIoc, clock
      <4>2. dispatching'["cve-enrich"] = dispatching["cve-enrich"]
        BY <2>0, <3>4 DEF DispatchIoc, Dispatched
      <4> QED BY <4>1, <4>2
    <3>5. CASE SweepCve
      BY <2>1, <3>5 DEF SweepCve, clock
    <3>6. CASE SweepIoc
      BY <2>1, <3>6 DEF SweepIoc, clock
    <3> QED BY <2>3, <3>1, <3>2, <3>3, <3>4, <3>5, <3>6 DEF Listener
  <2>4. CASE Workers
    BY <2>1, <2>4 DEF Workers, StartCveJob, FinishCveJob, FailCveJob, EnrichCve, StartIocJob,
                      SkipIocJob, FinishIocJob, FailIocJob, clock, listener
  <2>5. CASE Boot \/ Disconnect \/ Reconnect
    BY <2>1, <2>5 DEF Boot, Disconnect, Reconnect, clock
  <2>6. CASE Crash
    <3>1. UNCHANGED <<window, phase, epochJob, straddled>> /\ dispatching'["cve-enrich"] = 0
      BY <2>6 DEF Crash, clock
    <3> QED BY <3>1
  <2>7. CASE Tick
    <3>1. UNCHANGED dispatching /\ dispatching["cve-enrich"] \in Nat
      BY <2>0, <2>7, WorkDrivenAssumption DEF Tick
    <3>2. window'["cve-enrich"] =
            IF window["cve-enrich"] = 0 THEN 0 ELSE window["cve-enrich"] - 1
      BY <2>7 DEF Tick, Expire
    <3>3. CASE phase + 1 < Window
      <4>1. phase' = phase + 1 /\ UNCHANGED <<epochJob, straddled>>
        BY <2>7, <3>3 DEF Tick, NextEpoch
      <4> QED BY <2>0, <3>1, <3>2, <3>3, <4>1
    <3>4. CASE ~(phase + 1 < Window)
      <4>1. epochJob' = "none" /\ straddled' = (dispatching["cve-enrich"] > 0)
        BY <2>7, <3>4 DEF Tick, NextEpoch
      <4>2. CASE dispatching["cve-enrich"] > 0
        <5>1. straddled'
          BY <4>1, <4>2
        <5> QED BY <4>1, <5>1
      <4>3. CASE dispatching["cve-enrich"] = 0
        <5>1. dispatching'["cve-enrich"] = 0
          BY <3>1, <4>3
        <5> QED BY <4>1, <5>1
      <4> QED BY <3>1, <4>2, <4>3
    <3> QED BY <3>3, <3>4
  <2>8. CASE UNCHANGED vars
    BY <2>1, <2>8 DEF vars
  <2> QED BY <2>2, <2>3, <2>4, <2>5, <2>6, <2>7, <2>8 DEF Next
<1>3. DedupInv => SwallowedHasCause
  OBVIOUS
<1> QED BY TypeCorrect, <1>1, <1>2, <1>3, PTL DEF Spec

-----------------------------------------------------------------------------
(***************************************************************************)
(* The ids of IOC jobs.                                                    *)
(***************************************************************************)

\* The queue knows an id once: an IOC has a live job, or one finished job that is
\* retained, or none.
IdOnce ==
  /\ \A i \in Iocs : iocJob[i] # "none" => ~Retained(i)
  /\ \A a, b \in Ends : \A m \in 1..Len(retained[a]), n \in 1..Len(retained[b]) :
       retained[a][m] = retained[b][n] => a = b /\ m = n

\* What a step leaves of the finished jobs that are retained: no job is added for one of
\* them, and each stays unless it is the oldest of as many as are kept.
RetainedStay ==
  \A i \in Iocs, end \in Ends : i \in Range(retained[end]) =>
    /\ iocJob[i] = "none" /\ iocJob'[i] = "none"
    /\ \/ i \in Range(retained'[end])
       \/ retained[end][1] = i /\ Len(retained[end]) = Keep(end)

\* An IOC whose finished job is retained gets no other one, however many notifications,
\* boots and administrators sweep; it is let go when Keep(end) later ones have ended as
\* it did: the failed ones are counted apart from the completed ones.
Cooldown == [][RetainedStay]_vars

\* The jobs of a sweep are new ones.
LEMMA SweepAdds ==
  ASSUME TypeOK, SweepIocs
  PROVE  \A i \in Iocs :
           iocJob'[i] = iocJob[i] \/ (iocJob[i] = "none" /\ ~Retained(i))
<1>1. PICK added :
        iocJob' = [i \in Iocs |-> IF i \in added /\ AddJob(i) THEN "waiting" ELSE iocJob[i]]
  BY DEF SweepIocs
<1> QED BY <1>1 DEF AddJob

\* What Retain makes of one of the sequences.
Joined(s, i, K) ==
  LET all == Append(s, i) IN IF Len(all) > K THEN Tail(all) ELSE all

\* What becomes of a sequence when i joins it: i is the latest, and the oldest is let go
\* if there are too many.
LEMMA AppendBounded ==
  ASSUME NEW s \in Seq(Iocs), NEW K \in Nat, Len(s) <= K, NEW i \in Iocs, i \notin Range(s),
         \A m, n \in 1..Len(s) : s[m] = s[n] => m = n
  PROVE  LET t == Joined(s, i, K)
         IN  /\ Range(t) \subseteq Range(s) \union {i}
             /\ \A m, n \in 1..Len(t) : t[m] = t[n] => m = n
             /\ \A k \in Range(s) : k \in Range(t) \/ (s[1] = k /\ Len(s) = K)
<1> DEFINE all == Append(s, i)
           len == Len(s)
           t == Joined(s, i, K)
<1> HIDE DEF t
<1>0. /\ len \in Nat /\ \A n \in 1..len : s[n] \in Range(s) /\ s[n] # i
  <2>1. \A n \in 1..len : s[n] \in Range(s)
    BY DEF Range
  <2> QED BY <2>1
<1>1. /\ all \in Seq(Iocs) /\ Len(all) = len + 1 /\ all[len + 1] = i
      /\ \A n \in 1..len : all[n] = s[n]
  BY <1>0
<1>3. \A m, n \in 1..(len + 1) : all[m] = all[n] => m = n
  <2> HIDE DEF all
  <2> SUFFICES ASSUME NEW m \in 1..(len + 1), NEW n \in 1..(len + 1), all[m] = all[n]
               PROVE  m = n
    OBVIOUS
  <2>1. CASE m \in 1..len /\ n \in 1..len
    BY <1>1, <2>1
  <2>2. CASE m = len + 1 /\ n \in 1..len
    BY <1>0, <1>1, <2>2
  <2>3. CASE n = len + 1 /\ m \in 1..len
    BY <1>0, <1>1, <2>3
  <2> QED BY <1>0, <2>1, <2>2, <2>3
<1>4. \A k \in Range(s) : \E n \in 1..len : s[n] = k
  BY <1>0 DEF Range
<1>5. CASE len + 1 > K
  <2>1. t = Tail(all) /\ len = K
    BY <1>0, <1>1, <1>5 DEF Joined, t
  <2> HIDE DEF all, len
  <2>2. Tail(all) \in Seq(Iocs) /\ Len(Tail(all)) = len
        /\ \A n \in 1..len : Tail(all)[n] = all[n + 1]
    BY <1>0, <1>1
  <2>3. Len(t) = len /\ DOMAIN t = 1..len
        /\ \A n \in 1..len : t[n] = all[n + 1] /\ n + 1 \in 1..(len + 1)
    <3>1. \A n \in 1..len : n + 1 \in 1..(len + 1)
      BY <1>0
    <3>2. Len(t) = len /\ DOMAIN t = 1..len
      BY <2>1, <2>2
    <3>3. \A n \in 1..len : t[n] = all[n + 1]
      BY <2>1, <2>2
    <3> QED BY <3>1, <3>2, <3>3
  <2>4. \A m, n \in 1..Len(t) : t[m] = t[n] => m = n
    <3> SUFFICES ASSUME NEW m \in 1..len, NEW n \in 1..len, t[m] = t[n] PROVE m = n
      BY <2>3
    <3>1. all[m + 1] = all[n + 1] /\ m + 1 \in 1..(len + 1) /\ n + 1 \in 1..(len + 1)
      BY <2>3
    <3>2. m + 1 = n + 1
      BY <1>3, <3>1
    <3> QED BY <1>0, <3>2
  <2>5. Range(t) \subseteq Range(s) \union {i}
    <3> SUFFICES ASSUME NEW n \in 1..len PROVE t[n] \in Range(s) \union {i}
      BY <2>3 DEF Range
    <3>1. n + 1 \in 1..len \/ n + 1 = len + 1
      BY <1>0
    <3> QED BY <1>0, <1>1, <2>3, <3>1
  <2>6. ASSUME NEW k \in Range(s) PROVE k \in Range(t) \/ (s[1] = k /\ len = K)
    <3>1. PICK n \in 1..len : s[n] = k
      BY <1>4
    <3>2. CASE n = 1
      BY <2>1, <3>1, <3>2
    <3>3. CASE n # 1
      <4>1. n - 1 \in 1..len /\ n - 1 + 1 = n
        BY <1>0, <3>3
      <4>2. t[n - 1] = k
        BY <1>1, <2>3, <3>1, <4>1
      <4> QED BY <2>3, <4>1, <4>2 DEF Range
    <3> QED BY <3>2, <3>3
  <2> QED BY <2>4, <2>5, <2>6 DEF len, t
<1>6. CASE ~(len + 1 > K)
  <2>1. t = all
    BY <1>0, <1>1, <1>6 DEF Joined, t
  <2> HIDE DEF all, len
  <2>2. Len(t) = len + 1 /\ DOMAIN t = 1..(len + 1)
    BY <1>0, <1>1, <2>1
  <2>3. \A n \in 1..(len + 1) : n \in 1..len \/ n = len + 1
    BY <1>0
  <2>4. Range(t) \subseteq Range(s) \union {i}
    BY <1>0, <1>1, <2>1, <2>2, <2>3 DEF Range
  <2>5. \A k \in Range(s) : k \in Range(t)
    <3> SUFFICES ASSUME NEW k \in Range(s) PROVE k \in Range(t)
      OBVIOUS
    <3>1. PICK n \in 1..len : s[n] = k
      BY <1>4
    <3>2. n \in 1..(len + 1)
      BY <1>0
    <3>3. t[n] = k
      BY <1>1, <2>1, <3>1
    <3> QED BY <2>2, <3>2, <3>3 DEF Range
  <2> QED BY <1>3, <2>1, <2>2, <2>4, <2>5 DEF t
<1> QED BY <1>5, <1>6 DEF t

\* A job that ends joins those that ended as it did, and disturbs no others.
LEMMA RetainOne ==
  ASSUME TypeOK, IdOnce, NEW i \in Iocs, NEW end \in Ends, ~Retained(i), Retain(i, end),
         iocJob' = [iocJob EXCEPT ![i] = "none"]
  PROVE  IdOnce' /\ RetainedStay
<1> DEFINE s == retained[end]
           t == retained'[end]
<1>0. /\ s \in Seq(Iocs) /\ Keep(end) \in Nat /\ Len(s) <= Keep(end)
      /\ iocJob \in [Iocs -> {"none", "waiting", "active"}]
  BY WorkDrivenAssumption DEF TypeOK, Keep
<1>1. i \notin Range(s)
  BY DEF Retained
<1>2. \A m, n \in 1..Len(s) : s[m] = s[n] => m = n
  BY DEF IdOnce
<1>3. t = Joined(s, i, Keep(end))
  BY DEF Retain, TypeOK, Joined
<1>4. \A e \in Ends : e # end => retained'[e] = retained[e]
  BY DEF Retain, TypeOK
<1> HIDE DEF s, t
<1>5. /\ Range(t) \subseteq Range(s) \union {i}
      /\ \A m, n \in 1..Len(t) : t[m] = t[n] => m = n
      /\ \A k \in Range(s) : k \in Range(t) \/ (s[1] = k /\ Len(s) = Keep(end))
  <2> HIDE DEF Joined
  <2>1. Range(Joined(s, i, Keep(end))) \subseteq Range(s) \union {i}
    BY <1>0, <1>1, <1>2, AppendBounded
  <2>2. \A m, n \in 1..Len(Joined(s, i, Keep(end))) :
          Joined(s, i, Keep(end))[m] = Joined(s, i, Keep(end))[n] => m = n
    BY <1>0, <1>1, <1>2, AppendBounded
  <2>3. \A k \in Range(s) :
          k \in Range(Joined(s, i, Keep(end))) \/ (s[1] = k /\ Len(s) = Keep(end))
    BY <1>0, <1>1, <1>2, AppendBounded
  <2> QED BY <1>3, <2>1, <2>2, <2>3
<1>6. t \in Seq(Iocs)
  <2>1. Append(s, i) \in Seq(Iocs) /\ Len(Append(s, i)) = Len(s) + 1 /\ Len(s) \in Nat
    BY <1>0
  <2>2. Tail(Append(s, i)) \in Seq(Iocs)
    BY <2>1
  <2> QED BY <1>3, <2>1, <2>2 DEF Joined
<1>7. iocJob'[i] = "none" /\ \A k \in Iocs : k # i => iocJob'[k] = iocJob[k]
  BY <1>0
\* An element of a sequence of retained jobs is in its range.
<1>8. /\ \A e \in Ends : \A m \in 1..Len(retained[e]) : retained[e][m] \in Range(retained[e])
      /\ \A m \in 1..Len(t) : t[m] \in Range(t)
  <2>1. \A e \in Ends : retained[e] \in Seq(Iocs)
    BY DEF TypeOK
  <2>2. \A u \in Seq(Iocs) : \A m \in 1..Len(u) : u[m] \in Range(u)
    BY DEF Range
  <2> QED BY <1>6, <2>1, <2>2
<1>9. \A k \in Iocs : iocJob'[k] # "none" => ~Retained(k)'
  <2> SUFFICES ASSUME NEW k \in Iocs, iocJob'[k] # "none", NEW e \in Ends, k \in Range(retained'[e])
               PROVE  FALSE
    BY DEF Retained
  <2>1. k # i /\ iocJob[k] # "none"
    BY <1>7
  <2>2. k \notin Range(retained[e]) /\ k \notin Range(s)
    BY <2>1 DEF IdOnce, Retained, s
  <2>3. CASE e = end
    BY <1>5, <2>1, <2>2, <2>3 DEF t
  <2>4. CASE e # end
    BY <1>4, <2>2, <2>4
  <2> QED BY <2>3, <2>4
<1>10. ASSUME NEW e \in Ends, e # end, NEW m \in 1..Len(retained[e]), NEW n \in 1..Len(t),
              retained[e][m] = t[n]
       PROVE  FALSE
  <2>1. retained[e][m] # i
    BY <1>8 DEF Retained
  <2>2. retained[e][m] \in Range(s)
    BY <1>5, <1>8, <1>10, <2>1
  <2>3. PICK k \in 1..Len(s) : s[k] = retained[e][m]
    BY <1>0, <2>2 DEF Range
  <2> QED BY <1>10, <2>3 DEF IdOnce, s
<1>11. ASSUME NEW a \in Ends, NEW b \in Ends,
              NEW m \in 1..Len(retained'[a]), NEW n \in 1..Len(retained'[b]),
              retained'[a][m] = retained'[b][n]
       PROVE  a = b /\ m = n
  <2>1. CASE a = end /\ b = end
    BY <1>5, <1>11, <2>1 DEF t
  <2>2. CASE a # end /\ b # end
    BY <1>4, <1>11, <2>2 DEF IdOnce
  <2>3. CASE a # end /\ b = end
    BY <1>4, <1>10, <1>11, <2>3 DEF t
  <2>4. CASE a = end /\ b # end
    BY <1>4, <1>10, <1>11, <2>4 DEF t
  <2> QED BY <2>1, <2>2, <2>3, <2>4
<1>12. IdOnce'
  BY <1>9, <1>11 DEF IdOnce
<1>13. ASSUME NEW k \in Iocs, NEW e \in Ends, k \in Range(retained[e])
       PROVE  /\ iocJob[k] = "none" /\ iocJob'[k] = "none"
              /\ \/ k \in Range(retained'[e])
                 \/ retained[e][1] = k /\ Len(retained[e]) = Keep(e)
  <2>1. iocJob[k] = "none" /\ iocJob'[k] = "none"
    BY <1>7, <1>13 DEF IdOnce, Retained
  <2>2. CASE e = end
    BY <1>5, <1>13, <2>1, <2>2 DEF s, t
  <2>3. CASE e # end
    BY <1>4, <1>13, <2>1, <2>3
  <2> QED BY <2>2, <2>3
<1> QED BY <1>12, <1>13 DEF RetainedStay

\* Only the end of a job adds to what is retained, and no job is added for what is.
LEMMA JobStep ==
  ASSUME TypeOK, IdOnce, [Next]_vars
  PROVE  IdOnce' /\ RetainedStay
<1> USE DEF listener, clock, cves, iocVars, env
<1> DEFINE Goal == IdOnce' /\ RetainedStay
<1>0. \A i \in Iocs : iocJob[i] # "none" => ~Retained(i)
  BY DEF IdOnce
<1>1. ASSUME UNCHANGED retained,
             \A i \in Iocs : iocJob'[i] = iocJob[i] \/ ~Retained(i)
      PROVE  Goal
  BY <1>0, <1>1 DEF IdOnce, RetainedStay, Retained
<1>2. iocJob \in [Iocs -> {"none", "waiting", "active"}]
  BY DEF TypeOK
<1>3. ASSUME DispatchIoc \/ SweepIoc PROVE Goal
  <2>1. UNCHANGED retained /\ (SweepIocs \/ UNCHANGED iocJob)
    BY <1>3 DEF DispatchIoc, SweepIoc
  <2> QED BY <1>1, <2>1, SweepAdds
<1>4. ASSUME NEW i \in Iocs, StartIocJob(i) PROVE Goal
  BY <1>0, <1>1, <1>2, <1>4 DEF StartIocJob
<1>5. ASSUME Crash PROVE Goal
  BY <1>0, <1>1, <1>5 DEF Crash
<1>6. ASSUME NEW i \in Iocs, NEW end \in Ends, iocJob[i] # "none", Retain(i, end),
             iocJob' = [iocJob EXCEPT ![i] = "none"]
      PROVE  Goal
  BY <1>0, <1>6, RetainOne
<1>7. ASSUME UNCHANGED <<iocJob, retained>> PROVE Goal
  BY <1>1, <1>7
<1>8. ASSUME NEW i \in Iocs, SkipIocJob(i) \/ FinishIocJob(i) PROVE Goal
  BY <1>6, <1>8 DEF SkipIocJob, FinishIocJob, Ends
<1>9. ASSUME NEW i \in Iocs, FailIocJob(i) PROVE Goal
  <2>1. CASE UNCHANGED retained
    BY <1>0, <1>1, <1>2, <1>9, <2>1 DEF FailIocJob
  <2>2. CASE Retain(i, "failed") /\ iocJob' = [iocJob EXCEPT ![i] = "none"]
    BY <1>6, <1>9, <2>2 DEF FailIocJob, Ends
  <2> QED BY <1>9, <2>1, <2>2 DEF FailIocJob
<1> HIDE DEF Goal
<1>10. ASSUME Data PROVE Goal
  BY <1>7, <1>10 DEF Data, UpsertCve, InsertIoc, LeaveBacklog, OtherIoc, Toggle
<1>11. ASSUME Listener PROVE Goal
  BY <1>3, <1>7, <1>11 DEF Listener, HandleNotification, AdminSweep, DispatchCve, SweepCve
<1>12. ASSUME Workers PROVE Goal
  BY <1>4, <1>7, <1>8, <1>9, <1>12
     DEF Workers, StartCveJob, FinishCveJob, FailCveJob, EnrichCve
<1>13. ASSUME Boot \/ Disconnect \/ Reconnect \/ Tick \/ UNCHANGED vars PROVE Goal
  BY <1>7, <1>13 DEF Boot, Disconnect, Reconnect, Tick, vars
<1>14. Goal
  BY <1>5, <1>10, <1>11, <1>12, <1>13 DEF Next
<1> QED BY <1>14 DEF Goal

LEMMA IdOnceInvariant == Spec => [](TypeOK /\ IdOnce)
<1>1. Init => IdOnce
  BY DEF Init, IdOnce, Retained, Range
<1> QED BY <1>1, JobStep, TypeCorrect, PTL DEF Spec

\* An IOC never has two jobs in the queue, be they live or finished, however they ended
\* (the job id of sweepIocsBacklog is the IOC's), whatever sweeps overlap, retries or
\* crashes.
THEOREM IdOnceHolds == Spec => []IdOnce
BY IdOnceInvariant, PTL

\* Cooldown: the counts of removeOnComplete and removeOnFail, each for its own, are what
\* spaces the jobs of an IOC that stays in the backlog, also of one whose job was skipped.
THEOREM CooldownHolds == Spec => Cooldown
<1>1. TypeOK /\ IdOnce /\ [Next]_vars => [RetainedStay]_vars
  BY JobStep
<1> QED BY <1>1, IdOnceInvariant, PTL DEF Spec, Cooldown
=============================================================================
