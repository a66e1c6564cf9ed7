--------------------------- MODULE AuditLease_proofs ---------------------------
(***************************************************************************)
(* Proofs about AuditLease, for any number of processes and sessions and   *)
(* any lease duration that leaves room for a heartbeat interval and two    *)
(* slow store calls: the type invariant, that a tracked session is never   *)
(* interrupted, and that an ended session keeps its outcome; and, in the   *)
(* second half, about RDPRecording, which builds on the leases: no         *)
(* recording is lost, announced without being there or left behind.        *)
(*                                                                         *)
(* LeaseHolds is not inductive: it says nothing of time.  The              *)
(* strengthening bounds the ticks left to a lease by the timer of the loop *)
(* that renews it (LeaseRuns): the bound drops by HeartbeatInterval when   *)
(* the ticker fires, is restored by the update, and stays positive all the *)
(* while, so that no recovery meets it.                                    *)
(***************************************************************************)
EXTENDS MCAuditLease, TLAPS

(* activeAuditLeases holds exactly the sessions being served.              *)
TrackedAreLive ==
    \A p \in Process, s \in Session :
        s \in tracked[p] <=> handler[s].p = p /\ handler[s].pc = "live"

(* Only a running process has a heartbeat under way, and the lock keeps    *)
(* the set of tracked sessions still until the update has run.             *)
SnapshotIsTracked ==
    \A p \in Process :
        /\ loop[p].pc # "idle" => Up(p)
        /\ loop[p].pc = "renew" => loop[p].ids = tracked[p]

(* The ticker and the store calls are punctual.                            *)
TimerBounded ==
    \A p \in Process :
        /\ loop[p].pc # "idle" => loop[p].timer <= MaxLag
        /\ loop[p].timer <= HeartbeatInterval \/ loop[p].timer <= MaxLag

(* The ticks that a lease of p's sessions has at least.                    *)
Floor(p) ==
    LeaseDuration - MaxLag - loop[p].timer
        - (IF loop[p].pc = "renew" THEN HeartbeatInterval ELSE 0)

(* A session has no row before it is inserted; its lease then runs from    *)
(* the clock reading of prepareAuditSessionLease, and from the last        *)
(* heartbeat once it is tracked.                                           *)
LeaseRuns ==
    \A s \in Session :
        LET p == handler[s].p IN
        /\ handler[s].pc \in {"idle", "prepared"} => row[s].state = "absent"
        /\ handler[s].pc = "inserted" =>
              OwnedAndStarted(p, s) /\ row[s].ttl = LeaseDuration - handler[s].age
        /\ handler[s].pc = "live" /\ Up(p) =>
              OwnedAndStarted(p, s) /\ row[s].ttl >= Floor(p)

(* A process that has not started serves nobody.                           *)
NewServesNobody ==
    \A s \in Session : handler[s].pc \notin {"idle", "done"} => proc[handler[s].p] # "new"

IInv ==
    /\ TypeOK
    /\ TrackedAreLive
    /\ SnapshotIsTracked
    /\ TimerBounded
    /\ LeaseRuns
    /\ NewServesNobody

-----------------------------------------------------------------------------
(* The initial states are well-typed.                                      *)
LEMMA TypeInit == Init => TypeOK
<1>. SUFFICES ASSUME Init PROVE TypeOK
    OBVIOUS
<1>1. AnyProcess \in Process
    BY LeaseAssumption DEF AnyProcess
<1>2. 0 \in Ttls /\ 0 \in 0..MaxLag /\ 0 \in 0..(HeartbeatInterval + MaxLag) /\ MaxFaults \in 0..MaxFaults
    BY LeaseAssumption DEF Ttls
<1>. QED
    BY <1>1, <1>2 DEF Init, TypeOK, Rows, Handlers, Loops, Outcomes

(* Recovery keeps the type of the table.                                   *)
LEMMA RecoverType ==
    ASSUME TypeOK, NEW lag \in Nat, RecoverExpiredAuditSessions(lag)
    PROVE  row' \in [Session -> Rows]
<1>1. \A s \in Session :
          row[s] \in Rows /\ [row[s] EXCEPT !.state = "ended", !.outcome = "terminated"] \in Rows
    BY DEF TypeOK, Rows, Outcomes
<1>. QED
    BY <1>1 DEF RecoverExpiredAuditSessions

(* A heartbeat's update keeps the type of the table.                       *)
LEMMA RenewType ==
    ASSUME TypeOK, NEW p \in Process, NEW ids, loop[p].timer <= MaxLag, Renew(p, ids)
    PROVE  row' \in [Session -> Rows]
<1>1. LeaseDuration - loop[p].timer \in Ttls
    BY LeaseAssumption DEF TypeOK, Loops, Ttls
<1>. QED
    BY <1>1 DEF TypeOK, Rows, Renew

(* The end of a process, or of its loop, keeps the types.                  *)
LEMMA ExitType ==
    ASSUME TypeOK, NEW p \in Process, Exit(p) \/ StopLoop(p)
    PROVE  /\ handler' \in [Session -> Handlers]
           /\ tracked' \in [Process -> SUBSET Session]
           /\ proc' \in [Process -> {"new", "up", "stopping", "down"}]
           /\ loop' \in [Process -> Loops]
<1>1. 0 \in 0..(HeartbeatInterval + MaxLag)
    BY LeaseAssumption
<1>2. [pc |-> "idle", timer |-> 0, ids |-> {}] \in Loops
    BY <1>1 DEF Loops
<1>3. \A s \in Session : [handler[s] EXCEPT !.pc = "done"] \in Handlers
    BY DEF TypeOK, Handlers
<1>4. handler' \in [Session -> Handlers]
    BY <1>3 DEF TypeOK, Exit, StopLoop
<1>. QED
    BY <1>2, <1>4 DEF TypeOK, Exit, StopLoop

(* Every step keeps the types: the timers by TimerBounded.                 *)
LEMMA TypeStep == TypeOK /\ TimerBounded /\ [Next]_vars => TypeOK'
<1>. SUFFICES ASSUME TypeOK, TimerBounded, [Next]_vars PROVE TypeOK'
    OBVIOUS
<1>. USE LeaseAssumption
<1>0. /\ row \in [Session -> Rows] /\ handler \in [Session -> Handlers]
      /\ tracked \in [Process -> SUBSET Session] /\ faults \in 0..MaxFaults
      /\ proc \in [Process -> {"new", "up", "stopping", "down"}]
      /\ loop \in [Process -> Loops]
    BY DEF TypeOK
<1>1. ASSUME Fault \/ UNCHANGED faults PROVE faults' \in 0..MaxFaults
    BY <1>0, <1>1 DEF Fault
<1>2. ASSUME NEW s \in Session, NEW pc \in {"inserted", "live", "ending", "finishing", "done"},
             Goto(s, pc)
      PROVE  handler' \in [Session -> Handlers]
    BY <1>0, <1>2 DEF Goto, Handlers
<1>3. ASSUME NEW p \in Process, NEW s \in Session, PrepareLease(p, s) PROVE TypeOK'
    <2>1. [pc |-> "prepared", p |-> p, age |-> 0] \in Handlers
        BY DEF Handlers
    <2>. QED
        BY <1>0, <1>3, <2>1 DEF PrepareLease, TypeOK
<1>4. ASSUME NEW p \in Process, NEW s \in Session, CreateAuditSession(p, s) PROVE TypeOK'
    <2>1. LeaseDuration - handler[s].age \in Ttls
        BY <1>0 DEF Handlers, Ttls
    <2>2. [state |-> "started", owner |-> p, outcome |-> "connecting",
           ttl |-> LeaseDuration - handler[s].age] \in Rows
        BY <2>1 DEF Rows, Outcomes
    <2>3. row' \in [Session -> Rows]
        BY <1>0, <1>4, <2>2 DEF CreateAuditSession, Inserted
    <2>4. handler' \in [Session -> Handlers]
        BY <1>2, <1>4 DEF CreateAuditSession
    <2>5. faults' \in 0..MaxFaults
        BY <1>1, <1>4 DEF CreateAuditSession
    <2>. QED
        BY <1>0, <1>4, <2>3, <2>4, <2>5 DEF CreateAuditSession, TypeOK
<1>5. ASSUME NEW p \in Process, NEW s \in Session,
             TrackAuditSessionLease(p, s) \/ UntrackAuditSessionLease(p, s)
      PROVE  TypeOK'
    <2>1. handler' \in [Session -> Handlers]
        BY <1>2, <1>5 DEF TrackAuditSessionLease, UntrackAuditSessionLease
    <2>2. tracked' \in [Process -> SUBSET Session]
        BY <1>0, <1>5 DEF TrackAuditSessionLease, UntrackAuditSessionLease
    <2>. QED
        BY <1>0, <1>5, <2>1, <2>2 DEF TrackAuditSessionLease, UntrackAuditSessionLease, TypeOK
<1>6. ASSUME NEW p \in Process, NEW s \in Session,
             EndAuditSession(p, s) \/ FinishAuditSession(p, s)
      PROVE  TypeOK'
    <2>0. ASSUME NEW outcome \in Outcomes
          PROVE  [row[s] EXCEPT !.state = "ended", !.outcome = outcome] \in Rows
        BY <1>0 DEF Rows
    <2>1. row' \in [Session -> Rows]
        <3>1. CASE row' = row
            BY <1>0, <3>1
        <3>2. CASE row' # row
            <4>1. PICK outcome \in Outcomes :
                      row' = [row EXCEPT ![s] = [row[s] EXCEPT !.state = "ended", !.outcome = outcome]]
                BY <1>0, <1>6, <3>2
                   DEF EndAuditSession, FinishAuditSession, FinishOutcomes, Rows, Outcomes
            <4>. QED
                BY <1>0, <2>0, <4>1
        <3>. QED
            BY <3>1, <3>2
    <2>2. handler' \in [Session -> Handlers]
        BY <1>2, <1>6 DEF EndAuditSession, FinishAuditSession
    <2>3. faults' \in 0..MaxFaults
        BY <1>1, <1>6 DEF EndAuditSession, FinishAuditSession
    <2>. QED
        BY <1>0, <1>6, <2>1, <2>2, <2>3 DEF EndAuditSession, FinishAuditSession, TypeOK
<1>7. ASSUME NEW p \in Process, StartProcess(p) PROVE TypeOK'
    <2>1. row' \in [Session -> Rows]
        BY <1>0, <1>7, RecoverType DEF StartProcess
    <2>2. faults' \in 0..MaxFaults
        BY <1>1, <1>7 DEF StartProcess
    <2>. QED
        BY <1>0, <1>7, <2>1, <2>2, ExitType DEF StartProcess, TypeOK
<1>8. ASSUME NEW p \in Process, HeartbeatSnapshot(p) PROVE TypeOK'
    <2>1. loop[p].timer - HeartbeatInterval \in 0..(HeartbeatInterval + MaxLag)
        BY <1>0, <1>8 DEF HeartbeatSnapshot, Loops
    <2>2. loop' \in [Process -> Loops]
        BY <1>0, <1>8, <2>1 DEF HeartbeatSnapshot, Loops
    <2>. QED
        BY <1>0, <1>8, <2>2 DEF HeartbeatSnapshot, TypeOK
<1>9. ASSUME NEW p \in Process, HeartbeatActiveAuditSessions(p) PROVE TypeOK'
    <2>1. loop[p].timer <= MaxLag
        BY <1>9 DEF HeartbeatActiveAuditSessions, TimerBounded
    <2>2. row' \in [Session -> Rows]
        BY <1>9, <2>1, RenewType DEF HeartbeatActiveAuditSessions
    <2>3. faults' \in 0..MaxFaults
        BY <1>1, <1>9 DEF HeartbeatActiveAuditSessions
    <2>4. CASE StopLoop(p)
        BY <2>2, <2>3, <2>4, ExitType DEF TypeOK
    <2>5. CASE ~StopLoop(p)
        <3>1. /\ loop' = [loop EXCEPT ![p].pc = "recover", ![p].ids = {}]
              /\ UNCHANGED <<handler, tracked, proc>>
            BY <1>9, <2>5 DEF HeartbeatActiveAuditSessions
        <3>2. loop' \in [Process -> Loops]
            BY <1>0, <3>1 DEF Loops
        <3>. QED
            BY <1>0, <2>2, <2>3, <3>1, <3>2 DEF TypeOK
    <2>. QED
        BY <2>4, <2>5
<1>10. ASSUME NEW p \in Process, PeriodicRecovery(p) PROVE TypeOK'
    <2>1. loop[p].timer \in Nat
        BY <1>0 DEF Loops
    <2>2. row' \in [Session -> Rows]
        BY <1>0, <1>10, <2>1, RecoverType DEF PeriodicRecovery
    <2>3. faults' \in 0..MaxFaults
        BY <1>1, <1>10 DEF PeriodicRecovery
    <2>4. CASE StopLoop(p)
        BY <2>2, <2>3, <2>4, ExitType DEF TypeOK
    <2>5. CASE ~StopLoop(p)
        BY <1>0, <1>10, <2>2, <2>3, <2>5 DEF PeriodicRecovery, TypeOK, Loops
    <2>. QED
        BY <2>4, <2>5
<1>11. ASSUME NEW p \in Process, WaitForRuntime(p) \/ Crash(p) PROVE TypeOK'
    <2>1. faults' \in 0..MaxFaults
        BY <1>1, <1>11 DEF WaitForRuntime, Crash
    <2>. QED
        BY <1>0, <1>11, <2>1, ExitType DEF WaitForRuntime, Crash, TypeOK
<1>12. ASSUME Tick PROVE TypeOK'
    <2>1. \A ttl \in Ttls : Later(ttl) \in Ttls
        BY DEF Later, Ttls
    <2>2. row' \in [Session -> Rows]
        BY <1>0, <1>12, <2>1 DEF Tick, Rows
    <2>3. handler' \in [Session -> Handlers]
        BY <1>0, <1>12 DEF Tick, Punctual, Handlers
    <2>4. \A p \in Process : Up(p) => loop[p].timer + 1 \in 0..(HeartbeatInterval + MaxLag)
        BY <1>0, <1>12 DEF Tick, Punctual, Loops
    <2>5. loop' \in [Process -> Loops]
        BY <1>0, <1>12, <2>4 DEF Tick, Loops
    <2>. QED
        BY <1>0, <1>12, <2>2, <2>3, <2>5 DEF Tick, TypeOK
<1>13. CASE UNCHANGED vars
    BY <1>0, <1>13 DEF vars, TypeOK
<1>. QED
    BY <1>3, <1>4, <1>5, <1>6, <1>7, <1>8, <1>9, <1>10, <1>11, <1>12, <1>13
       DEF Next, Serve, Maintain
-----------------------------------------------------------------------------
(* The inductive invariant holds initially: nothing is served.             *)
LEMMA InvInit == Init => IInv
<1>. SUFFICES ASSUME Init PROVE IInv
    OBVIOUS
<1>1. TypeOK
    BY TypeInit
<1>2. TrackedAreLive /\ SnapshotIsTracked /\ LeaseRuns /\ NewServesNobody
    BY DEF Init, TrackedAreLive, SnapshotIsTracked, LeaseRuns, NewServesNobody
<1>3. TimerBounded
    BY LeaseAssumption DEF Init, TimerBounded
<1>. QED
    BY <1>1, <1>2, <1>3 DEF IInv

(* The ticks left to a lease that is being renewed never run out.          *)
LEMMA FloorPositive ==
    ASSUME TypeOK, TimerBounded, NEW p \in Process
    PROVE  Floor(p) \in Nat \ {0}
BY LeaseAssumption DEF TypeOK, TimerBounded, Floor, Loops

(* So a recovery, with any clock reading, leaves the served sessions be.   *)
LEMMA RecoverySpares ==
    ASSUME IInv, NEW lag \in Nat, RecoverExpiredAuditSessions(lag), NEW s \in Session,
           \/ handler[s].pc \in {"idle", "prepared", "inserted"}
           \/ handler[s].pc = "live" /\ Up(handler[s].p)
    PROVE  row'[s] = row[s]
<1>1. handler[s].p \in Process /\ handler[s].age \in 0..MaxLag /\ row[s].ttl \in Int
    BY LeaseAssumption DEF IInv, TypeOK, Handlers, Rows, Ttls
<1>2. row[s].state = "started" => row[s].ttl > 0
    BY <1>1, FloorPositive, LeaseAssumption DEF IInv, LeaseRuns
<1>3. ~(row[s].state = "started" /\ row[s].ttl + lag <= 0)
    BY <1>1, <1>2
<1>. QED
    BY <1>3 DEF RecoverExpiredAuditSessions

(* A process ends, or the loop of a running one does.                      *)
Stops(p) == Exit(p) \/ (StopLoop(p) /\ Up(p))

(* What the end of a process, or of its loop, does to the parts of the     *)
(* invariant: it only takes promises back.                                 *)
LEMMA StopKeeps ==
    ASSUME IInv, NEW p \in Process, Stops(p)
    PROVE  /\ TrackedAreLive' /\ SnapshotIsTracked' /\ TimerBounded' /\ NewServesNobody'
           /\ \A s \in Session :
                 /\ \/ handler'[s] = handler[s]
                    \/ handler'[s].pc = "done" /\ handler[s].pc \notin {"idle", "done"}
                 /\ handler'[s].p = handler[s].p
           /\ \A q \in Process : Up(q)' => Up(q) /\ loop'[q] = loop[q]
<1>. USE LeaseAssumption DEF Stops, IInv, TypeOK, Handlers, Loops
<1>1. \A s \in Session : /\ handler'[s].p = handler[s].p
                          /\ \/ handler'[s] = handler[s]
                             \/ handler'[s].pc = "done" /\ Serves(p, s) /\ Exit(p)
    <2>1. CASE Exit(p)
        <3>1. \A s \in Session : LET h == [handler[s] EXCEPT !.pc = "done"] IN
                  h.pc = "done" /\ h.p = handler[s].p
            OBVIOUS
        <3>2. \A s \in Session :
                  handler'[s] = IF Serves(p, s) THEN [handler[s] EXCEPT !.pc = "done"] ELSE handler[s]
            BY <2>1 DEF Exit
        <3>. QED
            BY <2>1, <3>1, <3>2
    <2>2. CASE StopLoop(p)
        BY <2>2 DEF StopLoop
    <2>. QED
        BY <2>1, <2>2
<1>2. \A q \in Process : q # p => proc'[q] = proc[q] /\ loop'[q] = loop[q] /\ tracked'[q] = tracked[q]
    BY DEF Exit, StopLoop
<1>3. /\ proc'[p] \in {"stopping", "down"}
      /\ loop'[p] = [pc |-> "idle", timer |-> 0, ids |-> {}]
    BY DEF Exit, StopLoop
<1>4. TrackedAreLive'
    <2>1. CASE Exit(p)
        BY <2>1 DEF TrackedAreLive, Exit, Serves
    <2>2. CASE StopLoop(p)
        BY <2>2 DEF TrackedAreLive, StopLoop
    <2>. QED
        BY <2>1, <2>2
<1>5. SnapshotIsTracked'
    BY <1>2, <1>3 DEF SnapshotIsTracked, Up
<1>6. TimerBounded'
    BY <1>2, <1>3 DEF TimerBounded
<1>7. NewServesNobody'
    BY <1>1, <1>2, <1>3 DEF NewServesNobody
<1>8. \A s \in Session :
          /\ \/ handler'[s] = handler[s]
             \/ handler'[s].pc = "done" /\ handler[s].pc \notin {"idle", "done"}
          /\ handler'[s].p = handler[s].p
    BY <1>1 DEF Serves
<1>9. \A q \in Process : Up(q)' => Up(q) /\ loop'[q] = loop[q]
    BY <1>2, <1>3 DEF Up
<1>. QED
    BY <1>4, <1>5, <1>6, <1>7, <1>8, <1>9
-----------------------------------------------------------------------------
(* The steps of a handler: only its own session is touched, and tracked    *)
(* changes only while no heartbeat is under way.                           *)
LEMMA HandlerStep ==
    ASSUME IInv, NEW p \in Process, NEW s \in Session,
           \/ PrepareLease(p, s) \/ CreateAuditSession(p, s) \/ TrackAuditSessionLease(p, s)
           \/ UntrackAuditSessionLease(p, s) \/ EndAuditSession(p, s) \/ FinishAuditSession(p, s)
    PROVE  TrackedAreLive' /\ SnapshotIsTracked' /\ TimerBounded' /\ LeaseRuns' /\ NewServesNobody'
<1>. USE LeaseAssumption DEF IInv, TypeOK
<1>1. UNCHANGED <<proc, loop>>
    BY DEF PrepareLease, CreateAuditSession, TrackAuditSessionLease, UntrackAuditSessionLease,
           EndAuditSession, FinishAuditSession
<1>2. TimerBounded'
    BY <1>1 DEF TimerBounded
<1>3. /\ handler' \in [Session -> Handlers]
      /\ \A t \in Session \ {s} : handler'[t] = handler[t] /\ row'[t] = row[t]
      /\ handler'[s].p = p /\ Alive(p)
    BY DEF PrepareLease, CreateAuditSession, TrackAuditSessionLease, UntrackAuditSessionLease,
           EndAuditSession, FinishAuditSession, Goto, Inserted, Handlers, Rows, Serves
<1>4. NewServesNobody'
    BY <1>1, <1>3 DEF NewServesNobody, Alive
<1>5. \A t \in Session \ {s} :
          LET q == handler[t].p IN
          /\ OwnedAndStarted(q, t)' <=> OwnedAndStarted(q, t)
          /\ Up(q)' <=> Up(q)
          /\ Floor(q)' = Floor(q)
    BY <1>1, <1>3 DEF OwnedAndStarted, Up, Floor
<1>6. ASSUME /\ handler'[s].pc = "prepared" => row'[s].state = "absent"
             /\ handler'[s].pc = "inserted" =>
                   OwnedAndStarted(p, s)' /\ row'[s].ttl = LeaseDuration - handler'[s].age
             /\ handler'[s].pc = "live" /\ Up(p) =>
                   OwnedAndStarted(p, s)' /\ row'[s].ttl >= Floor(p)
             /\ handler'[s].pc # "idle"
      PROVE  LeaseRuns'
    BY <1>1, <1>3, <1>5, <1>6 DEF LeaseRuns, Up, Floor
<1>7. CASE PrepareLease(p, s)
    <2>1. handler'[s].pc = "prepared" /\ row' = row /\ tracked' = tracked /\ handler[s].pc = "idle"
        BY <1>7 DEF PrepareLease, Handlers
    <2>2. LeaseRuns'
        BY <2>1, <1>6 DEF LeaseRuns
    <2>3. TrackedAreLive' /\ SnapshotIsTracked'
        BY <1>1, <1>3, <2>1 DEF TrackedAreLive, SnapshotIsTracked, Up
    <2>. QED
        BY <1>2, <1>4, <2>2, <2>3
<1>8. CASE CreateAuditSession(p, s)
    <2>1. /\ handler'[s].pc \in {"inserted", "done"} /\ handler'[s].age = handler[s].age
          /\ handler[s].pc = "prepared" /\ tracked' = tracked
          /\ handler'[s].pc = "inserted" => Inserted(p, s)
        BY <1>8 DEF CreateAuditSession, Goto, Handlers
    <2>2. handler'[s].pc = "inserted" =>
              OwnedAndStarted(p, s)' /\ row'[s].ttl = LeaseDuration - handler'[s].age
        BY <2>1 DEF Inserted, OwnedAndStarted, Rows
    <2>3. LeaseRuns'
        BY <2>1, <2>2, <1>6
    <2>4. TrackedAreLive' /\ SnapshotIsTracked'
        BY <1>1, <1>3, <2>1 DEF TrackedAreLive, SnapshotIsTracked, Up
    <2>. QED
        BY <1>2, <1>4, <2>3, <2>4
<1>9. CASE TrackAuditSessionLease(p, s)
    <2>1. /\ handler'[s].pc = "live" /\ handler[s].pc = "inserted" /\ handler[s].p = p
          /\ tracked' = [tracked EXCEPT ![p] = @ \cup {s}] /\ row' = row
          /\ loop[p].pc # "renew"
        BY <1>9 DEF TrackAuditSessionLease, Goto, Handlers, Serves, ReadLocked
    <2>2. row[s].ttl >= Floor(p)
        <3>1. row[s].ttl = LeaseDuration - handler[s].age /\ handler[s].age \in 0..MaxLag
            BY <2>1 DEF LeaseRuns, Handlers
        <3>2. loop[p].timer \in Nat /\ Floor(p) = LeaseDuration - MaxLag - loop[p].timer
            BY <2>1 DEF Floor, Loops
        <3>. QED
            BY <3>1, <3>2
    <2>3. OwnedAndStarted(p, s)'
        BY <2>1 DEF LeaseRuns, OwnedAndStarted
    <2>4. LeaseRuns'
        BY <2>1, <2>2, <2>3, <1>6
    <2>5. TrackedAreLive'
        BY <1>3, <2>1 DEF TrackedAreLive
    <2>6. SnapshotIsTracked'
        BY <1>1, <2>1 DEF SnapshotIsTracked, Up
    <2>. QED
        BY <1>2, <1>4, <2>4, <2>5, <2>6
<1>10. CASE UntrackAuditSessionLease(p, s)
    <2>1. /\ handler'[s].pc \in {"ending", "finishing"} /\ handler[s].p = p
          /\ tracked' = [tracked EXCEPT ![p] = @ \ {s}]
          /\ loop[p].pc # "renew"
        BY <1>10 DEF UntrackAuditSessionLease, Goto, Handlers, Serves, ReadLocked
    <2>2. LeaseRuns'
        BY <2>1, <1>6
    <2>3. TrackedAreLive'
        BY <1>3, <2>1 DEF TrackedAreLive
    <2>4. SnapshotIsTracked'
        BY <1>1, <2>1 DEF SnapshotIsTracked, Up
    <2>. QED
        BY <1>2, <1>4, <2>2, <2>3, <2>4
<1>11. CASE EndAuditSession(p, s) \/ FinishAuditSession(p, s)
    <2>1. /\ handler'[s].pc = "done" /\ tracked' = tracked
          /\ handler[s].pc \in {"ending", "finishing"}
        BY <1>11 DEF EndAuditSession, FinishAuditSession, Goto, Handlers
    <2>2. LeaseRuns'
        BY <2>1, <1>6
    <2>3. TrackedAreLive' /\ SnapshotIsTracked'
        BY <1>1, <1>3, <2>1 DEF TrackedAreLive, SnapshotIsTracked, Up
    <2>. QED
        BY <1>2, <1>4, <2>2, <2>3
<1>. QED
    BY <1>7, <1>8, <1>9, <1>10, <1>11
(* When a process or its loop ends and the sessions it was serving keep    *)
(* their rows, or lose them to nobody, the leases of the others run on.    *)
LEMMA StopKeepsLeases ==
    ASSUME IInv, NEW p \in Process, Stops(p),
           \A s \in Session :
              /\ (handler[s].pc = "inserted" \/ handler[s].p # p) => row'[s] = row[s]
              /\ row[s].state = "absent" => row'[s].state = "absent"
    PROVE  LeaseRuns'
<1>0. \A s \in Session : handler'[s].p = handler[s].p /\ handler[s].p \in Process
    BY StopKeeps DEF IInv, TypeOK, Handlers
<1>. SUFFICES ASSUME NEW s \in Session, NEW q \in Process, q = handler[s].p
              PROVE  /\ handler'[s].pc \in {"idle", "prepared"} => row'[s].state = "absent"
                     /\ handler'[s].pc = "inserted" =>
                           OwnedAndStarted(q, s)' /\ row'[s].ttl = LeaseDuration - handler'[s].age
                     /\ handler'[s].pc = "live" /\ Up(q)' =>
                           OwnedAndStarted(q, s)' /\ row'[s].ttl >= Floor(q)'
    BY <1>0 DEF LeaseRuns, OwnedAndStarted, Up, Floor
<1>1. handler'[s].pc # "done" => handler'[s] = handler[s]
    BY StopKeeps
<1>2. Up(q)' => Up(q) /\ q # p /\ Floor(q)' = Floor(q)
    <2>1. Up(q)' => Up(q) /\ loop'[q] = loop[q]
        BY StopKeeps
    <2>2. ~Up(p)'
        BY DEF Stops, Exit, StopLoop, Up, IInv, TypeOK
    <2>. QED
        BY <2>1, <2>2 DEF Floor, Up
<1>. QED
    BY <1>1, <1>2 DEF IInv, LeaseRuns, OwnedAndStarted

(* The steps of a process and of its lease runtime.                        *)
LEMMA LoopStep ==
    ASSUME IInv, NEW p \in Process,
           StartProcess(p) \/ Maintain(p) \/ WaitForRuntime(p) \/ Crash(p)
    PROVE  TrackedAreLive' /\ SnapshotIsTracked' /\ TimerBounded' /\ LeaseRuns' /\ NewServesNobody'
<1>. USE LeaseAssumption DEF IInv, TypeOK
<1>1. ASSUME NEW lag \in Nat, RecoverExpiredAuditSessions(lag), UNCHANGED <<handler, tracked>>,
             \A s \in Session : handler[s].pc = "live" => (Up(handler[s].p)' <=> Up(handler[s].p)),
             \A q \in Process : Floor(q)' = Floor(q)
      PROVE  LeaseRuns'
    <2>1. \A s \in Session :
              /\ handler[s].pc \in {"idle", "prepared", "inserted"} => row'[s] = row[s]
              /\ handler[s].pc = "live" /\ Up(handler[s].p) => row'[s] = row[s]
        BY <1>1, RecoverySpares
    <2>2. \A s \in Session : handler[s].p \in Process
        BY DEF Handlers
    <2>. QED
        BY <1>1, <2>1, <2>2 DEF LeaseRuns, OwnedAndStarted
<1>2. CASE StartProcess(p)
    <2>1. CASE Exit(p) /\ UNCHANGED row
        BY <2>1, StopKeeps, StopKeepsLeases DEF Stops
    <2>2. CASE /\ RecoverExpiredAuditSessions(0) /\ proc' = [proc EXCEPT ![p] = "up"]
               /\ UNCHANGED <<handler, tracked, loop>>
        <3>1. \A s \in Session : handler[s].pc = "live" => handler[s].p # p
            BY <1>2 DEF StartProcess, NewServesNobody
        <3>2. \A s \in Session : handler[s].pc = "live" => (Up(handler[s].p)' <=> Up(handler[s].p))
            BY <2>2, <3>1 DEF Up
        <3>3. \A q \in Process : Floor(q)' = Floor(q)
            BY <2>2 DEF Floor
        <3>4. LeaseRuns'
            BY <1>1, <2>2, <3>2, <3>3
        <3>5. TrackedAreLive' /\ SnapshotIsTracked' /\ TimerBounded' /\ NewServesNobody'
            BY <2>2 DEF TrackedAreLive, SnapshotIsTracked, TimerBounded, NewServesNobody, Up
        <3>. QED
            BY <3>4, <3>5
    <2>. QED
        BY <1>2, <2>1, <2>2 DEF StartProcess
<1>3. CASE HeartbeatSnapshot(p)
    <2>1. /\ Up(p) /\ loop[p].pc = "idle" /\ loop[p].timer >= HeartbeatInterval
          /\ loop' = [loop EXCEPT ![p] = [pc |-> "renew", timer |-> loop[p].timer - HeartbeatInterval,
                                          ids |-> tracked[p]]]
          /\ UNCHANGED <<row, handler, tracked, proc>>
        BY <1>3 DEF HeartbeatSnapshot
    <2>2. loop[p].timer \in Nat
        BY DEF Loops
    <2>3. \A q \in Process : Floor(q)' = Floor(q)
        BY <2>1, <2>2 DEF Floor
    <2>4. TimerBounded'
        BY <2>1, <2>2 DEF TimerBounded
    <2>5. LeaseRuns'
        BY <2>1, <2>3 DEF LeaseRuns, OwnedAndStarted, Up, Handlers
    <2>6. TrackedAreLive' /\ SnapshotIsTracked' /\ NewServesNobody'
        BY <2>1 DEF TrackedAreLive, SnapshotIsTracked, NewServesNobody, Up
    <2>. QED
        BY <2>4, <2>5, <2>6
<1>4. CASE HeartbeatActiveAuditSessions(p)
    <2>1. PICK ids \in SUBSET Renewed(p) : Renew(p, ids)
        BY <1>4 DEF HeartbeatActiveAuditSessions
    <2>2. \A s \in Session :
              row'[s] = IF s \in ids THEN [row[s] EXCEPT !.ttl = LeaseDuration - loop[p].timer] ELSE row[s]
        BY <2>1 DEF Renew
    <2>3. /\ Up(p) /\ loop[p].pc = "renew"
          /\ ids \subseteq tracked[p]
          /\ \A s \in ids : OwnedAndStarted(p, s) /\ handler[s].p = p /\ handler[s].pc = "live"
        BY <1>4, <2>1 DEF HeartbeatActiveAuditSessions, Renewed, SnapshotIsTracked, TrackedAreLive
    <2>4. \A s \in ids : row'[s].state = "started" /\ row'[s].owner = p
        BY <2>2, <2>3 DEF OwnedAndStarted, Rows
    <2>5. CASE StopLoop(p)
        <3>1. Stops(p)
            BY <2>3, <2>5 DEF Stops
        <3>2. \A s \in Session :
                  /\ (handler[s].pc = "inserted" \/ handler[s].p # p) => row'[s] = row[s]
                  /\ row[s].state = "absent" => row'[s].state = "absent"
            BY <2>2, <2>3 DEF OwnedAndStarted
        <3>3. LeaseRuns'
            BY <3>1, <3>2, StopKeepsLeases
        <3>. QED
            BY <3>1, <3>3, StopKeeps
    <2>6. CASE ~StopLoop(p)
        <3>1. /\ Renewed(p) = loop[p].ids
              /\ Renew(p, Renewed(p))
              /\ loop' = [loop EXCEPT ![p].pc = "recover", ![p].ids = {}]
              /\ UNCHANGED <<handler, tracked, proc>>
            BY <1>4, <2>6 DEF HeartbeatActiveAuditSessions
        <3>2. \A s \in Session :
                  row'[s] = IF s \in tracked[p]
                            THEN [row[s] EXCEPT !.ttl = LeaseDuration - loop[p].timer] ELSE row[s]
            BY <2>3, <3>1 DEF Renew, SnapshotIsTracked
        <3>3. \A s \in Session : s \in tracked[p] => OwnedAndStarted(p, s)
            BY <2>3, <3>1 DEF Renewed, SnapshotIsTracked
        <3>4. \A s \in Session : s \in tracked[p] => /\ OwnedAndStarted(p, s)'
                                                     /\ row'[s].ttl = LeaseDuration - loop[p].timer
            <4>1. ASSUME NEW s \in Session, s \in tracked[p]
                  PROVE  /\ row'[s].state = row[s].state /\ row'[s].owner = row[s].owner
                         /\ row'[s].ttl = LeaseDuration - loop[p].timer
                <5>1. row'[s] = [row[s] EXCEPT !.ttl = LeaseDuration - loop[p].timer] /\ row[s] \in Rows
                    BY <3>2, <4>1
                <5>. QED
                    BY <5>1 DEF Rows
            <4>. QED
                BY <3>3, <4>1 DEF OwnedAndStarted
        <3>5. /\ loop'[p].pc = "recover" /\ loop'[p].timer = loop[p].timer /\ loop[p].timer \in Nat
              /\ \A q \in Process \ {p} : loop'[q] = loop[q]
            BY <3>1 DEF Loops
        <3>6. Floor(p)' = LeaseDuration - MaxLag - loop[p].timer /\ \A q \in Process \ {p} : Floor(q)' = Floor(q)
            BY <3>5 DEF Floor
        <3>7. TimerBounded' /\ SnapshotIsTracked'
            BY <2>3, <3>1, <3>5 DEF TimerBounded, SnapshotIsTracked, Up
        <3>8. TrackedAreLive' /\ NewServesNobody'
            BY <3>1 DEF TrackedAreLive, NewServesNobody
        <3>9. ASSUME NEW s \in Session, handler[s].p = p, handler[s].pc = "live"
              PROVE  OwnedAndStarted(p, s)' /\ row'[s].ttl >= Floor(p)'
            BY <3>4, <3>5, <3>6, <3>9 DEF TrackedAreLive
        <3>10. ASSUME NEW s \in Session, ~(handler[s].p = p /\ handler[s].pc = "live")
               PROVE  row'[s] = row[s]
            BY <3>2, <3>10 DEF TrackedAreLive
        <3>11. LeaseRuns'
            <4>1. \A s \in Session : handler'[s] = handler[s] /\ handler[s].p \in Process
                BY <3>1 DEF Handlers
            <4>. QED
                BY <3>1, <3>6, <3>9, <3>10, <4>1 DEF LeaseRuns, OwnedAndStarted, Up
        <3>. QED
            BY <3>7, <3>8, <3>11
    <2>. QED
        BY <2>5, <2>6
<1>5. CASE PeriodicRecovery(p)
    <2>1. CASE StopLoop(p) /\ UNCHANGED row
        BY <1>5, <2>1, StopKeeps, StopKeepsLeases DEF PeriodicRecovery, Stops
    <2>2. CASE /\ RecoverExpiredAuditSessions(loop[p].timer) /\ loop' = [loop EXCEPT ![p].pc = "idle"]
               /\ UNCHANGED <<handler, tracked, proc>>
        <3>1. /\ loop'[p].pc = "idle" /\ loop'[p].timer = loop[p].timer /\ loop[p].timer \in Nat
              /\ loop[p].pc = "recover"
              /\ \A q \in Process \ {p} : loop'[q] = loop[q]
            BY <1>5, <2>2 DEF Loops, PeriodicRecovery
        <3>2. \A q \in Process : Floor(q)' = Floor(q)
            BY <3>1 DEF Floor
        <3>3. LeaseRuns'
            BY <1>1, <2>2, <3>1, <3>2 DEF Up
        <3>4. TrackedAreLive' /\ SnapshotIsTracked' /\ TimerBounded' /\ NewServesNobody'
            BY <2>2, <3>1 DEF TrackedAreLive, SnapshotIsTracked, TimerBounded, NewServesNobody, Up
        <3>. QED
            BY <3>3, <3>4
    <2>. QED
        BY <1>5, <2>1, <2>2 DEF PeriodicRecovery
<1>6. CASE WaitForRuntime(p) \/ Crash(p)
    <2>1. Stops(p) /\ UNCHANGED row
        BY <1>6 DEF Stops, WaitForRuntime, Crash
    <2>. QED
        BY <2>1, StopKeeps, StopKeepsLeases
<1>. QED
    BY <1>2, <1>3, <1>4, <1>5, <1>6 DEF Maintain
(* A tick: the leases and the timers of the loops that renew them run      *)
(* together.                                                               *)
LEMMA TickStep ==
    ASSUME IInv, Tick
    PROVE  TrackedAreLive' /\ SnapshotIsTracked' /\ TimerBounded' /\ LeaseRuns' /\ NewServesNobody'
<1>. USE LeaseAssumption DEF IInv, TypeOK
<1>1. /\ UNCHANGED <<tracked, proc>> /\ Punctual
      /\ \A s \in Session : /\ handler'[s].pc = handler[s].pc /\ handler'[s].p = handler[s].p
                            /\ handler[s].pc = "inserted" => handler'[s].age = handler[s].age + 1
                            /\ handler[s].p \in Process /\ handler[s].age \in 0..MaxLag
    BY DEF Tick, Handlers
<1>2. \A p \in Process :
          /\ loop'[p].pc = loop[p].pc /\ loop'[p].ids = loop[p].ids /\ loop[p].timer \in Nat
          /\ loop'[p].timer = IF Up(p) THEN loop[p].timer + 1 ELSE loop[p].timer
    BY DEF Tick, Loops
<1>3. \A s \in Session : /\ row'[s].state = row[s].state /\ row'[s].owner = row[s].owner
                         /\ row[s].ttl \in Int
                         /\ row[s].state = "started" => row'[s].ttl = Later(row[s].ttl)
    BY DEF Tick, Rows, Ttls
<1>4. TrackedAreLive' /\ SnapshotIsTracked' /\ NewServesNobody'
    BY <1>1, <1>2 DEF TrackedAreLive, SnapshotIsTracked, NewServesNobody, Up
<1>5. TimerBounded'
    BY <1>1, <1>2 DEF TimerBounded, Punctual, SnapshotIsTracked, Up
<1>6. ASSUME NEW p \in Process, Up(p)
      PROVE  Floor(p)' = Floor(p) - 1
    BY <1>2, <1>6 DEF Floor
<1>7. ASSUME NEW s \in Session, NEW p \in Process, p = handler[s].p
      PROVE  /\ handler'[s].pc \in {"idle", "prepared"} => row'[s].state = "absent"
             /\ handler'[s].pc = "inserted" =>
                   OwnedAndStarted(p, s)' /\ row'[s].ttl = LeaseDuration - handler'[s].age
             /\ handler'[s].pc = "live" /\ Up(p)' =>
                   OwnedAndStarted(p, s)' /\ row'[s].ttl >= Floor(p)'
    <2>1. OwnedAndStarted(p, s)' <=> OwnedAndStarted(p, s)
        BY <1>3 DEF OwnedAndStarted
    <2>2. CASE handler[s].pc = "inserted"
        <3>1. row[s].ttl = LeaseDuration - handler[s].age /\ OwnedAndStarted(p, s)
            BY <1>7, <2>2 DEF LeaseRuns
        <3>2. row'[s].ttl = row[s].ttl - 1
            BY <1>1, <1>3, <3>1 DEF Later, OwnedAndStarted
        <3>. QED
            BY <1>1, <2>1, <2>2, <3>1, <3>2
    <2>3. CASE handler[s].pc = "live" /\ Up(p)
        <3>1. row[s].ttl >= Floor(p) /\ OwnedAndStarted(p, s)
            BY <1>7, <2>3 DEF LeaseRuns
        <3>2. Floor(p) \in Nat \ {0} /\ Floor(p)' = Floor(p) - 1
            BY <1>6, <2>3, FloorPositive
        <3>3. row'[s].ttl = row[s].ttl - 1
            BY <1>3, <3>1, <3>2 DEF Later, OwnedAndStarted
        <3>. QED
            BY <1>1, <1>3, <2>1, <2>3, <3>1, <3>2, <3>3
    <2>4. CASE handler[s].pc \in {"idle", "prepared"}
        BY <1>1, <1>3, <2>4 DEF LeaseRuns
    <2>. QED
        BY <1>1, <2>2, <2>3, <2>4 DEF Up
<1>8. LeaseRuns'
    BY <1>1, <1>7 DEF LeaseRuns, OwnedAndStarted, Up, Floor
<1>. QED
    BY <1>4, <1>5, <1>8

(* Every step keeps the inductive invariant.                               *)
LEMMA InvStep == IInv /\ [Next]_vars => IInv'
<1>. SUFFICES ASSUME IInv, [Next]_vars PROVE IInv'
    OBVIOUS
<1>1. TypeOK'
    BY TypeStep DEF IInv
<1>2. CASE Next
    BY <1>1, <1>2, HandlerStep, LoopStep, TickStep DEF Next, Serve, IInv
<1>3. CASE UNCHANGED vars
    BY <1>1, <1>3 DEF vars, IInv, TrackedAreLive, SnapshotIsTracked, TimerBounded, LeaseRuns,
                      NewServesNobody, Up, OwnedAndStarted, Floor
<1>. QED
    BY <1>2, <1>3

(* LeaseHolds follows: what a process tracks it serves, and what it serves *)
(* it owns.                                                                *)
LEMMA InvLeaseHolds == IInv => LeaseHolds
<1>. SUFFICES ASSUME IInv PROVE LeaseHolds
    OBVIOUS
<1>1. LiveSessionKept
    BY DEF IInv, TypeOK, TrackedAreLive, LeaseRuns, LiveSessionKept
<1>2. HeartbeatMeetsItsSnapshot
    BY <1>1 DEF LiveSessionKept, HeartbeatMeetsItsSnapshot, IInv, SnapshotIsTracked, Renewed
<1>. QED
    BY <1>1, <1>2 DEF LeaseHolds

(* The type invariant of AuditLease.                                       *)
THEOREM LeaseTypeCorrect == Spec => []TypeOK
<1>1. IInv => TypeOK
    BY DEF IInv
<1>. QED
    BY <1>1, InvInit, InvStep, PTL DEF Spec

(* A session that a running process tracks is interrupted by no recovery,  *)
(* of this or of another process, and no heartbeat finds its snapshot      *)
(* changed (HeartbeatActiveAuditSessions, RecoverExpiredAuditSessions),    *)
(* whatever the number of processes and sessions and for every lease       *)
(* longer than a heartbeat interval and two slow store calls.              *)
THEOREM LeaseCorrect == Spec => []LeaseHolds
BY InvInit, InvStep, InvLeaseHolds, PTL DEF Spec

(* No step rewrites an ended session.                                      *)
LEMMA OutcomeKept ==
    ASSUME IInv, [Next]_vars, NEW s \in Session, row[s].state = "ended"
    PROVE  row'[s].state = "ended" /\ row'[s].outcome = row[s].outcome
<1>. USE DEF IInv, TypeOK
<1>1. ASSUME NEW p \in Process, NEW t \in Session, CreateAuditSession(p, t) PROVE row'[s] = row[s]
    BY <1>1 DEF CreateAuditSession, Inserted, LeaseRuns
<1>2. ASSUME NEW p \in Process, NEW t \in Session, EndAuditSession(p, t) \/ FinishAuditSession(p, t)
      PROVE  row'[s] = row[s]
    BY <1>2 DEF EndAuditSession, FinishAuditSession, OwnedAndStarted
<1>3. ASSUME NEW p \in Process, StartProcess(p) \/ PeriodicRecovery(p) PROVE row'[s] = row[s]
    BY <1>3 DEF StartProcess, PeriodicRecovery, RecoverExpiredAuditSessions
<1>4. ASSUME NEW p \in Process, HeartbeatActiveAuditSessions(p) PROVE row'[s] = row[s]
    <2>1. PICK ids \in SUBSET Renewed(p) : Renew(p, ids)
        BY <1>4 DEF HeartbeatActiveAuditSessions
    <2>2. s \notin ids
        BY <2>1 DEF Renewed, OwnedAndStarted
    <2>. QED
        BY <2>1, <2>2 DEF Renew
<1>5. ASSUME Tick PROVE row'[s] = row[s]
    BY <1>5 DEF Tick
<1>6. ASSUME \/ \E p \in Process, t \in Session : \/ PrepareLease(p, t)
                                                  \/ UntrackAuditSessionLease(p, t)
                                                  \/ TrackAuditSessionLease(p, t)
             \/ \E p \in Process : HeartbeatSnapshot(p) \/ WaitForRuntime(p) \/ Crash(p)
             \/ UNCHANGED vars
      PROVE  row'[s] = row[s]
    BY <1>6 DEF PrepareLease, UntrackAuditSessionLease, TrackAuditSessionLease, HeartbeatSnapshot,
                WaitForRuntime, Crash, vars
<1>. QED
    BY <1>1, <1>2, <1>3, <1>4, <1>5, <1>6 DEF Next, Serve, Maintain

(* An audit session that has ended keeps its outcome through every later   *)
(* end, finish, heartbeat and recovery (EndAuditSession,                   *)
(* FinishAuditSession, RecoverExpiredAuditSessions).                       *)
THEOREM OutcomeCorrect == Spec => OutcomeIsFinal
<1>1. IInv /\ [Next]_vars =>
          [\A s \in Session : row[s].state = "ended" => row'[s].state = "ended"
                                                     /\ row'[s].outcome = row[s].outcome]_vars
    BY OutcomeKept
<1>. QED
    BY <1>1, InvInit, InvStep, PTL DEF Spec, OutcomeIsFinal

-----------------------------------------------------------------------------
(* RDPRecording relies on leases that expire only when nobody serves their *)
(* session, which LeaseCorrect shows.  Its own theorem follows, for any    *)
(* number of sessions, crashes and failed calls.                           *)

(* The steps of uploadRecording before it has returned.                    *)
Uploading == {"mark", "wait", "put", "ready", "fail", "lost"}
(* Worker w still has business with its session.                           *)
Attached(w) == job[w].pc \notin {"idle", "drive"}
(* The session is running under a live lease; it is over; its recording is *)
(* served.                                                                 *)
Leased(s) == sess[s].state = "started" /\ ~sess[s].expired
Ended(s) == sess[s].state \in {"ended", "deleted"} \/ (sess[s].state = "started" /\ sess[s].expired)
Stored(s) == art[s].status = "ready" /\ s \in objects

(* A server that is down has no call under way.                            *)
DownIsEmpty ==
    server.phase = "down" =>
        /\ server.inc < MaxCrashes
        /\ \A w \in Rec!Worker : job[w].pc = "idle"
        /\ todo = {} /\ cleaner = Rec!IdleCleaner

(* Retention claims only ended sessions, and nothing exists of a session   *)
(* before Begin.                                                           *)
Untouched(s) ==
    /\ sess[s].state \in {"absent", "started"} => sess[s].cleanup = "ready"
    /\ sess[s].state = "absent" =>
          /\ ~sess[s].expired /\ sess[s].rec # "ready"
          /\ art[s].status = "absent" /\ s \notin produced

(* A handler works on its own session, which it began and whose lease it   *)
(* keeps alive, and what it believes about the artifact is so.             *)
HandlerSound(s) ==
    /\ job[s].pc # "idle" => job[s].s = s
    /\ job[s].pc \notin {"lost", "finishEnded"}
    /\ Attached(s) => /\ Leased(s) /\ sess[s].cleanup = "ready"
                      /\ sess[s].owner = server.inc
    /\ job[s].pc \in {"begun", "active"} /\ job[s].status # "none" =>
          job[s].status = "pending" /\ art[s].status = "pending"

(* The recovery works on a session that is over and that its pass has not  *)
(* still to take.                                                          *)
RecovererSound ==
    /\ job[Recoverer].pc \notin {"begun", "active"}
    /\ job[Recoverer].pc # "idle" =>
          /\ job[Recoverer].s \in Session /\ Ended(job[Recoverer].s)
          /\ \A i \in todo : i.s # job[Recoverer].s

(* A pass has claimed each session once, is the only one to work on it,    *)
(* and retention cannot take it.                                           *)
TodoSound ==
    /\ \A i, j \in todo : i.s = j.s => i = j
    /\ \A i \in todo : Ended(i.s) /\ Rec!Retained(i.s) /\ art[i.s].status = "uploading"

(* Retention keeps off a session as long as its upload runs, and the       *)
(* recording is marked ready, removed from the spool and reported only     *)
(* after it was stored.                                                    *)
UploadSound(w) ==
    LET s == job[w].s IN
    /\ job[w].pc \in Uploading => Rec!Retained(s) /\ art[s].status \in {"pending", "uploading"}
    /\ job[w].pc = "ready" => s \in objects
    /\ \/ job[w].pc = "remove"
       \/ job[w].pc \in {"finish", "finishEnded"} /\ job[w].status = "ready"
       => (Rec!Retained(s) => Stored(s))

(* What the cleaner holds stays claimed, and it deletes the rows only      *)
(* after the object.                                                       *)
CleanerSound ==
    /\ \A s \in cleaner.todo : sess[s].state \in {"ended", "deleted"} /\ sess[s].cleanup # "ready"
    /\ cleaner.pc # "idle" => /\ cleaner.s \in Session
                              /\ sess[cleaner.s].state \in {"ended", "deleted"}
                              /\ sess[cleaner.s].cleanup # "ready"
    /\ cleaner.pc = "row" => cleaner.s \notin objects

(* Whatever is in the object store has an artifact row, so that the        *)
(* cleaner finds it.                                                       *)
ObjectsHaveRows == \A s \in objects : art[s].status # "absent"

(* RecordingPreserved is not inductive: it does not say who may still      *)
(* write. The strengthening says that a session has one worker at a time,  *)
(* and that an upload and the cleaner never hold the same session.         *)
RecInv ==
    /\ Rec!TypeOK
    /\ DownIsEmpty
    /\ \A s \in Session : Untouched(s)
    /\ \A s \in Session : HandlerSound(s)
    /\ RecovererSound
    /\ TodoSound
    /\ \A w \in Rec!Worker : UploadSound(w)
    /\ CleanerSound
    /\ ObjectsHaveRows
    /\ Rec!RecordingPreserved

-----------------------------------------------------------------------------
(* The steps a job can be at.                                              *)
JobPCs == {"idle", "begun", "active", "mark", "wait", "put", "ready",
               "fail", "lost", "remove", "finish", "finishEnded", "drive"}

(* Only the job of w changes, to step pc with the given status.            *)
Steps(w, pc, status) ==
    \E j \in Rec!Jobs : /\ job' = [job EXCEPT ![w] = j]
                    /\ j.pc = pc /\ j.s = job[w].s /\ j.status = status

(* The fields of a job.                                                    *)
LEMMA JobFields ==
    ASSUME NEW j \in Rec!Jobs
    PROVE  /\ j.outcome \in Rec!Outcomes /\ j.status \in Rec!RecordingStatuses /\ j.pc \in JobPCs
           /\ j.s \in Session \cup {NoSession}
  BY DEF Rec!Jobs, JobPCs

(* Goto, Return and Finish move one job and keep its session.              *)
LEMMA GotoSteps ==
    ASSUME job \in [Rec!Worker -> Rec!Jobs], NEW w \in Rec!Worker, NEW pc \in JobPCs, Rec!Goto(w, pc)
    PROVE  Steps(w, pc, job[w].status)
  <1> DEFINE j == [job[w] EXCEPT !.pc = pc]
  <1>1. job[w] \in Rec!Jobs
    OBVIOUS
  <1>2. j \in Rec!Jobs /\ j.pc = pc /\ j.s = job[w].s /\ j.status = job[w].status
    BY <1>1 DEF Rec!Jobs, JobPCs
  <1>3. job' = [job EXCEPT ![w] = j]
    BY DEF Rec!Goto
  <1> QED BY <1>2, <1>3 DEF Steps

LEMMA ReturnSteps ==
    ASSUME job \in [Rec!Worker -> Rec!Jobs], NEW w \in Rec!Worker, NEW st \in Rec!RecordingStatuses, Rec!Return(w, st)
    PROVE  Steps(w, "finish", st)
  <1> DEFINE j == [job[w] EXCEPT !.pc = "finish", !.status = st]
  <1>1. job[w] \in Rec!Jobs
    OBVIOUS
  <1>2. j \in Rec!Jobs /\ j.pc = "finish" /\ j.s = job[w].s /\ j.status = st
    BY <1>1 DEF Rec!Jobs
  <1>3. job' = [job EXCEPT ![w] = j]
    BY DEF Rec!Return
  <1> QED BY <1>2, <1>3 DEF Steps

LEMMA FinishSteps ==
    ASSUME job \in [Rec!Worker -> Rec!Jobs], NEW s \in Session, Rec!Finish(s)
    PROVE  Steps(s, IF job[s].status = "none" THEN "finish" ELSE "mark", job[s].status)
  <1>1. PICK o \in Rec!FinishOutcomes :
          job' = [job EXCEPT ![s].outcome = o, 
                             ![s].pc = IF job[s].status = "none" THEN "finish" ELSE "mark"]
    BY DEF Rec!Finish
  <1> DEFINE pc == IF job[s].status = "none" THEN "finish" ELSE "mark"
             j == [job[s] EXCEPT !.outcome = o, !.pc = pc]
  <1>2. job[s] \in Rec!Jobs /\ o \in Rec!Outcomes
    BY DEF Rec!Worker, Rec!Outcomes
  <1>4. job' = [job EXCEPT ![s] = j]
    BY <1>1
  <1>3. j \in Rec!Jobs /\ j.pc = pc /\ j.s = job[s].s /\ j.status = job[s].status
    BY <1>2 DEF Rec!Jobs
  <1> HIDE DEF j
  <1> QED BY <1>3, <1>4 DEF Steps

(* Whoever is at work on a session is alone with it.                       *)
LEMMA Alone ==
    ASSUME RecInv, NEW w \in Rec!Worker, Attached(w)
    PROVE  /\ job[w].s \in Session /\ job[w] \in Rec!Jobs /\ server.phase # "down"
           /\ sess[job[w].s].state # "absent"
           /\ \A v \in Rec!Worker \ {w} : Attached(v) => job[v].s # job[w].s
           /\ \A i \in todo : i.s # job[w].s
           /\ w \in Session => w = job[w].s
  <1>1. job[w] \in Rec!Jobs /\ server.phase # "down"
    BY DEF RecInv, Rec!TypeOK, DownIsEmpty, Attached
  <1>2. ASSUME NEW v \in Session, Attached(v) PROVE job[v].s = v /\ Leased(v)
    BY <1>2 DEF RecInv, HandlerSound, Attached
  <1>3. Attached(Recoverer) => /\ job[Recoverer].s \in Session /\ Ended(job[Recoverer].s)
                               /\ \A i \in todo : i.s # job[Recoverer].s
    BY DEF RecInv, RecovererSound, Attached
  <1>4. \A p \in Session : ~(Leased(p) /\ Ended(p))
    BY DEF Leased, Ended
  <1>5. \A i \in todo : i.s \in Session /\ Ended(i.s)
    BY DEF RecInv, Rec!TypeOK, TodoSound, Rec!Items
  <1>6. \A p \in Session : Leased(p) \/ Ended(p) => sess[p].state # "absent"
    BY DEF Leased, Ended
  <1>7. CASE w \in Session
    BY <1>1, <1>2, <1>3, <1>4, <1>5, <1>6, <1>7 DEF Rec!Worker
  <1>8. CASE w = Recoverer /\ w \notin Session
    BY <1>1, <1>2, <1>3, <1>4, <1>6, <1>8 DEF Rec!Worker
  <1> QED BY <1>7, <1>8 DEF Rec!Worker

(* A step of an upload by w, which leaves the artifact row a.              *)
Uploads(w, pc, status, a) ==
    LET s == job[w].s IN
    /\ Attached(w) /\ Steps(w, pc, status)
    /\ UNCHANGED <<sess, server, todo, cleaner, produced, drive>>
    /\ art' = [art EXCEPT ![s] = a]
    /\ objects' \in {objects, objects \cup {s}} /\ spool' \in {spool, spool \ {s}}
    /\ errors' \in 0..MaxErrors
    /\ pc \in {"mark", "wait", "put", "ready", "fail", "remove", "finish"}
    /\ job[w].pc \notin Uploading => a = art[s] /\ objects' = objects
    /\ job[w].pc \in Uploading => a.status # "absent"
    /\ pc \in Uploading => Rec!Retained(s) /\ a.status \in {"pending", "uploading"}
    /\ pc = "ready" => s \in objects'
    /\ pc = "remove" \/ (pc = "finish" /\ status = "ready") =>
          (Rec!Retained(s) => a.status = "ready" /\ s \in objects')
    /\ s \in spool' \/ spool' = spool \/ (Rec!Retained(s) => s \in objects)

(* Such a step keeps the invariant.                                        *)
LEMMA UploadsSound ==
    ASSUME RecInv, NEW w \in Rec!Worker, NEW pc, NEW status, NEW a \in Rec!ArtifactRows,
           Uploads(w, pc, status, a)
    PROVE  RecInv'
  <1> DEFINE s == job[w].s
  <1>1. /\ s \in Session /\ job[w] \in Rec!Jobs /\ server.phase # "down" /\ sess[s].state # "absent"
        /\ \A v \in Rec!Worker \ {w} : Attached(v) => job[v].s # s
        /\ \A i \in todo : i.s # s
        /\ w \in Session => w = s
    BY Alone DEF Uploads
  <1>2. PICK j \in Rec!Jobs : /\ job' = [job EXCEPT ![w] = j]
                          /\ j.pc = pc /\ j.s = s /\ j.status = status
    BY DEF Uploads, Steps
  <1>3. job'[w] = j /\ \A v \in Rec!Worker \ {w} : job'[v] = job[v]
    BY <1>2 DEF RecInv, Rec!TypeOK
  <1>4. art'[s] = a /\ \A p \in Session \ {s} : art'[p] = art[p]
    BY <1>1 DEF RecInv, Rec!TypeOK, Uploads
  <1>5. /\ \A p \in Session \ {s} : (p \in objects' <=> p \in objects) /\ (p \in spool' <=> p \in spool)
        /\ objects \subseteq objects' /\ spool' \subseteq spool
        /\ s \in objects' => s \in objects \/ job[w].pc \in Uploading
        /\ UNCHANGED <<sess, server, todo, cleaner, produced>>
    BY DEF Uploads
  <1>6. Rec!TypeOK'
    <2>1. job' \in [Rec!Worker -> Rec!Jobs] /\ art' \in [Session -> Rec!ArtifactRows]
      BY <1>2 DEF RecInv, Rec!TypeOK, Uploads
    <2>2. objects' \subseteq Session /\ spool' \subseteq Session
      BY <1>1 DEF RecInv, Rec!TypeOK, Uploads
    <2> QED BY <2>1, <2>2 DEF RecInv, Rec!TypeOK, Uploads
  <1>7. DownIsEmpty'
    BY <1>1, <1>5 DEF DownIsEmpty
  <1>8. \A p \in Session : Untouched(p)'
    BY <1>1, <1>4, <1>5 DEF RecInv, Untouched
  <1>9. /\ pc \in {"mark", "wait", "put", "ready", "fail", "remove", "finish"}
        /\ job[w].pc \notin Uploading => a = art[s]
    BY DEF Uploads
  <1>10. \A p \in Session : Rec!Retained(p)' <=> Rec!Retained(p)
    BY <1>5 DEF Rec!Retained
  <1>11. ASSUME NEW p \in Session PROVE HandlerSound(p)'
    <2>0. HandlerSound(p) /\ p \in Rec!Worker
      BY DEF RecInv, Rec!Worker
    <2>1. CASE p = w
      BY <1>1, <1>2, <1>3, <1>5, <1>9, <2>0, <2>1 DEF HandlerSound, Attached, Leased, Uploads
    <2>2. CASE p # w
      <3>1. job'[p] = job[p]
        BY <1>3, <2>0, <2>2
      <3>2. Attached(p) => p # s
        BY <1>1, <2>0, <2>2 DEF HandlerSound, Attached
      <3> QED BY <1>4, <1>5, <2>0, <3>1, <3>2 DEF HandlerSound, Attached, Leased
    <2> QED BY <2>1, <2>2
  <1>12. RecovererSound'
    <2>1. Recoverer \in Rec!Worker /\ RecovererSound
      BY DEF RecInv, Rec!Worker
    <2>2. CASE w = Recoverer
      BY <1>2, <1>3, <1>5, <1>9, <2>1, <2>2 DEF RecovererSound, Ended, Uploads, Attached
    <2>3. CASE w # Recoverer
      BY <1>3, <1>5, <2>1, <2>3 DEF RecovererSound, Ended
    <2> QED BY <2>2, <2>3
  <1>13. TodoSound'
    <2>1. \A i \in todo : i.s \in Session
      BY DEF RecInv, Rec!TypeOK, Rec!Items
    <2> QED BY <1>1, <1>4, <1>5, <1>10, <2>1 DEF RecInv, TodoSound, Ended
  <1>14. ASSUME NEW v \in Rec!Worker PROVE UploadSound(v)'
    <2>0. UploadSound(v)
      BY DEF RecInv
    <2>1. CASE v = w
      BY <1>1, <1>2, <1>3, <1>4, <1>9, <1>10, <2>1 DEF UploadSound, Uploads, Stored
    <2>2. CASE v # w /\ Attached(v)
      <3>1. job[v].s \in Session /\ job[v].s # s
        BY <1>1, <2>2, Alone
      <3> QED BY <1>3, <1>4, <1>5, <1>10, <2>0, <2>2, <3>1 DEF UploadSound, Stored
    <2>3. CASE v # w /\ ~Attached(v)
      BY <1>3, <2>3 DEF UploadSound, Attached, Uploading
    <2> QED BY <2>1, <2>2, <2>3
  <1>15. job[w].pc \in Uploading => Rec!Retained(s) /\ art[s].status \in {"pending", "uploading"}
    BY DEF RecInv, UploadSound
  <1>16. CleanerSound'
    <2>1. s \in objects' => s \in objects \/ (cleaner.pc = "row" => cleaner.s # s)
      BY <1>5, <1>15 DEF RecInv, CleanerSound, Rec!Retained
    <2> QED BY <1>5, <2>1 DEF RecInv, CleanerSound
  <1>17. ObjectsHaveRows'
    <2>1. s \in objects' => a.status # "absent"
      BY <1>5, <1>9 DEF RecInv, ObjectsHaveRows, Uploads
    <2>2. objects' \subseteq Session
      BY <1>6 DEF Rec!TypeOK
    <2> QED BY <1>4, <1>5, <2>1, <2>2 DEF RecInv, ObjectsHaveRows
  <1>18. Rec!RecordingPreserved'
    <2>1. Rec!EvidenceKept'
      <3>1. \A p \in Session : p \in produced /\ Rec!Retained(p) => p \in spool' \cup objects'
        BY <1>5 DEF RecInv, Rec!RecordingPreserved, Rec!EvidenceKept, Uploads
      <3>2. produced' \subseteq Session
        BY <1>6 DEF Rec!TypeOK
      <3> QED BY <1>5, <1>10, <3>1, <3>2 DEF Rec!EvidenceKept
    <2>2. Rec!ReadyRecordingIsStored'
      <3>1. \A p \in Session : Rec!Retained(p) /\ sess[p].rec = "ready" => art'[p].status = "ready" /\ p \in objects'
        BY <1>4, <1>5, <1>9, <1>15 DEF RecInv, Rec!RecordingPreserved, Rec!ReadyRecordingIsStored
      <3> QED BY <1>5, <1>10, <3>1 DEF Rec!ReadyRecordingIsStored
    <2>3. Rec!PurgeIsComplete'
      <3>1. sess[s].state = "deleted" => job[w].pc \notin Uploading
        BY <1>15 DEF Rec!Retained
      <3> QED BY <1>4, <1>5, <1>9, <3>1 DEF RecInv, Rec!RecordingPreserved, Rec!PurgeIsComplete
    <2> QED BY <2>1, <2>2, <2>3 DEF Rec!RecordingPreserved
  <1> QED BY <1>6, <1>7, <1>8, <1>11, <1>12, <1>13, <1>14, <1>16, <1>17, <1>18 DEF RecInv

(* The artifact row that UpdateAuditArtifact leaves, or the row as it was. *)
LEMMA ArtifactWrites ==
    ASSUME RecInv, NEW s \in Session, NEW st \in Rec!ArtifactStatuses
    PROVE  /\ Rec!UpdateAuditArtifact(s, st) =>
                 \E a \in Rec!ArtifactRows : art' = [art EXCEPT ![s] = a] /\ a.status = st
           /\ UNCHANGED art => art' = [art EXCEPT ![s] = art[s]]
           /\ art[s] \in Rec!ArtifactRows
  <1> DEFINE a == [status |-> st, stale |-> FALSE]
  <1>1. a \in Rec!ArtifactRows /\ a.status = st
    BY DEF Rec!ArtifactRows
  <1>2. Rec!UpdateAuditArtifact(s, st) => art' = [art EXCEPT ![s] = a]
    BY DEF Rec!UpdateAuditArtifact
  <1> QED BY <1>1, <1>2 DEF RecInv, Rec!TypeOK

(* A failed call uses up one of the errors the environment has.            *)
LEMMA ErrorType ==
    ASSUME Rec!WorkerAssumption, errors \in 0..MaxErrors, UNCHANGED errors \/ Rec!Error
    PROVE  errors' \in 0..MaxErrors
  BY DEF Rec!WorkerAssumption, Rec!Error

(* Every step of uploadRecording, and the call of it, is such a step.      *)
LEMMA UploadStep ==
    ASSUME Rec!WorkerAssumption, RecInv, NEW w \in Rec!Worker,
           \/ Rec!MarkUploading(w) \/ Rec!WaitForRecording(w) \/ Rec!PutRecording(w) \/ Rec!MarkReady(w)
           \/ Rec!RemoveSpool(w) \/ Rec!FailArtifact(w)
           \/ w \in Session /\ Rec!Finish(w)
    PROVE  RecInv'
  <1> DEFINE s == job[w].s
  <1>1. Attached(w)
    BY DEF Rec!MarkUploading, Rec!WaitForRecording, Rec!PutRecording, Rec!MarkReady,
       Rec!RemoveSpool, Rec!FailArtifact,
           Rec!Finish, Rec!At, Attached
  <1>2. /\ s \in Session /\ job[w] \in Rec!Jobs
    BY <1>1, Alone
  <1>3. job \in [Rec!Worker -> Rec!Jobs] /\ errors \in 0..MaxErrors /\ UploadSound(w)
    BY DEF RecInv, Rec!TypeOK
  <1>4. /\ {"wait", "put", "ready", "fail", "remove", "finish"} \subseteq JobPCs
        /\ {"failed", "ready"} \subseteq Rec!RecordingStatuses
        /\ {"uploading", "ready", "failed", "unavailable"} \subseteq Rec!ArtifactStatuses
    BY DEF JobPCs, Rec!RecordingStatuses, Rec!ArtifactStatuses
  <1>5. job[w].pc \in Uploading => Rec!Retained(s) /\ art[s].status \in {"pending", "uploading"}
    BY <1>3 DEF UploadSound
  <1>0. /\ art[s] \in Rec!ArtifactRows /\ job[w].status \in Rec!RecordingStatuses
        /\ UNCHANGED art => art' = [art EXCEPT ![s] = art[s]]
    BY <1>2, <1>4, ArtifactWrites, JobFields
  <1>6. CASE Rec!MarkUploading(w)
    <2>1. \E a \in Rec!ArtifactRows, pc \in JobPCs, st \in Rec!RecordingStatuses :
             /\ art' = [art EXCEPT ![s] = a] /\ a.status \in {"pending", "uploading"}
             /\ Steps(w, pc, st)
             /\ pc = "wait" \/ (pc = "finish" /\ st = "failed")
             /\ errors' \in 0..MaxErrors
      <3>0. job[w].pc = "mark"
        BY <1>6 DEF Rec!MarkUploading, Rec!At
      <3>1. CASE Rec!UpdateAuditArtifact(s, "uploading") /\ Rec!Goto(w, "wait") /\ UNCHANGED errors
        BY <1>0, <1>2, <1>3, <1>4, <3>1, ArtifactWrites, GotoSteps
      <3>2. CASE Rec!Error /\ Rec!Return(w, "failed") /\ (Rec!UpdateAuditArtifact(s, "uploading") \/ UNCHANGED art)
        <4>1. \E a \in Rec!ArtifactRows : art' = [art EXCEPT ![s] = a] /\ a.status \in {"pending", "uploading"}
          BY <1>2, <1>4, <1>5, <3>0, <3>2, ArtifactWrites DEF Uploading
        <4>2. Steps(w, "finish", "failed") /\ errors' \in 0..MaxErrors
          BY <1>3, <1>4, <3>2, ReturnSteps, ErrorType
        <4> QED BY <1>4, <4>1, <4>2
      <3> QED BY <1>6, <3>1, <3>2 DEF Rec!MarkUploading, Rec!Save
    <2>2. PICK a \in Rec!ArtifactRows, pc \in JobPCs, st \in Rec!RecordingStatuses :
             /\ art' = [art EXCEPT ![s] = a] /\ a.status \in {"pending", "uploading"}
             /\ Steps(w, pc, st)
             /\ pc = "wait" \/ (pc = "finish" /\ st = "failed")
             /\ errors' \in 0..MaxErrors
      BY <2>1
    <2>3. job[w].pc = "mark" /\ UNCHANGED <<sess, spool, drive, objects, produced, server, todo, cleaner>>
      BY <1>6 DEF Rec!MarkUploading, Rec!At, Rec!files
    <2>4. Uploads(w, pc, st, a)
      BY <1>1, <1>5, <2>2, <2>3 DEF Uploads, Uploading
    <2> QED BY <2>4, UploadsSound
  <1>7. CASE Rec!WaitForRecording(w)
    <2>1. PICK pc \in {"put", "fail"} : Rec!Goto(w, pc) /\ (UNCHANGED errors \/ Rec!Error)
      BY <1>7 DEF Rec!WaitForRecording
    <2>2. Steps(w, pc, job[w].status) /\ errors' \in 0..MaxErrors
      BY <1>3, <1>4, <2>1, GotoSteps, ErrorType
    <2>3. /\ job[w].pc = "wait" /\ art' = [art EXCEPT ![s] = art[s]] /\ art[s] \in Rec!ArtifactRows
          /\ UNCHANGED <<sess, spool, drive, objects, produced, server, todo, cleaner>>
      BY <1>0, <1>7 DEF Rec!WaitForRecording, Rec!At, Rec!files, Rec!rows
    <2>4. Uploads(w, pc, job[w].status, art[s])
      BY <1>1, <1>5, <2>2, <2>3 DEF Uploads, Uploading
    <2> QED BY <2>3, <2>4, UploadsSound
  <1>8. CASE Rec!PutRecording(w)
    <2>1. PICK pc \in {"ready", "fail"} :
             /\ Rec!Goto(w, pc) /\ (UNCHANGED errors \/ Rec!Error)
             /\ objects' \in {objects, objects \cup {s}}
             /\ pc = "ready" => s \in objects'
      BY <1>8 DEF Rec!PutRecording
    <2>2. Steps(w, pc, job[w].status) /\ errors' \in 0..MaxErrors
      BY <1>3, <1>4, <2>1, GotoSteps, ErrorType
    <2>3. /\ job[w].pc = "put" /\ art' = [art EXCEPT ![s] = art[s]] /\ art[s] \in Rec!ArtifactRows
          /\ UNCHANGED <<sess, spool, drive, produced, server, todo, cleaner>>
      BY <1>0, <1>8 DEF Rec!PutRecording, Rec!At, Rec!files, Rec!rows
    <2>4. Uploads(w, pc, job[w].status, art[s])
      BY <1>1, <1>5, <2>1, <2>2, <2>3 DEF Uploads, Uploading
    <2> QED BY <2>3, <2>4, UploadsSound
  <1>9. CASE Rec!MarkReady(w)
    <2>0. job[w].pc = "ready" /\ s \in objects
      BY <1>3, <1>9 DEF Rec!MarkReady, Rec!At, UploadSound
    <2>1. \E a \in Rec!ArtifactRows, pc \in JobPCs, st \in Rec!RecordingStatuses :
             /\ art' = [art EXCEPT ![s] = a] /\ a.status # "absent"
             /\ Steps(w, pc, st)
             /\ (pc = "remove" /\ a.status = "ready") \/ (pc = "finish" /\ st = "failed")
             /\ errors' \in 0..MaxErrors
      <3>1. CASE Rec!UpdateAuditArtifact(s, "ready") /\ Rec!Goto(w, "remove") /\ UNCHANGED errors
        BY <1>0, <1>2, <1>3, <1>4, <3>1, ArtifactWrites, GotoSteps
      <3>2. CASE Rec!Error /\ Rec!Return(w, "failed") /\ (Rec!UpdateAuditArtifact(s, "ready") \/ UNCHANGED art)
        <4>1. \E a \in Rec!ArtifactRows : art' = [art EXCEPT ![s] = a] /\ a.status # "absent"
          BY <1>2, <1>4, <1>5, <2>0, <3>2, ArtifactWrites DEF Uploading
        <4>2. Steps(w, "finish", "failed") /\ errors' \in 0..MaxErrors
          BY <1>3, <1>4, <3>2, ReturnSteps, ErrorType
        <4> QED BY <1>4, <4>1, <4>2
      <3> QED BY <1>9, <3>1, <3>2 DEF Rec!MarkReady, Rec!Save
    <2>2. PICK a \in Rec!ArtifactRows, pc \in JobPCs, st \in Rec!RecordingStatuses :
             /\ art' = [art EXCEPT ![s] = a] /\ a.status # "absent"
             /\ Steps(w, pc, st)
             /\ (pc = "remove" /\ a.status = "ready") \/ (pc = "finish" /\ st = "failed")
             /\ errors' \in 0..MaxErrors
      BY <2>1
    <2>3. UNCHANGED <<sess, spool, drive, objects, produced, server, todo, cleaner>>
      BY <1>9 DEF Rec!MarkReady, Rec!files
    <2>4. Uploads(w, pc, st, a)
      BY <1>1, <2>0, <2>2, <2>3 DEF Uploads, Uploading
    <2> QED BY <2>4, UploadsSound
  <1>10. CASE Rec!RemoveSpool(w)
    <2>1. /\ job[w].pc = "remove" /\ Steps(w, "finish", "ready") /\ errors' \in 0..MaxErrors
      BY <1>3, <1>4, <1>10, ReturnSteps DEF Rec!RemoveSpool, Rec!At
    <2>2. /\ art' = [art EXCEPT ![s] = art[s]] /\ art[s] \in Rec!ArtifactRows /\ spool' = spool \ {s}
          /\ UNCHANGED <<sess, drive, objects, produced, server, todo, cleaner>>
      BY <1>0, <1>10 DEF Rec!RemoveSpool, Rec!rows
    <2>3. Rec!Retained(s) => art[s].status = "ready" /\ s \in objects
      BY <1>3, <2>1 DEF UploadSound, Stored
    <2>4. Uploads(w, "finish", "ready", art[s])
      BY <1>1, <2>1, <2>2, <2>3 DEF Uploads, Uploading
    <2> QED BY <2>2, <2>4, UploadsSound
  <1>11. CASE Rec!FailArtifact(w)
    <2>0. job[w].pc \in {"fail", "lost"} /\ Steps(w, "finish", "failed")
      BY <1>3, <1>4, <1>11, ReturnSteps DEF Rec!FailArtifact, Rec!At
    <2>1. \E st \in {"failed", "unavailable"} :
             (Rec!UpdateAuditArtifact(s, st) /\ UNCHANGED errors) \/ (Rec!Error /\ UNCHANGED art)
      BY <1>11 DEF Rec!FailArtifact
    <2>2. PICK a \in Rec!ArtifactRows : art' = [art EXCEPT ![s] = a] /\ a.status # "absent"
      BY <1>2, <1>4, <1>5, <2>0, <2>1, ArtifactWrites DEF Uploading
    <2>3. errors' \in 0..MaxErrors
      BY <1>3, <2>1, ErrorType
    <2>4. UNCHANGED <<sess, spool, drive, objects, produced, server, todo, cleaner>>
      BY <1>11 DEF Rec!FailArtifact, Rec!files
    <2>5. Uploads(w, "finish", "failed", a)
      BY <1>1, <2>0, <2>2, <2>3, <2>4 DEF Uploads, Uploading
    <2> QED BY <2>5, UploadsSound
  <1>12. CASE w \in Session /\ Rec!Finish(w)
    <2> DEFINE pc == IF job[w].status = "none" THEN "finish" ELSE "mark"
    <2>1. Steps(w, pc, job[w].status) /\ job[w].pc \in {"begun", "active"}
      BY <1>3, <1>12, FinishSteps DEF Rec!Finish
    <2>2. HandlerSound(w) /\ w = s
      BY <1>1, <1>12, Alone DEF RecInv
    <2>3. Rec!Retained(s) /\ (pc = "mark" => art[s].status = "pending")
      BY <1>1, <2>1, <2>2 DEF HandlerSound, Rec!Retained, Leased
    <2>4. pc = "finish" => job[w].status # "ready"
      OBVIOUS
    <2>5. /\ art' = [art EXCEPT ![s] = art[s]] /\ art[s] \in Rec!ArtifactRows
          /\ UNCHANGED <<sess, spool, drive, objects, produced, server, todo, cleaner, errors>>
      BY <1>0, <1>12 DEF Rec!Finish, Rec!files, Rec!rows
    <2>6. pc \in {"finish", "mark"}
      OBVIOUS
    <2> HIDE DEF pc
    <2>7. Uploads(w, pc, job[w].status, art[s])
      BY <1>1, <1>3, <2>1, <2>3, <2>4, <2>5, <2>6 DEF Uploads, Uploading
    <2> QED BY <2>5, <2>7, UploadsSound
  <1> QED BY <1>6, <1>7, <1>8, <1>9, <1>10, <1>11, <1>12

(* A step of FinishAuditSession by w, which leaves the session row r.      *)
Ends(w, pc, r) ==
    LET s == job[w].s IN
    /\ job[w].pc \in {"finish", "finishEnded"} /\ Steps(w, pc, job[w].status)
    /\ UNCHANGED <<art, spool, drive, objects, produced, server, todo, cleaner>>
    /\ errors' \in 0..MaxErrors
    /\ sess' = [sess EXCEPT ![s] = r]
    /\ pc = "drive" \/ (pc = "finishEnded" /\ w \notin Session)
    /\ r.owner = sess[s].owner /\ r.cleanup = sess[s].cleanup /\ r.expired = sess[s].expired
    /\ r.state = sess[s].state \/ (sess[s].state = "started" /\ r.state = "ended")
    /\ r.rec = sess[s].rec \/ r.rec = job[w].status

(* Such a step keeps the invariant: a session that is already over stays   *)
(* so, and "ready" is reported only of a stored recording.                 *)
LEMMA EndsSound ==
    ASSUME RecInv, NEW w \in Rec!Worker, NEW pc, NEW r \in Rec!SessionRows, Ends(w, pc, r)
    PROVE  RecInv'
  <1> DEFINE s == job[w].s
  <1>0. Attached(w)
    BY DEF Ends, Attached
  <1>1. /\ s \in Session /\ job[w] \in Rec!Jobs /\ server.phase # "down" /\ sess[s].state # "absent"
        /\ \A v \in Rec!Worker \ {w} : Attached(v) => job[v].s # s
        /\ \A i \in todo : i.s # s
        /\ w \in Session => w = s
    BY <1>0, Alone
  <1>2. PICK j \in Rec!Jobs : /\ job' = [job EXCEPT ![w] = j]
                          /\ j.pc = pc /\ j.s = s /\ j.status = job[w].status
    BY DEF Ends, Steps
  <1>3. job'[w] = j /\ \A v \in Rec!Worker \ {w} : job'[v] = job[v]
    BY <1>2 DEF RecInv, Rec!TypeOK
  <1>4. sess'[s] = r /\ \A p \in Session \ {s} : sess'[p] = sess[p]
    BY <1>1 DEF RecInv, Rec!TypeOK, Ends
  <1>5. /\ UNCHANGED <<art, spool, objects, produced, server, todo, cleaner>>
        /\ pc = "drive" \/ (pc = "finishEnded" /\ w \notin Session)
        /\ r.owner = sess[s].owner /\ r.cleanup = sess[s].cleanup /\ r.expired = sess[s].expired
        /\ r.state = sess[s].state \/ (sess[s].state = "started" /\ r.state = "ended")
    BY DEF Ends
  <1>6. Rec!TypeOK'
    <2>1. job' \in [Rec!Worker -> Rec!Jobs] /\ sess' \in [Session -> Rec!SessionRows]
      BY <1>2 DEF RecInv, Rec!TypeOK, Ends
    <2> QED BY <2>1 DEF RecInv, Rec!TypeOK, Ends
  <1>7. DownIsEmpty'
    BY <1>1, <1>5 DEF DownIsEmpty
  <1>8. ASSUME NEW p \in Session
        PROVE  /\ Rec!Retained(p)' <=> Rec!Retained(p)
               /\ Ended(p) => Ended(p)'
               /\ sess[p].state \in {"ended", "deleted"} => sess'[p].state = sess[p].state
               /\ sess'[p].state = "deleted" => sess[p].state = "deleted"
               /\ sess'[p].cleanup = sess[p].cleanup
    <2>1. CASE p = s
      BY <1>1, <1>4, <1>5, <2>1 DEF Rec!Retained, Ended
    <2>2. CASE p # s
      BY <1>4, <2>2 DEF Rec!Retained, Ended
    <2> QED BY <2>1, <2>2
  <1>9. ASSUME NEW p \in Session PROVE Untouched(p)'
    <2>1. CASE p = s
      BY <1>1, <1>4, <1>5, <2>1 DEF RecInv, Untouched
    <2>2. CASE p # s
      BY <1>4, <1>5, <2>2 DEF RecInv, Untouched
    <2> QED BY <2>1, <2>2
  <1>10. ASSUME NEW p \in Session PROVE HandlerSound(p)'
    <2>0. HandlerSound(p) /\ p \in Rec!Worker
      BY DEF RecInv, Rec!Worker
    <2>1. CASE p = w
      BY <1>1, <1>2, <1>3, <1>5, <2>0, <2>1 DEF HandlerSound, Attached
    <2>2. CASE p # w
      <3>1. job'[p] = job[p]
        BY <1>3, <2>0, <2>2
      <3>2. Attached(p) => p # s
        BY <1>1, <2>0, <2>2 DEF HandlerSound, Attached
      <3> QED BY <1>4, <1>5, <2>0, <3>1, <3>2 DEF HandlerSound, Attached, Leased
    <2> QED BY <2>1, <2>2
  <1>11. RecovererSound'
    <2>1. Recoverer \in Rec!Worker /\ RecovererSound
      BY DEF RecInv, Rec!Worker
    <2>2. CASE w = Recoverer
      BY <1>0, <1>1, <1>2, <1>3, <1>5, <1>8, <2>1, <2>2 DEF RecovererSound, Attached
    <2>3. CASE w # Recoverer
      BY <1>3, <1>5, <1>8, <2>1, <2>3 DEF RecovererSound
    <2> QED BY <2>2, <2>3
  <1>12. TodoSound'
    <2>1. \A i \in todo : i.s \in Session
      BY DEF RecInv, Rec!TypeOK, Rec!Items
    <2> QED BY <1>5, <1>8, <2>1 DEF RecInv, TodoSound
  <1>13. ASSUME NEW v \in Rec!Worker PROVE UploadSound(v)'
    <2>0. UploadSound(v)
      BY DEF RecInv
    <2>1. CASE v = w
      BY <1>1, <1>2, <1>3, <1>5, <1>8, <2>0, <2>1 DEF UploadSound, Stored, Ends, Uploading
    <2>2. CASE v # w /\ Attached(v)
      <3>1. job[v].s \in Session
        BY <2>2, Alone
      <3> QED BY <1>3, <1>5, <1>8, <2>0, <2>2, <3>1 DEF UploadSound, Stored
    <2>3. CASE v # w /\ ~Attached(v)
      BY <1>3, <2>3 DEF UploadSound, Attached, Uploading
    <2> QED BY <2>1, <2>2, <2>3
  <1>14. CleanerSound'
    <2>1. \A p \in cleaner.todo : p \in Session
      BY DEF RecInv, Rec!TypeOK
    <2> QED BY <1>5, <1>8, <2>1 DEF RecInv, CleanerSound
  <1>15. ObjectsHaveRows'
    BY <1>5 DEF RecInv, ObjectsHaveRows
  <1>16. Rec!RecordingPreserved'
    <2>1. Rec!EvidenceKept'
      <3>1. produced \subseteq Session
        BY DEF RecInv, Rec!TypeOK
      <3> QED BY <1>5, <1>8, <3>1 DEF RecInv, Rec!RecordingPreserved, Rec!EvidenceKept
    <2>2. Rec!ReadyRecordingIsStored'
      <3>1. job[w].status = "ready" /\ Rec!Retained(s) => Stored(s)
        BY DEF RecInv, UploadSound, Ends
      <3>2. sess'[s].rec = "ready" /\ Rec!Retained(s) => Stored(s)
        BY <1>1, <1>4, <3>1 DEF RecInv, Rec!RecordingPreserved, Rec!ReadyRecordingIsStored,
           Ends, Stored
      <3> QED BY <1>4, <1>5, <1>8, <3>2 DEF RecInv, Rec!RecordingPreserved,
         Rec!ReadyRecordingIsStored, Stored
    <2>3. Rec!PurgeIsComplete'
      BY <1>5, <1>8 DEF RecInv, Rec!RecordingPreserved, Rec!PurgeIsComplete
    <2> QED BY <2>1, <2>2, <2>3 DEF Rec!RecordingPreserved
  <1> QED BY <1>6, <1>7, <1>9, <1>10, <1>11, <1>12, <1>13, <1>14, <1>15, <1>16 DEF RecInv

(* Both statements of FinishAuditSession are such steps.                   *)
LEMMA FinishStep ==
    ASSUME Rec!WorkerAssumption, RecInv, NEW w \in Rec!Worker, Rec!FinishAuditSession(w) \/ Rec!FinishEndedRecording(w)
    PROVE  RecInv'
  <1> DEFINE s == job[w].s
             keep == sess[s]
  <1>1. Attached(w) /\ job[w].pc \in {"finish", "finishEnded"}
    BY DEF Rec!FinishAuditSession, Rec!FinishEndedRecording, Rec!At, Attached
  <1>2. s \in Session /\ job[w] \in Rec!Jobs /\ (w \in Session => w = s)
    BY <1>1, Alone
  <1>3. /\ job \in [Rec!Worker -> Rec!Jobs] /\ errors \in 0..MaxErrors /\ sess[s] \in Rec!SessionRows
        /\ sess \in [Session -> Rec!SessionRows]
    BY <1>2 DEF RecInv, Rec!TypeOK
  <1>4. /\ {"drive", "finishEnded"} \subseteq JobPCs
        /\ job[w].status \in Rec!RecordingStatuses /\ job[w].outcome \in Rec!Outcomes
        /\ sess[s].state \in {"absent", "started", "ended", "deleted"}
        /\ sess[s].outcome \in Rec!Outcomes /\ sess[s].rec \in Rec!RecordingStatuses
    BY <1>2, <1>3, JobFields DEF JobPCs, Rec!SessionRows
  <1>5. UNCHANGED <<art, spool, drive, objects, produced, server, todo, cleaner>>
    BY DEF Rec!FinishAuditSession, Rec!FinishEndedRecording, Rec!files
  <1>6. UNCHANGED sess => sess' = [sess EXCEPT ![s] = sess[s]]
    BY <1>3
  <1>7. ASSUME UNCHANGED sess, NEW pc \in JobPCs, Rec!Goto(w, pc), UNCHANGED errors \/ Rec!Error,
               pc = "drive" \/ (pc = "finishEnded" /\ w \notin Session)
        PROVE  RecInv'
    <2>1. Steps(w, pc, job[w].status) /\ errors' \in 0..MaxErrors
      BY <1>3, <1>7, GotoSteps, ErrorType
    <2>2. Ends(w, pc, sess[s])
      BY <1>1, <1>5, <1>6, <1>7, <2>1 DEF Ends
    <2> QED BY <1>3, <2>2, EndsSound
  <1>8. ASSUME sess[s].state = "started",
               sess' = [sess EXCEPT ![s].state = "ended", ![s].outcome = job[w].outcome,
                                    ![s].rec = job[w].status],
               Rec!Goto(w, "drive"), UNCHANGED errors
        PROVE  RecInv'
    <2> DEFINE r == [sess[s] EXCEPT !.state = "ended", !.outcome = job[w].outcome,
                                    !.rec = job[w].status]
    <2>1. /\ r \in Rec!SessionRows /\ r.state = "ended" /\ r.rec = job[w].status
          /\ r.owner = sess[s].owner /\ r.cleanup = sess[s].cleanup
      BY <1>3, <1>4 DEF Rec!SessionRows
    <2>2. r.expired = sess[s].expired
      BY <1>3, <1>4 DEF Rec!SessionRows
    <2>3. sess' = [sess EXCEPT ![s] = r]
      BY <1>3, <1>8
    <2>4. Steps(w, "drive", job[w].status) /\ errors' \in 0..MaxErrors
      BY <1>3, <1>4, <1>8, GotoSteps
    <2> HIDE DEF r
    <2>5. Ends(w, "drive", r)
      BY <1>1, <1>5, <1>8, <2>1, <2>2, <2>3, <2>4 DEF Ends
    <2> QED BY <2>1, <2>5, EndsSound
  <1>9. ASSUME sess' = [sess EXCEPT ![s].rec = job[w].status], Rec!Goto(w, "drive"), UNCHANGED errors
        PROVE  RecInv'
    <2> DEFINE r == [sess[s] EXCEPT !.rec = job[w].status]
    <2>1. /\ r \in Rec!SessionRows /\ r.state = sess[s].state /\ r.rec = job[w].status
          /\ r.owner = sess[s].owner /\ r.cleanup = sess[s].cleanup
      BY <1>3, <1>4 DEF Rec!SessionRows
    <2>2. r.expired = sess[s].expired
      BY <1>3, <1>4 DEF Rec!SessionRows
    <2>3. sess' = [sess EXCEPT ![s] = r]
      BY <1>3, <1>9
    <2>4. Steps(w, "drive", job[w].status) /\ errors' \in 0..MaxErrors
      BY <1>3, <1>4, <1>9, GotoSteps
    <2> HIDE DEF r
    <2>5. Ends(w, "drive", r)
      BY <1>1, <1>5, <2>1, <2>2, <2>3, <2>4 DEF Ends
    <2> QED BY <2>1, <2>5, EndsSound
  <1>10. CASE Rec!FinishAuditSession(w)
    <2>1. w \in Session => sess[s].state = "started" /\ sess[s].owner = server.inc
      BY <1>1, <1>2 DEF RecInv, HandlerSound, Leased
    <2> QED BY <1>4, <1>7, <1>8, <1>10, <2>1 DEF Rec!FinishAuditSession
  <1>11. CASE Rec!FinishEndedRecording(w)
    BY <1>4, <1>7, <1>9, <1>11 DEF Rec!FinishEndedRecording
  <1> QED BY <1>10, <1>11

(* What a step that no worker takes may do to the rows and the object of   *)
(* p.                                                                      *)
QuietRow(p) ==
    /\ sess'[p].rec = sess[p].rec
    /\ \/ art'[p].status = art[p].status
       \/ ~Rec!Retained(p) /\ sess'[p].state = "deleted"
    /\ p \in objects /\ p \notin objects' => ~Rec!Retained(p) /\ ~Rec!Retained(p)'
    /\ sess'[p].state = "deleted" => art'[p].status = "absent" /\ p \notin objects'
    /\ \/ sess'[p] = sess[p]
       \/ /\ Ended(p)' /\ ~Attached(p)
          /\ Rec!Retained(p)' => Rec!Retained(p) \/ sess[p].state = "absent"
          /\ Rec!Retained(p) => Rec!Retained(p)' \/ art[p].status \notin {"pending", "uploading"}
          /\ sess'[p].state = "started" => sess'[p].cleanup = "ready"

(* A step of the cleaner, of time or of the lease recovery.                *)
Quiet ==
    /\ UNCHANGED <<spool, produced, job, todo>>
    /\ Rec!TypeOK' /\ DownIsEmpty' /\ CleanerSound'
    /\ server'.inc = server.inc \/ \A w \in Rec!Worker : job[w].pc = "idle"
    /\ objects' \subseteq objects
    /\ \A p \in Session : QuietRow(p)

(* Such a step keeps the invariant.                                        *)
LEMMA QuietSound ==
    ASSUME RecInv, Quiet
    PROVE  RecInv'
  <1>1. /\ UNCHANGED <<spool, produced, job, todo>> /\ objects' \subseteq objects
        /\ Rec!TypeOK' /\ DownIsEmpty' /\ CleanerSound'
        /\ server'.inc = server.inc \/ \A w \in Rec!Worker : job[w].pc = "idle"
    BY DEF Quiet
  <1>2. ASSUME NEW p \in Session
        PROVE  /\ QuietRow(p) /\ Untouched(p) /\ HandlerSound(p)
               /\ (Ended(p) => Ended(p)')
               /\ (Rec!Retained(p)' => Rec!Retained(p) \/ sess[p].state = "absent")
               /\ (Rec!Retained(p) /\ art[p].status \in {"pending", "uploading"} =>
                     Rec!Retained(p)' /\ art'[p].status = art[p].status)
    <2>1. QuietRow(p) /\ Untouched(p) /\ HandlerSound(p)
      BY DEF RecInv, Quiet
    <2>2. sess'[p] = sess[p] => (Ended(p)' <=> Ended(p)) /\ (Rec!Retained(p)' <=> Rec!Retained(p))
      BY DEF Ended, Rec!Retained
    <2>3. Rec!Retained(p)' => sess'[p].state # "deleted"
      BY DEF Rec!Retained
    <2> HIDE DEF Ended, Rec!Retained, Untouched, HandlerSound
    <2> QED BY <2>1, <2>2, <2>3 DEF QuietRow
  <1>3. ASSUME NEW p \in Session PROVE Untouched(p)'
    <2>1. QuietRow(p) /\ Untouched(p)
      BY <1>2
    <2>2. CASE sess'[p] = sess[p]
      BY <1>1, <2>1, <2>2 DEF QuietRow, Untouched
    <2>3. CASE sess'[p] # sess[p]
      BY <1>1, <2>1, <2>3 DEF QuietRow, Untouched, Ended
    <2> QED BY <2>2, <2>3
  <1>4. ASSUME NEW p \in Session PROVE HandlerSound(p)'
    <2>1. QuietRow(p) /\ HandlerSound(p) /\ p \in Rec!Worker
      BY <1>2 DEF Rec!Worker
    <2>2. CASE Attached(p)
      <3>1. server'.inc = server.inc /\ sess'[p] = sess[p] /\ Leased(p)
        BY <1>1, <2>1, <2>2 DEF Attached, QuietRow, HandlerSound
      <3>2. art'[p].status = art[p].status
        BY <2>1, <3>1 DEF QuietRow, Leased
      <3> QED BY <1>1, <2>1, <2>2, <3>1, <3>2 DEF HandlerSound, Attached, Leased
    <2>3. CASE ~Attached(p)
      BY <1>1, <2>1, <2>3 DEF HandlerSound, Attached
    <2> QED BY <2>2, <2>3
  <1>5. RecovererSound'
    <2>1. RecovererSound
      BY DEF RecInv
    <2> HIDE DEF Ended
    <2> QED BY <1>1, <1>2, <2>1 DEF RecovererSound
  <1>6. TodoSound'
    <2>1. TodoSound /\ \A i \in todo : i.s \in Session
      BY DEF RecInv, Rec!TypeOK, Rec!Items
    <2>2. ASSUME NEW i \in todo PROVE Ended(i.s)' /\ Rec!Retained(i.s)' /\ art'[i.s].status = "uploading"
      BY <1>2, <2>1 DEF TodoSound
    <2> QED BY <1>1, <2>1, <2>2 DEF TodoSound
  <1>7. ASSUME NEW v \in Rec!Worker PROVE UploadSound(v)'
    <2>0. UploadSound(v)
      BY DEF RecInv
    <2>1. CASE ~Attached(v)
      BY <1>1, <2>1 DEF UploadSound, Attached, Uploading
    <2>2. CASE Attached(v)
      <3>1. PICK s \in Session : s = job[v].s /\ sess[s].state # "absent"
        BY <2>2, Alone
      <3>2. job[v].pc \in Uploading => Rec!Retained(s)' /\ art'[s].status \in {"pending", "uploading"}
        BY <1>2, <2>0, <3>1 DEF UploadSound
      <3>3. Rec!Retained(s)' /\ s \in objects => s \in objects'
        BY <1>2, <3>1 DEF QuietRow
      <3>4. Rec!Retained(s)' /\ Stored(s) => Stored(s)'
        BY <1>2, <3>1, <3>3 DEF QuietRow, Stored, Rec!Retained
      <3>5. Rec!Retained(s)' => Rec!Retained(s)
        BY <1>2, <3>1
      <3> QED BY <1>1, <2>0, <3>1, <3>2, <3>3, <3>4, <3>5
           DEF UploadSound, Uploading, Rec!Retained, Stored
    <2> QED BY <2>1, <2>2
  <1>8. ObjectsHaveRows'
    <2>1. objects' \subseteq Session
      BY <1>1 DEF Rec!TypeOK
    <2>2. ASSUME NEW p \in objects' PROVE art'[p].status # "absent"
      <3>1. p \in Session /\ QuietRow(p) /\ art[p].status # "absent"
        BY <1>1, <1>2, <2>1, <2>2 DEF RecInv, ObjectsHaveRows
      <3> QED BY <2>2, <3>1 DEF QuietRow
    <2> QED BY <2>2 DEF ObjectsHaveRows
  <1>9. Rec!RecordingPreserved'
    <2>1. Rec!EvidenceKept'
      <3>1. ASSUME NEW p \in produced, Rec!Retained(p)' PROVE p \in spool \cup objects'
        <4>1. p \in Session /\ sess[p].state # "absent"
          BY <1>2, <3>1 DEF RecInv, Rec!TypeOK, Untouched
        <4>2. p \in spool \cup objects
          BY <1>2, <3>1, <4>1 DEF RecInv, Rec!RecordingPreserved, Rec!EvidenceKept
        <4> QED BY <1>2, <3>1, <4>1, <4>2 DEF QuietRow
      <3> QED BY <1>1, <3>1 DEF Rec!EvidenceKept
    <2>2. Rec!ReadyRecordingIsStored'
      <3>1. ASSUME NEW p \in Session, Rec!Retained(p)', sess'[p].rec = "ready"
            PROVE  art'[p].status = "ready" /\ p \in objects'
        <4>1. QuietRow(p) /\ sess[p].rec = "ready" /\ sess[p].state # "absent"
          BY <1>2, <3>1 DEF QuietRow, Untouched
        <4>2. art[p].status = "ready" /\ p \in objects
          BY <1>2, <3>1, <4>1 DEF RecInv, Rec!RecordingPreserved, Rec!ReadyRecordingIsStored
        <4> QED BY <3>1, <4>1, <4>2 DEF QuietRow, Rec!Retained
      <3> QED BY <3>1 DEF Rec!ReadyRecordingIsStored
    <2>3. Rec!PurgeIsComplete'
      BY <1>2 DEF Rec!PurgeIsComplete, QuietRow
    <2> QED BY <2>1, <2>2, <2>3 DEF Rec!RecordingPreserved
  <1> QED BY <1>1, <1>3, <1>4, <1>5, <1>6, <1>7, <1>8, <1>9 DEF RecInv

(* The cleaner's claims survive a step that leaves the claimed rows        *)
(* claimed.                                                                *)
LEMMA ClaimsKept ==
    ASSUME RecInv, UNCHANGED cleaner, objects' \subseteq objects,
           \A p \in Session : sess[p].state \in {"ended", "deleted"} /\ sess[p].cleanup # "ready" =>
                sess'[p].state \in {"ended", "deleted"} /\ sess'[p].cleanup # "ready"
    PROVE  CleanerSound'
  <1>1. CleanerSound /\ \A p \in cleaner.todo : p \in Session
    BY DEF RecInv, Rec!TypeOK
  <1> QED BY <1>1 DEF CleanerSound

(* The handler of a session that is over has let go of it.                 *)
LEMMA NotAttached ==
    ASSUME RecInv, NEW s \in Session, sess[s].state # "started" \/ sess[s].expired
    PROVE  ~Attached(s)
  BY DEF RecInv, HandlerSound, Leased

(* The ages: a lease expires, a claim or an artifact grows stale, the      *)
(* retention period of a session ends.                                     *)
LEMMA AgeStep ==
    ASSUME RecInv, NEW s \in Session, Rec!Age(s)
    PROVE  RecInv'
  <1>1. /\ sess \in [Session -> Rec!SessionRows] /\ art \in [Session -> Rec!ArtifactRows]
        /\ sess[s] \in Rec!SessionRows /\ art[s] \in Rec!ArtifactRows
    BY DEF RecInv, Rec!TypeOK
  <1>2. UNCHANGED <<spool, drive, objects, produced, server, job, todo, cleaner, errors>>
    BY DEF Rec!Age, Rec!LeaseExpires, Rec!ArtifactGrowsStale, Rec!CleanupClaimGrowsStale,
       Rec!RetentionEnds, Rec!files
  <1>3. DownIsEmpty'
    BY <1>2 DEF RecInv, DownIsEmpty
  <1>4. ASSUME NEW p \in Session, sess'[p] = sess[p], art'[p].status = art[p].status
        PROVE  QuietRow(p)
    BY <1>2, <1>4 DEF QuietRow, RecInv, Rec!RecordingPreserved, Rec!PurgeIsComplete
  <1>5. CASE Rec!ArtifactGrowsStale(s)
    <2> DEFINE a == [art[s] EXCEPT !.stale = TRUE]
    <2>1. a \in Rec!ArtifactRows /\ a.status = art[s].status
      BY <1>1 DEF Rec!ArtifactRows
    <2>2. art' = [art EXCEPT ![s] = a] /\ sess' = sess
      BY <1>1, <1>5 DEF Rec!ArtifactGrowsStale
    <2> HIDE DEF a
    <2>3. Rec!TypeOK'
      BY <1>1, <1>2, <2>1, <2>2 DEF RecInv, Rec!TypeOK
    <2>4. \A p \in Session : QuietRow(p)
      BY <1>1, <1>4, <2>1, <2>2
    <2>5. CleanerSound'
      BY <1>2, <2>2, ClaimsKept
    <2> QED BY <1>2, <1>3, <2>3, <2>4, <2>5, QuietSound DEF Quiet
  <1>6. ASSUME NEW r \in Rec!SessionRows, sess' = [sess EXCEPT ![s] = r], UNCHANGED art,
               r.rec = sess[s].rec, r.state = sess[s].state, r.cleanup = sess[s].cleanup,
               Ended(s)', ~Attached(s), sess[s].state \in {"started", "ended"}
        PROVE  RecInv'
    <2>1. sess'[s] = r /\ \A p \in Session \ {s} : sess'[p] = sess[p]
      BY <1>1, <1>6
    <2>2. Rec!TypeOK'
      BY <1>1, <1>2, <1>6 DEF RecInv, Rec!TypeOK
    <2>3. CleanerSound'
      BY <1>2, <1>6, <2>1, ClaimsKept
    <2>4. Rec!Retained(s)' <=> Rec!Retained(s)
      BY <1>6, <2>1 DEF Rec!Retained
    <2>5. Untouched(s)
      BY DEF RecInv
    <2>6. QuietRow(s)
      BY <1>2, <1>6, <2>1, <2>4, <2>5 DEF QuietRow, Untouched
    <2>7. \A p \in Session : QuietRow(p)
      BY <1>4, <1>6, <2>1, <2>6
    <2> QED BY <1>2, <1>3, <2>2, <2>3, <2>7, QuietSound DEF Quiet
  <1>7. CASE Rec!LeaseExpires(s)
    <2> DEFINE r == [sess[s] EXCEPT !.expired = TRUE]
    <2>1. /\ r \in Rec!SessionRows /\ r.rec = sess[s].rec /\ r.state = sess[s].state
          /\ r.cleanup = sess[s].cleanup
      BY <1>1 DEF Rec!SessionRows
    <2>2. r.expired = TRUE
      BY <1>1 DEF Rec!SessionRows
    <2>3. sess' = [sess EXCEPT ![s] = r] /\ UNCHANGED art /\ sess[s].state = "started"
      BY <1>1, <1>7 DEF Rec!LeaseExpires
    <2> HIDE DEF r
    <2>4. Ended(s)'
      BY <1>1, <2>1, <2>2, <2>3 DEF Ended
    <2>5. ~Attached(s)
      <3>1. SUFFICES ASSUME Attached(s) PROVE FALSE
        OBVIOUS
      <3>2. server.phase # "down" /\ sess[s].owner = server.inc /\ job[s].pc # "finishEnded"
        BY <3>1, Alone DEF RecInv, HandlerSound, Rec!Worker
      <3> QED BY <1>7, <3>1, <3>2 DEF Rec!LeaseExpires, Rec!Tracked, Rec!Running, Attached
    <2> QED BY <1>6, <2>1, <2>3, <2>4, <2>5
  <1>8. CASE Rec!CleanupClaimGrowsStale(s)
    <2> DEFINE r == [sess[s] EXCEPT !.claimStale = TRUE]
    <2>1. /\ r \in Rec!SessionRows /\ r.rec = sess[s].rec /\ r.state = sess[s].state
          /\ r.cleanup = sess[s].cleanup
      BY <1>1 DEF Rec!SessionRows
    <2>2. sess' = [sess EXCEPT ![s] = r] /\ UNCHANGED art /\ sess[s].state = "ended"
      BY <1>1, <1>8 DEF Rec!CleanupClaimGrowsStale
    <2> HIDE DEF r
    <2>3. Ended(s)' /\ ~Attached(s)
      BY <1>1, <2>1, <2>2, NotAttached DEF Ended
    <2> QED BY <1>6, <2>1, <2>2, <2>3
  <1>9. CASE Rec!RetentionEnds(s)
    <2> DEFINE r == [sess[s] EXCEPT !.old = TRUE]
    <2>1. /\ r \in Rec!SessionRows /\ r.rec = sess[s].rec /\ r.state = sess[s].state
          /\ r.cleanup = sess[s].cleanup
      BY <1>1 DEF Rec!SessionRows
    <2>2. sess' = [sess EXCEPT ![s] = r] /\ UNCHANGED art /\ sess[s].state = "ended"
      BY <1>1, <1>9 DEF Rec!RetentionEnds
    <2> HIDE DEF r
    <2>3. Ended(s)' /\ ~Attached(s)
      BY <1>1, <2>1, <2>2, NotAttached DEF Ended
    <2> QED BY <1>6, <2>1, <2>2, <2>3
  <1> QED BY <1>5, <1>7, <1>8, <1>9 DEF Rec!Age

(* A denied session is over at once and has no recording.                  *)
LEMMA RecordDeniedStep ==
    ASSUME RecInv, NEW s \in Session, Rec!RecordDenied(s)
    PROVE  RecInv'
  <1>1. /\ sess \in [Session -> Rec!SessionRows] /\ sess[s] \in Rec!SessionRows
        /\ sess[s].state = "absent"
    BY DEF RecInv, Rec!TypeOK, Rec!RecordDenied
  <1>2. UNCHANGED <<art, spool, drive, objects, produced, server, job, todo, cleaner, errors>>
    BY DEF Rec!RecordDenied, Rec!files
  <1> DEFINE r == [sess[s] EXCEPT !.state = "ended", !.outcome = "denied"]
  <1>3. r \in Rec!SessionRows /\ r.rec = sess[s].rec /\ r.state = "ended"
    BY <1>1 DEF Rec!SessionRows, Rec!Outcomes
  <1>4. sess' = [sess EXCEPT ![s] = r]
    BY <1>1 DEF Rec!RecordDenied
  <1> HIDE DEF r
  <1>5. sess'[s] = r /\ \A p \in Session \ {s} : sess'[p] = sess[p]
    BY <1>1, <1>4
  <1>6. Rec!TypeOK' /\ DownIsEmpty'
    BY <1>2, <1>3, <1>4 DEF RecInv, Rec!TypeOK, DownIsEmpty
  <1>7. CleanerSound'
    BY <1>1, <1>2, <1>5, ClaimsKept
  <1>8. QuietRow(s)
    <2>1. Ended(s)' /\ ~Attached(s) /\ ~Rec!Retained(s)
      BY <1>1, <1>3, <1>5, NotAttached DEF Ended, Rec!Retained
    <2> QED BY <1>1, <1>2, <1>3, <1>5, <2>1 DEF QuietRow
  <1>9. ASSUME NEW p \in Session \ {s} PROVE QuietRow(p)
    BY <1>2, <1>5 DEF QuietRow, RecInv, Rec!RecordingPreserved, Rec!PurgeIsComplete
  <1> QED BY <1>2, <1>6, <1>7, <1>8, <1>9, QuietSound DEF Quiet

(* Both recoveries of expired sessions: the ticker's and the restart's.    *)
LEMMA ExpiredEnd ==
    ASSUME RecInv, NEW C \in {"ready"} \cup {"keep"},
           sess' = [s \in Session |->
                      IF sess[s].state = "started" /\ sess[s].expired
                      THEN IF C = "ready"
                           THEN [sess[s] EXCEPT !.state = "ended", !.outcome = "terminated",
                                                !.cleanup = "ready"]
                           ELSE [sess[s] EXCEPT !.state = "ended", !.outcome = "terminated"]
                      ELSE sess[s]],
           UNCHANGED <<art, spool, drive, objects, produced, job, todo, cleaner, errors>>,
           server' \in [inc : 0..MaxCrashes, phase : {"down", "startup", "serving"}],
           UNCHANGED server \/ (server'.phase # "down" /\ \A w \in Rec!Worker : job[w].pc = "idle")
    PROVE  RecInv'
  <1>1. sess \in [Session -> Rec!SessionRows]
    BY DEF RecInv, Rec!TypeOK
  <1>2. ASSUME NEW p \in Session, sess[p].state = "started", sess[p].expired
        PROVE  /\ sess'[p] \in Rec!SessionRows /\ sess'[p].state = "ended"
               /\ sess'[p].rec = sess[p].rec /\ sess'[p].cleanup = "ready"
               /\ sess[p].cleanup = "ready"
    <2>1. sess[p] \in Rec!SessionRows /\ sess[p].cleanup = "ready"
      BY <1>1, <1>2 DEF RecInv, Untouched
    <2>2. \/ sess'[p] = [sess[p] EXCEPT !.state = "ended", !.outcome = "terminated", !.cleanup = "ready"]
          \/ sess'[p] = [sess[p] EXCEPT !.state = "ended", !.outcome = "terminated"]
      BY <1>2
    <2> QED BY <2>1, <2>2 DEF Rec!SessionRows, Rec!Outcomes, Rec!FinishOutcomes
  <1>3. ASSUME NEW p \in Session, ~(sess[p].state = "started" /\ sess[p].expired)
        PROVE  sess'[p] = sess[p] /\ sess'[p] \in Rec!SessionRows
    BY <1>1, <1>3
  <1>4. sess' \in [Session -> Rec!SessionRows]
    BY <1>2, <1>3
  <1>5. Rec!TypeOK'
    BY <1>4 DEF RecInv, Rec!TypeOK
  <1>6. DownIsEmpty'
    BY DEF RecInv, DownIsEmpty
  <1>7. CleanerSound'
    BY <1>3, ClaimsKept
  <1>8. ASSUME NEW p \in Session PROVE QuietRow(p)
    <2>1. CASE sess[p].state = "started" /\ sess[p].expired
      <3>1. Ended(p)' /\ ~Attached(p) /\ Rec!Retained(p) /\ Rec!Retained(p)'
        BY <1>2, <2>1, NotAttached DEF Ended, Rec!Retained
      <3> QED BY <1>2, <2>1, <3>1 DEF QuietRow
    <2>2. CASE ~(sess[p].state = "started" /\ sess[p].expired)
      BY <1>3, <2>2 DEF QuietRow, RecInv, Rec!RecordingPreserved, Rec!PurgeIsComplete
    <2> QED BY <2>1, <2>2
  <1> QED BY <1>5, <1>6, <1>7, <1>8, QuietSound DEF Quiet

(* RecoverExpiredAuditSessions and Restart are its two cases.              *)
LEMMA ExpiryStep ==
    ASSUME Rec!WorkerAssumption, RecInv, Rec!RecoverExpiredAuditSessions \/ Rec!Restart
    PROVE  RecInv'
  <1>1. CASE Rec!RecoverExpiredAuditSessions
    <2>1. server' \in [inc : 0..MaxCrashes, phase : {"down", "startup", "serving"}]
      BY <1>1 DEF RecInv, Rec!TypeOK, Rec!RecoverExpiredAuditSessions
    <2> QED BY <1>1, <2>1, ExpiredEnd DEF Rec!RecoverExpiredAuditSessions, Rec!files
  <1>2. CASE Rec!Restart
    <2>1. /\ server.inc < MaxCrashes /\ \A w \in Rec!Worker : job[w].pc = "idle"
      BY <1>2 DEF RecInv, DownIsEmpty, Rec!Restart
    <2>2. server.inc \in 0..MaxCrashes /\ server' = [inc |-> server.inc + 1, phase |-> "startup"]
      BY <1>2 DEF RecInv, Rec!TypeOK, Rec!Restart
    <2>3. server.inc + 1 \in 0..MaxCrashes
      BY <2>1, <2>2 DEF Rec!WorkerAssumption
    <2>4. /\ server' \in [inc : 0..MaxCrashes, phase : {"down", "startup", "serving"}]
          /\ server'.phase # "down"
      BY <2>2, <2>3
    <2>5. sess' = [s \in Session |->
                      IF sess[s].state = "started" /\ sess[s].expired
                      THEN IF "keep" = "ready"
                           THEN [sess[s] EXCEPT !.state = "ended", !.outcome = "terminated",
                                                !.cleanup = "ready"]
                           ELSE [sess[s] EXCEPT !.state = "ended", !.outcome = "terminated"]
                      ELSE sess[s]]
      BY <1>2 DEF Rec!Restart
    <2>6. UNCHANGED <<art, spool, drive, objects, produced, job, todo, cleaner, errors>>
      BY <1>2 DEF Rec!Restart, Rec!files
    <2> QED BY <2>1, <2>4, <2>5, <2>6, ExpiredEnd
  <1> QED BY <1>1, <1>2

(* The cleaner's steps: claim, list, delete the object, delete the rows.   *)
LEMMA CleanStep ==
    ASSUME Rec!WorkerAssumption, RecInv, Rec!Clean
    PROVE  RecInv'
  <1>1. /\ sess \in [Session -> Rec!SessionRows] /\ art \in [Session -> Rec!ArtifactRows]
        /\ cleaner.todo \subseteq Session /\ CleanerSound /\ errors \in 0..MaxErrors
        /\ cleaner \in [pc : {"idle", "list", "object", "row", "markFailed"},
                        todo : SUBSET Session, s : Session \cup {NoSession}]
    BY DEF RecInv, Rec!TypeOK
  <1>2. UNCHANGED <<spool, drive, produced, server, job, todo>> /\ server.phase # "down"
    BY DEF Rec!Clean, Rec!ClaimAuditSessionsForCleanup, Rec!CleanNext,
       Rec!ListAuditArtifactsForCleanup,
           Rec!DeleteObject, Rec!MarkAuditSessionCleanupFailed, Rec!DeleteClaimedAuditSession,
           Rec!files, Rec!rows, Rec!Running
  <1>3. DownIsEmpty'
    BY <1>2 DEF DownIsEmpty
  <1>4. ASSUME NEW p \in Session, sess'[p] = sess[p], art'[p] = art[p],
               (p \in objects' <=> p \in objects) \/ (~Rec!Retained(p) /\ p \notin objects')
        PROVE  QuietRow(p)
    <2>1. Rec!Retained(p)' <=> Rec!Retained(p)
      BY <1>4 DEF Rec!Retained
    <2> QED BY <1>4, <2>1 DEF QuietRow, RecInv, Rec!RecordingPreserved, Rec!PurgeIsComplete
  <1>5. ASSUME errors' \in 0..MaxErrors, objects' \subseteq objects,
               sess' \in [Session -> Rec!SessionRows], art' \in [Session -> Rec!ArtifactRows],
               NEW pc \in {"idle", "list", "object", "row", "markFailed"},
               NEW td \in SUBSET Session, NEW s \in Session \cup {NoSession},
               cleaner' = [pc |-> pc, todo |-> td, s |-> s],
               \A p \in td : sess'[p].state \in {"ended", "deleted"} /\ sess'[p].cleanup # "ready",
               pc # "idle" => /\ s \in Session /\ sess'[s].state \in {"ended", "deleted"}
                              /\ sess'[s].cleanup # "ready",
               pc = "row" => s \notin objects',
               \A p \in Session : QuietRow(p)
        PROVE  RecInv'
    <2>1. cleaner'.pc = pc /\ cleaner'.todo = td /\ cleaner'.s = s
      BY <1>5
    <2>2. cleaner' \in [pc : {"idle", "list", "object", "row", "markFailed"},
                        todo : SUBSET Session, s : Session \cup {NoSession}]
      BY <1>5
    <2>3. objects' \subseteq Session
      BY <1>5 DEF RecInv, Rec!TypeOK
    <2>4. Rec!TypeOK'
      BY <1>2, <1>5, <2>2, <2>3 DEF RecInv, Rec!TypeOK
    <2>5. CleanerSound'
      BY <1>5, <2>1 DEF CleanerSound
    <2> QED BY <1>2, <1>3, <1>5, <2>4, <2>5, QuietSound DEF Quiet
  <1>6. CASE Rec!ClaimAuditSessionsForCleanup
    <2>1. PICK claimed \in SUBSET {s \in Session : Rec!CleanupEligible(s)} :
             /\ sess' = [s \in Session |-> IF s \in claimed
                                           THEN [sess[s] EXCEPT !.cleanup = "pending",
                                                                !.claimStale = FALSE]
                                           ELSE sess[s]]
             /\ cleaner' = [Rec!IdleCleaner EXCEPT !.todo = claimed]
      BY <1>6 DEF Rec!ClaimAuditSessionsForCleanup
    <2>2. UNCHANGED <<art, objects, errors>>
      BY <1>6 DEF Rec!ClaimAuditSessionsForCleanup, Rec!files
    <2>3. cleaner' = [pc |-> "idle", todo |-> claimed, s |-> NoSession]
      BY <2>1 DEF Rec!IdleCleaner
    <2>4. ASSUME NEW p \in claimed
          PROVE  /\ sess'[p] \in Rec!SessionRows /\ sess'[p].state = "ended" /\ sess[p].state = "ended"
                 /\ sess'[p].cleanup = "pending" /\ sess'[p].rec = sess[p].rec
                 /\ art[p].status \in {"absent", "ready", "unavailable"} /\ p \in Session
      <3>1. p \in Session /\ Rec!CleanupEligible(p) /\ sess[p] \in Rec!SessionRows
        BY <1>1
      <3>2. sess'[p] = [sess[p] EXCEPT !.cleanup = "pending", !.claimStale = FALSE]
        BY <2>1, <3>1
      <3> QED BY <3>1, <3>2 DEF Rec!SessionRows, Rec!CleanupEligible,
         Rec!WithoutRecoverableRDPArtifact
    <2>5. ASSUME NEW p \in Session, p \notin claimed PROVE sess'[p] = sess[p] /\ sess'[p] \in Rec!SessionRows
      BY <1>1, <2>1, <2>5
    <2>6. sess' \in [Session -> Rec!SessionRows]
      BY <2>1, <2>4, <2>5
    <2>7. ASSUME NEW p \in Session PROVE QuietRow(p)
      <3>1. CASE p \in claimed
        <4>1. Ended(p)' /\ ~Attached(p) /\ ~Rec!Retained(p)'
          BY <2>4, <3>1, NotAttached DEF Ended, Rec!Retained
        <4> QED BY <2>2, <2>4, <3>1, <4>1 DEF QuietRow
      <3>2. CASE p \notin claimed
        BY <1>4, <2>2, <2>5, <3>2
      <3> QED BY <3>1, <3>2
    <2> QED BY <1>1, <1>5, <2>2, <2>3, <2>4, <2>6, <2>7
  <1>7. CASE Rec!CleanNext
    <2>1. PICK s \in cleaner.todo : cleaner' = [pc |-> "list", todo |-> cleaner.todo \ {s}, s |-> s]
      BY <1>7 DEF Rec!CleanNext
    <2>2. UNCHANGED <<sess, art, objects, errors>>
      BY <1>7 DEF Rec!CleanNext, Rec!files, Rec!rows
    <2>3. \A p \in Session : QuietRow(p)
      BY <1>4, <2>2
    <2>4. cleaner.todo \ {s} \in SUBSET Session /\ s \in Session
      BY <1>1
    <2>5. \A p \in cleaner.todo : sess'[p].state \in {"ended", "deleted"} /\ sess'[p].cleanup # "ready"
      BY <1>1, <2>2 DEF CleanerSound
    <2> QED BY <1>1, <1>5, <2>1, <2>2, <2>3, <2>4, <2>5
  <1>8. \A p \in cleaner.todo : sess[p].state \in {"ended", "deleted"} /\ sess[p].cleanup # "ready"
    BY <1>1 DEF CleanerSound
  <1>9. cleaner.pc # "idle" => /\ cleaner.s \in Session
                               /\ sess[cleaner.s].state \in {"ended", "deleted"}
                               /\ sess[cleaner.s].cleanup # "ready"
    BY <1>1 DEF CleanerSound
  <1>10. /\ Rec!CleanerNext => cleaner' = [pc |-> "idle", todo |-> cleaner.todo, s |-> NoSession]
         /\ \A pc : cleaner' = [cleaner EXCEPT !.pc = pc] =>
               cleaner' = [pc |-> pc, todo |-> cleaner.todo, s |-> cleaner.s]
    BY <1>1 DEF Rec!CleanerNext
  <1>11. CASE Rec!ListAuditArtifactsForCleanup
    <2>1. PICK pc \in {"row", "object", "markFailed"} :
             /\ cleaner' = [cleaner EXCEPT !.pc = pc]
             /\ pc = "row" => art[cleaner.s].status = "absent"
      BY <1>11 DEF Rec!ListAuditArtifactsForCleanup
    <2>2. UNCHANGED <<sess, art, objects>> /\ errors' \in 0..MaxErrors /\ cleaner.pc = "list"
      BY <1>1, <1>11, ErrorType DEF Rec!ListAuditArtifactsForCleanup, Rec!files, Rec!rows
    <2>3. \A p \in Session : QuietRow(p)
      BY <1>4, <2>2
    <2>4. pc = "row" => cleaner.s \notin objects
      BY <2>1 DEF RecInv, ObjectsHaveRows
    <2>5. cleaner' = [pc |-> pc, todo |-> cleaner.todo, s |-> cleaner.s]
      BY <1>10, <2>1
    <2> QED BY <1>1, <1>5, <1>8, <1>9, <2>1, <2>2, <2>3, <2>4, <2>5
  <1>12. CASE Rec!DeleteObject
    <2>1. PICK pc \in {"row", "markFailed"} :
             /\ cleaner' = [cleaner EXCEPT !.pc = pc]
             /\ objects' \in {objects, objects \ {cleaner.s}}
             /\ pc = "row" => cleaner.s \notin objects'
      BY <1>12 DEF Rec!DeleteObject
    <2>2. UNCHANGED <<sess, art>> /\ errors' \in 0..MaxErrors /\ cleaner.pc = "object"
      BY <1>1, <1>12, ErrorType DEF Rec!DeleteObject, Rec!rows
    <2>3. \A p \in Session : QuietRow(p)
      BY <1>4, <1>9, <2>1, <2>2 DEF Rec!Retained
    <2>4. cleaner' = [pc |-> pc, todo |-> cleaner.todo, s |-> cleaner.s]
      BY <1>10, <2>1
    <2> QED BY <1>1, <1>5, <1>8, <1>9, <2>1, <2>2, <2>3, <2>4
  <1>13. CASE Rec!MarkAuditSessionCleanupFailed
    <2>0. PICK s \in Session : s = cleaner.s
      BY <1>9, <1>13 DEF Rec!MarkAuditSessionCleanupFailed
    <2> DEFINE r == [sess[s] EXCEPT !.cleanup = "failed", !.claimStale = FALSE]
    <2>1. UNCHANGED <<art, objects>> /\ errors' \in 0..MaxErrors /\ cleaner.pc = "markFailed"
      BY <1>1, <1>13, ErrorType DEF Rec!MarkAuditSessionCleanupFailed, Rec!files
    <2>2. cleaner' = [pc |-> "idle", todo |-> cleaner.todo, s |-> NoSession]
      BY <1>10, <1>13 DEF Rec!MarkAuditSessionCleanupFailed
    <2>3. CASE UNCHANGED sess
      <3>1. \A p \in Session : QuietRow(p)
        BY <1>4, <2>1, <2>3
      <3> QED BY <1>1, <1>5, <1>8, <2>1, <2>2, <2>3, <3>1
    <2>4. CASE Rec!ClaimHeld(s) /\ sess' = [sess EXCEPT ![s].cleanup = "failed", ![s].claimStale = FALSE]
      <3>1. s \in Session /\ sess[s] \in Rec!SessionRows /\ sess[s].state = "ended" /\ sess[s].cleanup = "pending"
        BY <1>1, <1>9, <2>1, <2>4 DEF Rec!ClaimHeld
      <3>2. r \in Rec!SessionRows /\ r.state = "ended" /\ r.cleanup = "failed" /\ r.rec = sess[s].rec
        BY <3>1 DEF Rec!SessionRows
      <3>3. sess' = [sess EXCEPT ![s] = r]
        BY <1>1, <2>4, <3>1
      <3> HIDE DEF r
      <3>4. sess'[s] = r /\ \A p \in Session \ {s} : sess'[p] = sess[p]
        BY <1>1, <3>1, <3>3
      <3>5. sess' \in [Session -> Rec!SessionRows]
        BY <1>1, <3>2, <3>3
      <3>6. Ended(s)' /\ ~Attached(s) /\ ~Rec!Retained(s)' /\ ~Rec!Retained(s)
        BY <3>1, <3>2, <3>4, NotAttached DEF Ended, Rec!Retained
      <3>7. \A p \in Session : QuietRow(p)
        BY <1>4, <2>1, <3>1, <3>2, <3>4, <3>6 DEF QuietRow
      <3>8. \A p \in cleaner.todo : sess'[p].state \in {"ended", "deleted"} /\ sess'[p].cleanup # "ready"
        BY <1>1, <1>8, <3>2, <3>4
      <3> QED BY <1>1, <1>5, <2>1, <2>2, <3>5, <3>7, <3>8
    <2> QED BY <1>13, <2>0, <2>3, <2>4 DEF Rec!MarkAuditSessionCleanupFailed
  <1>14. CASE Rec!DeleteClaimedAuditSession
    <2>1. PICK s \in Session : s = cleaner.s /\ s \notin objects
      BY <1>1, <1>14 DEF Rec!DeleteClaimedAuditSession, CleanerSound
    <2>2. UNCHANGED objects /\ errors' \in 0..MaxErrors
      BY <1>1, <1>14, ErrorType DEF Rec!DeleteClaimedAuditSession, Rec!files
    <2>3. cleaner' = [pc |-> "idle", todo |-> cleaner.todo, s |-> NoSession]
      BY <1>10, <1>14 DEF Rec!DeleteClaimedAuditSession
    <2>4. CASE UNCHANGED Rec!rows
      <3>1. \A p \in Session : QuietRow(p)
        BY <1>4, <2>2, <2>4 DEF Rec!rows
      <3> QED BY <1>1, <1>5, <1>8, <2>2, <2>3, <2>4, <3>1 DEF Rec!rows
    <2>5. CASE /\ Rec!ClaimHeld(s) /\ sess' = [sess EXCEPT ![s].state = "deleted"]
               /\ art' = [art EXCEPT ![s] = [status |-> "absent", stale |-> FALSE]]
      <3> DEFINE r == [sess[s] EXCEPT !.state = "deleted"]
      <3>1. sess[s] \in Rec!SessionRows /\ sess[s].state = "ended" /\ sess[s].cleanup = "pending"
        BY <1>1, <2>5 DEF Rec!ClaimHeld
      <3>2. r \in Rec!SessionRows /\ r.state = "deleted" /\ r.cleanup = "pending" /\ r.rec = sess[s].rec
        BY <3>1 DEF Rec!SessionRows
      <3>3. sess' = [sess EXCEPT ![s] = r]
        BY <1>1, <2>5
      <3> HIDE DEF r
      <3>4. sess'[s] = r /\ \A p \in Session \ {s} : sess'[p] = sess[p]
        BY <1>1, <3>3
      <3>5. sess' \in [Session -> Rec!SessionRows]
        BY <1>1, <3>2, <3>3
      <3>6. /\ art'[s].status = "absent" /\ \A p \in Session \ {s} : art'[p] = art[p]
            /\ art' \in [Session -> Rec!ArtifactRows]
        BY <1>1, <2>5 DEF Rec!ArtifactRows, Rec!ArtifactStatuses
      <3>7. Ended(s)' /\ ~Attached(s) /\ ~Rec!Retained(s)' /\ ~Rec!Retained(s)
        BY <3>1, <3>2, <3>4, NotAttached DEF Ended, Rec!Retained
      <3>8. QuietRow(s)
        BY <2>1, <2>2, <3>2, <3>4, <3>6, <3>7 DEF QuietRow
      <3>9. \A p \in Session : QuietRow(p)
        BY <1>4, <2>2, <3>4, <3>6, <3>8
      <3>10. \A p \in cleaner.todo : sess'[p].state \in {"ended", "deleted"} /\ sess'[p].cleanup # "ready"
        BY <1>1, <1>8, <3>2, <3>4
      <3> QED BY <1>1, <1>5, <2>2, <2>3, <3>5, <3>6, <3>9, <3>10
    <2> QED BY <1>14, <2>1, <2>4, <2>5 DEF Rec!DeleteClaimedAuditSession, Rec!rows
  <1> QED BY <1>6, <1>7, <1>11, <1>12, <1>13, <1>14 DEF Rec!Clean

(* Jobs and passes may only end: CleanupDriveSpool, EndRecoveryPass,       *)
(* Crash.                                                                  *)
JobsEnd ==
    /\ UNCHANGED <<sess, art, spool, objects, produced>>
    /\ Rec!TypeOK' /\ DownIsEmpty'
    /\ server'.inc = server.inc /\ todo' \subseteq todo
    /\ cleaner' = cleaner \/ cleaner' = Rec!IdleCleaner
    /\ \A w \in Rec!Worker : job'[w] = job[w] \/ job'[w] = Rec!IdleJob

(* Such a step keeps the invariant.                                        *)
LEMMA JobsEndSound ==
    ASSUME RecInv, JobsEnd
    PROVE  RecInv'
  <1>1. /\ UNCHANGED <<sess, art, spool, objects, produced>> /\ Rec!TypeOK' /\ DownIsEmpty'
        /\ server'.inc = server.inc /\ todo' \subseteq todo
        /\ cleaner' = cleaner \/ cleaner' = Rec!IdleCleaner
        /\ \A w \in Rec!Worker : job'[w] = job[w] \/ job'[w] = Rec!IdleJob
    BY DEF JobsEnd
  <1>2. Rec!IdleJob.pc = "idle" /\ Rec!IdleCleaner.pc = "idle" /\ Rec!IdleCleaner.todo = {}
    BY DEF Rec!IdleJob, Rec!IdleCleaner
  <1>3. \A p \in Session : Untouched(p)'
    BY <1>1 DEF RecInv, Untouched
  <1>4. ASSUME NEW p \in Session PROVE HandlerSound(p)'
    <2>1. HandlerSound(p) /\ (job'[p] = job[p] \/ job'[p] = Rec!IdleJob)
      BY <1>1 DEF RecInv, Rec!Worker
    <2> QED BY <1>1, <1>2, <2>1 DEF HandlerSound, Attached, Leased
  <1>5. RecovererSound'
    <2>1. RecovererSound /\ (job'[Recoverer] = job[Recoverer] \/ job'[Recoverer] = Rec!IdleJob)
      BY <1>1 DEF RecInv, Rec!Worker
    <2> QED BY <1>1, <1>2, <2>1 DEF RecovererSound, Ended
  <1>6. TodoSound'
    BY <1>1 DEF RecInv, TodoSound, Ended, Rec!Retained
  <1>7. ASSUME NEW v \in Rec!Worker PROVE UploadSound(v)'
    <2>1. UploadSound(v) /\ (job'[v] = job[v] \/ job'[v] = Rec!IdleJob)
      BY <1>1 DEF RecInv
    <2> QED BY <1>1, <1>2, <2>1 DEF UploadSound, Stored, Rec!Retained, Uploading
  <1>8. CleanerSound'
    BY <1>1, <1>2 DEF RecInv, CleanerSound
  <1>9. ObjectsHaveRows' /\ Rec!RecordingPreserved'
    BY <1>1 DEF RecInv, ObjectsHaveRows, Rec!RecordingPreserved, Rec!EvidenceKept,
       Rec!ReadyRecordingIsStored,
                Rec!PurgeIsComplete, Rec!Retained
  <1> QED BY <1>1, <1>3, <1>4, <1>5, <1>6, <1>7, <1>8, <1>9 DEF RecInv

(* The three actions are such steps.                                       *)
LEMMA EndStep ==
    ASSUME Rec!WorkerAssumption, RecInv, (\E w \in Rec!Worker : Rec!CleanupDriveSpool(w)) \/ Rec!EndRecoveryPass \/ Rec!Crash
    PROVE  RecInv'
  <1>1. Rec!IdleJob \in Rec!Jobs
    BY DEF Rec!IdleJob, Rec!Jobs, Rec!Outcomes, Rec!RecordingStatuses
  <1>2. Rec!IdleCleaner \in [pc : {"idle", "list", "object", "row", "markFailed"}, todo : SUBSET Session,
                         s : Session \cup {NoSession}]
    BY DEF Rec!IdleCleaner
  <1>3. /\ server \in [inc : 0..MaxCrashes, phase : {"down", "startup", "serving"}]
        /\ errors \in 0..MaxErrors /\ job \in [Rec!Worker -> Rec!Jobs]
    BY DEF RecInv, Rec!TypeOK
  <1>4. CASE \E w \in Rec!Worker : Rec!CleanupDriveSpool(w)
    <2>1. PICK w \in Rec!Worker : Rec!CleanupDriveSpool(w)
      BY <1>4
    <2>2. /\ UNCHANGED <<sess, art, spool, objects, produced, server, todo, cleaner, errors>>
          /\ job' = [job EXCEPT ![w] = Rec!IdleJob] /\ drive' \subseteq drive /\ server.phase # "down"
      BY <2>1 DEF Rec!CleanupDriveSpool, Rec!At, Rec!Running, Rec!rows
    <2>3. Rec!TypeOK' /\ DownIsEmpty'
      BY <1>1, <1>3, <2>2 DEF RecInv, Rec!TypeOK, DownIsEmpty
    <2>4. \A v \in Rec!Worker : job'[v] = job[v] \/ job'[v] = Rec!IdleJob
      BY <1>3, <2>2
    <2> QED BY <2>2, <2>3, <2>4, JobsEndSound DEF JobsEnd
  <1>5. CASE Rec!EndRecoveryPass
    <2>1. /\ UNCHANGED <<sess, art, spool, drive, objects, produced, job, todo, cleaner>>
          /\ server' = [server EXCEPT !.phase = "serving"] /\ errors' \in 0..MaxErrors
      BY <1>3, <1>5, ErrorType DEF Rec!EndRecoveryPass, Rec!rows, Rec!files
    <2>2. /\ server' \in [inc : 0..MaxCrashes, phase : {"down", "startup", "serving"}]
          /\ server'.inc = server.inc /\ server'.phase = "serving"
      BY <1>3, <2>1
    <2>3. Rec!TypeOK' /\ DownIsEmpty'
      BY <2>1, <2>2 DEF RecInv, Rec!TypeOK, DownIsEmpty
    <2> QED BY <2>1, <2>2, <2>3, JobsEndSound DEF JobsEnd
  <1>6. CASE Rec!Crash
    <2>1. /\ UNCHANGED <<sess, art, spool, drive, objects, produced, errors>>
          /\ server' = [server EXCEPT !.phase = "down"] /\ server.inc < MaxCrashes
          /\ job' = [w \in Rec!Worker |-> Rec!IdleJob] /\ todo' = {} /\ cleaner' = Rec!IdleCleaner
      BY <1>6 DEF Rec!Crash, Rec!rows, Rec!files
    <2>2. /\ server' \in [inc : 0..MaxCrashes, phase : {"down", "startup", "serving"}]
          /\ server'.inc = server.inc
      BY <1>3, <2>1
    <2>3. Rec!TypeOK'
      BY <1>1, <1>2, <2>1, <2>2 DEF RecInv, Rec!TypeOK
    <2>4. DownIsEmpty'
      BY <2>1, <2>2 DEF DownIsEmpty, Rec!IdleJob
    <2> QED BY <2>1, <2>2, <2>3, <2>4, JobsEndSound DEF JobsEnd
  <1> QED BY <1>4, <1>5, <1>6

(* A step of the handler of s before it finishes, and of guacd for it.     *)
Handles(s) ==
    /\ UNCHANGED <<objects, server, todo, cleaner>> /\ server.phase # "down" /\ Rec!TypeOK'
    /\ \A p \in Session \ {s} : sess'[p] = sess[p] /\ art'[p] = art[p]
    /\ \A v \in Rec!Worker \ {s} : job'[v] = job[v]
    /\ sess'[s].state = "started" /\ sess'[s].cleanup = "ready" /\ ~sess'[s].expired
    /\ job'[s].pc \in {"idle", "begun", "active"}
    /\ job'[s].pc # "idle" =>
          /\ job'[s].s = s /\ sess'[s].owner = server.inc
          /\ job'[s].status # "none" => job'[s].status = "pending" /\ art'[s].status = "pending"
    /\ \/ /\ sess[s].state = "absent" /\ sess'[s].rec # "ready" /\ UNCHANGED <<spool, produced>>
       \/ /\ Leased(s) /\ sess[s].cleanup = "ready"
          /\ sess'[s].rec = sess[s].rec /\ art'[s] = art[s]
          /\ \/ UNCHANGED <<spool, produced>>
             \/ spool' = spool \cup {s} /\ produced' = produced \cup {s}

(* Such a step keeps the invariant.                                        *)
LEMMA HandlesSound ==
    ASSUME Rec!WorkerAssumption, RecInv, NEW s \in Session, Handles(s)
    PROVE  RecInv'
  <1>1. /\ UNCHANGED <<objects, server, todo, cleaner>> /\ server.phase # "down" /\ Rec!TypeOK'
        /\ \A p \in Session \ {s} : sess'[p] = sess[p] /\ art'[p] = art[p]
        /\ \A v \in Rec!Worker \ {s} : job'[v] = job[v]
        /\ sess'[s].state = "started" /\ sess'[s].cleanup = "ready" /\ ~sess'[s].expired
        /\ job'[s].pc \in {"idle", "begun", "active"}
        /\ job'[s].pc # "idle" =>
              /\ job'[s].s = s /\ sess'[s].owner = server.inc
              /\ job'[s].status # "none" => job'[s].status = "pending" /\ art'[s].status = "pending"
        /\ sess[s].state = "absent" \/ Leased(s)
    BY DEF Handles
  <1>2. ~Ended(s) /\ sess[s].state \notin {"ended", "deleted"}
    BY <1>1 DEF Ended, Leased
  <1>3. DownIsEmpty'
    BY <1>1 DEF DownIsEmpty
  <1>4. ASSUME NEW p \in Session PROVE Untouched(p)'
    <2>1. CASE p = s
      BY <1>1, <2>1 DEF Untouched
    <2>2. CASE p # s
      <3>1. Untouched(p) /\ (p \in produced' <=> p \in produced)
        BY <2>2 DEF RecInv, Handles
      <3> QED BY <1>1, <2>2, <3>1 DEF Untouched
    <2> QED BY <2>1, <2>2
  <1>5. ASSUME NEW p \in Session PROVE HandlerSound(p)'
    <2>1. CASE p = s
      BY <1>1, <2>1 DEF HandlerSound, Attached, Leased
    <2>2. CASE p # s
      BY <1>1, <2>2 DEF RecInv, HandlerSound, Attached, Leased, Rec!Worker
    <2> QED BY <2>1, <2>2
  <1>6. RecovererSound'
    <2>1. RecovererSound /\ job'[Recoverer] = job[Recoverer]
      BY <1>1 DEF RecInv, Rec!Worker, Rec!WorkerAssumption
    <2> QED BY <1>1, <1>2, <2>1 DEF RecovererSound, Ended
  <1>7. TodoSound'
    <2>1. \A i \in todo : i.s \in Session /\ i.s # s
      BY <1>2 DEF RecInv, Rec!TypeOK, Rec!Items, TodoSound
    <2> QED BY <1>1, <2>1 DEF RecInv, TodoSound, Ended, Rec!Retained
  <1>8. ASSUME NEW v \in Rec!Worker PROVE UploadSound(v)'
    <2>1. CASE v = s
      BY <1>1, <2>1 DEF UploadSound, Uploading
    <2>2. CASE v # s /\ ~Attached(v)
      BY <1>1, <2>2 DEF UploadSound, Attached, Uploading
    <2>3. CASE v # s /\ Attached(v)
      <3>1. job[v].s \in Session /\ job[v].s # s /\ UploadSound(v)
        BY <1>2, <2>3, Alone DEF RecInv, RecovererSound, Rec!Worker, Attached
      <3> QED BY <1>1, <2>3, <3>1 DEF UploadSound, Rec!Retained, Stored
    <2> QED BY <2>1, <2>2, <2>3
  <1>9. CleanerSound'
    <2>1. \A p \in cleaner.todo : p \in Session /\ p # s
      BY <1>2 DEF RecInv, Rec!TypeOK, CleanerSound
    <2> QED BY <1>1, <1>2, <2>1 DEF RecInv, CleanerSound
  <1>10. ObjectsHaveRows'
    <2>1. \A p \in objects : p \in Session /\ (p = s => sess[s].state # "absent")
      BY DEF RecInv, Rec!TypeOK, Untouched, ObjectsHaveRows
    <2>2. sess[s].state # "absent" => art'[s] = art[s]
      BY DEF Handles
    <2> QED BY <1>1, <2>1, <2>2 DEF RecInv, ObjectsHaveRows
  <1>11. Rec!RecordingPreserved'
    <2>0. Untouched(s)
      BY DEF RecInv
    <2>1. Rec!EvidenceKept'
      <3>1. ASSUME NEW p \in produced', Rec!Retained(p)' PROVE p \in spool' \cup objects
        <4>1. CASE p \notin produced
          BY <3>1, <4>1 DEF Handles
        <4>2. CASE p \in produced
          <5>1. p \in Session /\ (p # s => Rec!Retained(p)) /\ (p = s => sess[s].state # "absent")
            BY <1>1, <2>0, <3>1, <4>2 DEF RecInv, Rec!TypeOK, Rec!Retained, Untouched
          <5>2. p = s => Rec!Retained(p)
            BY <5>1 DEF Handles, Leased, Rec!Retained
          <5> QED BY <4>2, <5>1, <5>2 DEF RecInv, Rec!RecordingPreserved, Rec!EvidenceKept,
             Handles
        <4> QED BY <4>1, <4>2
      <3> QED BY <1>1, <3>1 DEF Rec!EvidenceKept
    <2>2. Rec!ReadyRecordingIsStored'
      <3>1. ASSUME NEW p \in Session, Rec!Retained(p)', sess'[p].rec = "ready"
            PROVE  art'[p].status = "ready" /\ p \in objects
        <4>1. CASE p = s
          <5>1. Rec!Retained(s) /\ sess[s].rec = "ready" /\ art'[s] = art[s]
            BY <3>1, <4>1 DEF Handles, Leased, Rec!Retained
          <5> QED BY <4>1, <5>1 DEF RecInv, Rec!RecordingPreserved, Rec!ReadyRecordingIsStored
        <4>2. CASE p # s
          BY <1>1, <3>1, <4>2 DEF RecInv, Rec!RecordingPreserved, Rec!ReadyRecordingIsStored,
             Rec!Retained
        <4> QED BY <4>1, <4>2
      <3> QED BY <1>1, <3>1 DEF Rec!ReadyRecordingIsStored
    <2>3. Rec!PurgeIsComplete'
      BY <1>1 DEF RecInv, Rec!RecordingPreserved, Rec!PurgeIsComplete
    <2> QED BY <2>1, <2>2, <2>3 DEF Rec!RecordingPreserved
  <1> QED BY <1>1, <1>3, <1>4, <1>5, <1>6, <1>7, <1>8, <1>9, <1>10, <1>11 DEF RecInv

(* Begin, Activate and GuacdRecords are such steps.                        *)
LEMMA BeginStep ==
    ASSUME Rec!WorkerAssumption, RecInv, NEW s \in Session, Rec!Begin(s) \/ Rec!Activate(s) \/ Rec!GuacdRecords(s)
    PROVE  RecInv'
  <1>1. /\ sess \in [Session -> Rec!SessionRows] /\ art \in [Session -> Rec!ArtifactRows]
        /\ job \in [Rec!Worker -> Rec!Jobs] /\ errors \in 0..MaxErrors /\ s \in Rec!Worker
        /\ sess[s] \in Rec!SessionRows /\ job[s] \in Rec!Jobs
        /\ server \in [inc : 0..MaxCrashes, phase : {"down", "startup", "serving"}]
    BY DEF RecInv, Rec!TypeOK, Rec!Worker
  <1>2. CASE Rec!Begin(s)
    <2>1. PICK recorded \in BOOLEAN, mapped \in BOOLEAN :
          /\ sess' = [sess EXCEPT ![s].state = "started", ![s].owner = server.inc,
                                  ![s].rec = IF recorded THEN "pending" ELSE "none"]
          /\ IF recorded THEN Rec!UpdateAuditArtifact(s, "pending") ELSE UNCHANGED art
          /\ \/ /\ drive' = IF mapped THEN drive \cup {s} ELSE drive
                /\ job' = [job EXCEPT ![s].pc = "begun", ![s].s = s,
                                      ![s].status = IF recorded THEN "pending" ELSE "none"]
                /\ UNCHANGED errors
             \/ UNCHANGED <<drive, job>> /\ Rec!Error
      BY <1>2 DEF Rec!Begin
    <2> DEFINE st == IF recorded THEN "pending" ELSE "none"
               r == [sess[s] EXCEPT !.state = "started", !.owner = server.inc, !.rec = st]
               j == [job[s] EXCEPT !.pc = "begun", !.s = s, !.status = st]
    <2>2. /\ UNCHANGED <<spool, objects, produced, server, todo, cleaner>>
          /\ server.phase = "serving" /\ sess[s].state = "absent" /\ job[s] = Rec!IdleJob
      BY <1>2 DEF Rec!Begin
    <2>3. st \in {"pending", "none"} /\ (st # "none" => recorded)
      OBVIOUS
    <2>4. server.inc \in Nat
      BY <1>1 DEF Rec!WorkerAssumption
    <2> HIDE DEF st
    <2>5. /\ r \in Rec!SessionRows /\ r.state = "started" /\ r.owner = server.inc /\ r.rec = st
          /\ r.cleanup = sess[s].cleanup
      BY <1>1, <2>3, <2>4 DEF Rec!SessionRows, Rec!RecordingStatuses
    <2>6. r.expired = sess[s].expired
      BY <1>1 DEF Rec!SessionRows
    <2>7. j \in Rec!Jobs /\ j.pc = "begun" /\ j.s = s /\ j.status = st
      BY <1>1, <2>3 DEF Rec!Jobs, Rec!RecordingStatuses
    <2>8. sess' = [sess EXCEPT ![s] = r]
      BY <1>1, <2>1 DEF st
    <2>9. job' = [job EXCEPT ![s] = j] \/ job' = job
      BY <1>1, <2>1 DEF st
    <2> HIDE DEF r, j
    <2>10. ~sess[s].expired /\ sess[s].cleanup = "ready"
      BY <2>2 DEF RecInv, Untouched
    <2>11. /\ art' \in [Session -> Rec!ArtifactRows] /\ \A p \in Session \ {s} : art'[p] = art[p]
           /\ st # "none" => art'[s].status = "pending"
      <3> DEFINE a == [status |-> "pending", stale |-> FALSE]
      <3>1. a \in Rec!ArtifactRows /\ a.status = "pending"
        BY DEF Rec!ArtifactRows, Rec!ArtifactStatuses
      <3>2. art' = [art EXCEPT ![s] = a] \/ (UNCHANGED art /\ ~recorded)
        BY <2>1 DEF Rec!UpdateAuditArtifact
      <3> HIDE DEF a
      <3>3. CASE art' = [art EXCEPT ![s] = a]
        BY <1>1, <3>1, <3>3
      <3>4. CASE UNCHANGED art /\ ~recorded
        BY <1>1, <2>3, <3>4
      <3> QED BY <3>2, <3>3, <3>4
    <2>12. errors' \in 0..MaxErrors /\ drive' \subseteq Session
      <3>1. UNCHANGED errors \/ Rec!Error
        BY <2>1
      <3>2. drive' = drive \/ drive' = drive \cup {s}
        BY <2>1
      <3> QED BY <1>1, <3>1, <3>2, ErrorType DEF RecInv, Rec!TypeOK
    <2>13. sess'[s] = r /\ \A p \in Session \ {s} : sess'[p] = sess[p]
      BY <1>1, <2>8
    <2>14. job'[s] \in {j, Rec!IdleJob} /\ \A v \in Rec!Worker \ {s} : job'[v] = job[v]
      BY <1>1, <2>2, <2>9
    <2>15. sess' \in [Session -> Rec!SessionRows] /\ job' \in [Rec!Worker -> Rec!Jobs]
      BY <1>1, <2>5, <2>7, <2>8, <2>9
    <2>16. Rec!TypeOK'
      BY <2>2, <2>11, <2>12, <2>15 DEF RecInv, Rec!TypeOK
    <2>17. Rec!IdleJob.pc = "idle"
      BY DEF Rec!IdleJob
    <2>18. /\ job'[s].pc \in {"idle", "begun"}
           /\ job'[s].pc # "idle" =>
                /\ job'[s].s = s
                /\ job'[s].status # "none" => job'[s].status = "pending" /\ art'[s].status = "pending"
      BY <2>3, <2>7, <2>11, <2>14, <2>17
    <2>19. ~sess'[s].expired
      BY <2>6, <2>10, <2>13
    <2>20. /\ sess'[s].state = "started" /\ sess'[s].cleanup = "ready" /\ sess'[s].rec # "ready"
           /\ sess'[s].owner = server.inc
      BY <2>3, <2>5, <2>10, <2>13
    <2>21. Handles(s)
      BY <2>2, <2>11, <2>13, <2>14, <2>16, <2>18, <2>19, <2>20 DEF Handles
    <2> QED BY <2>21, HandlesSound
  <1>3. ASSUME job[s].pc \in {"begun", "active"}
        PROVE  /\ Leased(s) /\ sess[s].cleanup = "ready" /\ sess[s].owner = server.inc
               /\ job[s].s = s /\ server.phase # "down"
               /\ job[s].status # "none" => job[s].status = "pending" /\ art[s].status = "pending"
    <2>1. Attached(s)
      BY <1>3 DEF Attached
    <2> QED BY <1>1, <1>3, <2>1, Alone DEF RecInv, HandlerSound
  <1>4. CASE Rec!Activate(s)
    <2> DEFINE r == [sess[s] EXCEPT !.outcome = "active"]
    <2>1. /\ UNCHANGED <<art, spool, drive, objects, produced, server, todo, cleaner, errors>>
          /\ job[s].pc = "begun" /\ Rec!Goto(s, "active")
      BY <1>4 DEF Rec!Activate, Rec!At, Rec!files
    <2>2. /\ r \in Rec!SessionRows /\ r.state = sess[s].state /\ r.rec = sess[s].rec
          /\ r.owner = sess[s].owner /\ r.cleanup = sess[s].cleanup
      BY <1>1 DEF Rec!SessionRows, Rec!Outcomes
    <2>3. r.expired = sess[s].expired
      BY <1>1 DEF Rec!SessionRows
    <2>4. sess' = [sess EXCEPT ![s] = r]
      BY <1>1, <1>4 DEF Rec!Activate
    <2> HIDE DEF r
    <2>5. sess'[s] = r /\ \A p \in Session \ {s} : sess'[p] = sess[p]
      BY <1>1, <2>4
    <2>6. PICK j \in Rec!Jobs : /\ job' = [job EXCEPT ![s] = j]
                            /\ j.pc = "active" /\ j.s = job[s].s /\ j.status = job[s].status
      BY <1>1, <2>1, GotoSteps DEF Steps, JobPCs
    <2>7. job'[s] = j /\ \A v \in Rec!Worker \ {s} : job'[v] = job[v]
      BY <1>1, <2>6
    <2>8. Rec!TypeOK'
      BY <1>1, <2>1, <2>2, <2>4, <2>6 DEF RecInv, Rec!TypeOK
    <2>9. ~sess'[s].expired
      BY <1>3, <2>1, <2>3, <2>5 DEF Leased
    <2>10. Handles(s)
      BY <1>3, <2>1, <2>2, <2>5, <2>6, <2>7, <2>8, <2>9 DEF Handles, Leased
    <2> QED BY <2>10, HandlesSound
  <1>5. CASE Rec!GuacdRecords(s)
    <2>1. /\ UNCHANGED <<sess, art, drive, objects, server, job, todo, cleaner, errors>>
          /\ job[s].pc \in {"begun", "active"}
          /\ spool' = spool \cup {s} /\ produced' = produced \cup {s}
      BY <1>5 DEF Rec!GuacdRecords, Rec!rows
    <2>2. Rec!TypeOK'
      BY <2>1 DEF RecInv, Rec!TypeOK
    <2>3. Handles(s)
      BY <1>3, <2>1, <2>2 DEF Handles, Leased
    <2> QED BY <2>3, HandlesSound
  <1> QED BY <1>2, <1>4, <1>5

(* The claim of a recovery pass takes sessions nobody works on.            *)
LEMMA ClaimStep ==
    ASSUME RecInv, Rec!ClaimRecoverableRDPRecordings
    PROVE  RecInv'
  <1> DEFINE claimed == {s \in Session : Rec!Recoverable(s)}
  <1>1. /\ art' = [s \in Session |-> IF s \in claimed
                                     THEN [status |-> "uploading", stale |-> FALSE]
                                     ELSE art[s]]
        /\ todo' = {[s |-> s, state |-> sess[s].state, outcome |-> sess[s].outcome] : s \in claimed}
        /\ job[Recoverer] = Rec!IdleJob /\ server.phase # "down"
    BY DEF Rec!ClaimRecoverableRDPRecordings, Rec!Running
  <1>2. UNCHANGED <<sess, spool, drive, objects, produced, server, job, cleaner, errors>>
    BY DEF Rec!ClaimRecoverableRDPRecordings, Rec!files
  <1>3. ASSUME NEW p \in claimed
        PROVE  /\ p \in Session /\ Ended(p) /\ ~Leased(p) /\ Rec!Retained(p) /\ art'[p].status = "uploading"
               /\ sess[p].state \in {"started", "ended"} /\ sess[p].outcome \in Rec!Outcomes
               /\ sess[p].state # "absent" /\ art[p].status # "ready"
    <2>1. p \in Session /\ Rec!Recoverable(p) /\ sess[p] \in Rec!SessionRows
      BY DEF RecInv, Rec!TypeOK
    <2>2. sess[p].outcome \in Rec!Outcomes
      BY <2>1 DEF Rec!SessionRows
    <2>3. art'[p].status = "uploading"
      BY <1>1, <2>1
    <2> HIDE DEF claimed
    <2> QED BY <2>1, <2>2, <2>3 DEF Rec!Recoverable, Ended, Leased, Rec!Retained
  <1>4. ASSUME NEW p \in Session, p \notin claimed PROVE art'[p] = art[p]
    BY <1>1, <1>4
  <1>5. claimed \subseteq Session
    OBVIOUS
  <1> HIDE DEF claimed
  <1>6. todo' \subseteq Rec!Items
    <2>1. ASSUME NEW p \in claimed
          PROVE  [s |-> p, state |-> sess[p].state, outcome |-> sess[p].outcome] \in Rec!Items
      BY <1>3 DEF Rec!Items
    <2> QED BY <1>1, <2>1
  <1>7. Rec!TypeOK'
    <2>1. art' \in [Session -> Rec!ArtifactRows]
      BY <1>1 DEF RecInv, Rec!TypeOK, Rec!ArtifactRows, Rec!ArtifactStatuses
    <2> QED BY <1>2, <1>6, <2>1 DEF RecInv, Rec!TypeOK
  <1>8. DownIsEmpty'
    BY <1>1, <1>2 DEF DownIsEmpty
  <1>9. ASSUME NEW p \in Session PROVE Untouched(p)' /\ HandlerSound(p)'
    <2>0. Untouched(p) /\ HandlerSound(p)
      BY DEF RecInv
    <2>1. CASE p \in claimed
      BY <1>2, <1>3, <2>0, <2>1 DEF Untouched, HandlerSound, Attached
    <2>2. CASE p \notin claimed
      BY <1>2, <1>4, <2>0, <2>2 DEF Untouched, HandlerSound, Attached, Leased
    <2> QED BY <2>1, <2>2
  <1>10. RecovererSound'
    BY <1>1, <1>2 DEF RecovererSound, Rec!IdleJob
  <1>11. TodoSound'
    <2>1. ASSUME NEW i \in todo'
          PROVE  \E p \in claimed : i = [s |-> p, state |-> sess[p].state, outcome |-> sess[p].outcome]
      BY <1>1, <2>1
    <2>2. ASSUME NEW i \in todo' PROVE i.s \in claimed
      BY <2>1, <2>2
    <2>3. ASSUME NEW i \in todo', NEW k \in todo', i.s = k.s PROVE i = k
      <3>1. PICK p \in claimed : i = [s |-> p, state |-> sess[p].state, outcome |-> sess[p].outcome]
        BY <2>1
      <3>2. PICK q \in claimed : k = [s |-> q, state |-> sess[q].state, outcome |-> sess[q].outcome]
        BY <2>1
      <3>3. p = q
        BY <2>3, <3>1, <3>2
      <3> QED BY <3>1, <3>2, <3>3
    <2> QED BY <1>2, <1>3, <2>2, <2>3 DEF TodoSound, Ended, Rec!Retained
  <1>12. ASSUME NEW v \in Rec!Worker PROVE UploadSound(v)'
    <2>0. UploadSound(v)
      BY DEF RecInv
    <2>1. CASE ~Attached(v)
      BY <1>2, <2>1 DEF UploadSound, Attached, Uploading
    <2>2. CASE Attached(v)
      <3>1. v \in Session
        BY <1>1, <2>2 DEF Rec!Worker, Attached, Rec!IdleJob
      <3>2. job[v].s \in Session /\ Leased(job[v].s)
        BY <2>2, <3>1 DEF RecInv, HandlerSound, Attached
      <3>3. art'[job[v].s] = art[job[v].s]
        BY <1>3, <1>4, <3>2
      <3> QED BY <1>2, <2>0, <3>3 DEF UploadSound, Rec!Retained, Stored
    <2> QED BY <2>1, <2>2
  <1>13. CleanerSound'
    BY <1>2 DEF RecInv, CleanerSound
  <1>14. ObjectsHaveRows'
    <2>1. objects \subseteq Session
      BY DEF RecInv, Rec!TypeOK
    <2> QED BY <1>2, <1>3, <1>4, <2>1 DEF RecInv, ObjectsHaveRows
  <1>15. Rec!RecordingPreserved'
    <2>1. Rec!EvidenceKept'
      BY <1>2 DEF RecInv, Rec!RecordingPreserved, Rec!EvidenceKept, Rec!Retained
    <2>2. Rec!ReadyRecordingIsStored'
      BY <1>2, <1>3, <1>4 DEF RecInv, Rec!RecordingPreserved, Rec!ReadyRecordingIsStored,
         Rec!Retained
    <2>3. Rec!PurgeIsComplete'
      BY <1>2, <1>3, <1>4 DEF RecInv, Rec!RecordingPreserved, Rec!PurgeIsComplete
    <2> QED BY <2>1, <2>2, <2>3 DEF Rec!RecordingPreserved
  <1> QED BY <1>7, <1>8, <1>9, <1>10, <1>11, <1>12, <1>13, <1>14, <1>15 DEF RecInv

(* The recovery starts the upload of an item, or gives it up as lost.      *)
LEMMA RecoverStep ==
    ASSUME Rec!WorkerAssumption, RecInv, Rec!RecoverRecording
    PROVE  RecInv'
  <1>1. PICK item \in todo :
          /\ todo' = todo \ {item}
          /\ job' = [job EXCEPT ![Recoverer] =
                       [pc |-> IF item.s \in spool THEN "mark" ELSE "lost", s |-> item.s,
                        outcome |-> IF item.state = "ended" THEN item.outcome ELSE "terminated",
                        status |-> "pending"]]
    BY DEF Rec!RecoverRecording
  <1>2. /\ UNCHANGED <<sess, art, spool, drive, objects, produced, server, cleaner, errors>>
        /\ server.phase # "down"
    BY DEF Rec!RecoverRecording, Rec!rows, Rec!files, Rec!Running
  <1>3. item \in Rec!Items /\ item.s \in Session /\ item.outcome \in Rec!Outcomes
    BY DEF RecInv, Rec!TypeOK, Rec!Items
  <1> DEFINE o == IF item.state = "ended" THEN item.outcome ELSE "terminated"
             pc == IF item.s \in spool THEN "mark" ELSE "lost"
             j == [pc |-> pc, s |-> item.s, outcome |-> o, status |-> "pending"]
  <1>4. o \in Rec!Outcomes /\ pc \in {"mark", "lost"}
    BY <1>3 DEF Rec!Outcomes, Rec!FinishOutcomes
  <1> HIDE DEF o, pc
  <1>5. j \in Rec!Jobs /\ j.pc = pc /\ j.s = item.s
    BY <1>3, <1>4 DEF Rec!Jobs, Rec!RecordingStatuses
  <1>6. job' = [job EXCEPT ![Recoverer] = j]
    BY <1>1 DEF o, pc
  <1> HIDE DEF j
  <1>7. Recoverer \in Rec!Worker /\ Recoverer \notin Session /\ job \in [Rec!Worker -> Rec!Jobs]
    BY DEF Rec!Worker, Rec!WorkerAssumption, RecInv, Rec!TypeOK
  <1>8. job'[Recoverer] = j /\ \A v \in Rec!Worker \ {Recoverer} : job'[v] = job[v]
    BY <1>6, <1>7
  <1>9. /\ Ended(item.s) /\ Rec!Retained(item.s) /\ art[item.s].status = "uploading"
        /\ \A i \in todo : i.s = item.s => i = item
    BY DEF RecInv, TodoSound
  <1>10. Rec!TypeOK' /\ DownIsEmpty'
    <2>1. job' \in [Rec!Worker -> Rec!Jobs]
      BY <1>5, <1>6, <1>7
    <2> QED BY <1>1, <1>2, <2>1 DEF RecInv, Rec!TypeOK, DownIsEmpty
  <1>11. \A p \in Session : Untouched(p)'
    BY <1>2 DEF RecInv, Untouched
  <1>12. ASSUME NEW p \in Session PROVE HandlerSound(p)'
    <2>1. job'[p] = job[p] /\ HandlerSound(p)
      BY <1>7, <1>8 DEF Rec!Worker, RecInv
    <2> QED BY <1>2, <2>1 DEF HandlerSound, Attached, Leased
  <1>13. RecovererSound'
    <2>1. \A i \in todo' : i.s # item.s
      BY <1>1, <1>9
    <2> QED BY <1>2, <1>3, <1>4, <1>5, <1>8, <1>9, <2>1 DEF RecovererSound, Ended
  <1>14. TodoSound'
    BY <1>1, <1>2 DEF RecInv, TodoSound, Ended, Rec!Retained
  <1>15. ASSUME NEW v \in Rec!Worker PROVE UploadSound(v)'
    <2>1. CASE v = Recoverer
      BY <1>2, <1>4, <1>5, <1>8, <1>9, <2>1 DEF UploadSound, Rec!Retained
    <2>2. CASE v # Recoverer
      BY <1>2, <1>8, <2>2 DEF RecInv, UploadSound, Rec!Retained, Stored
    <2> QED BY <2>1, <2>2
  <1>16. CleanerSound'
    BY <1>2 DEF RecInv, CleanerSound
  <1>17. ObjectsHaveRows' /\ Rec!RecordingPreserved'
    BY <1>2 DEF RecInv, ObjectsHaveRows, Rec!RecordingPreserved, Rec!EvidenceKept,
       Rec!ReadyRecordingIsStored,
                Rec!PurgeIsComplete, Rec!Retained
  <1> QED BY <1>10, <1>11, <1>12, <1>13, <1>14, <1>15, <1>16, <1>17 DEF RecInv

(* The invariant holds initially.                                          *)
LEMMA RecordingStarts ==
    ASSUME Rec!WorkerAssumption, Rec!Init
    PROVE  RecInv
  <1>1. Rec!IdleJob \in Rec!Jobs /\ Rec!IdleJob.pc = "idle"
    BY DEF Rec!IdleJob, Rec!Jobs, Rec!Outcomes, Rec!RecordingStatuses
  <1>2. Rec!IdleCleaner \in [pc : {"idle", "list", "object", "row", "markFailed"}, todo : SUBSET Session,
                         s : Session \cup {NoSession}]
        /\ Rec!IdleCleaner.pc = "idle" /\ Rec!IdleCleaner.todo = {}
    BY DEF Rec!IdleCleaner
  <1>3. sess \in [Session -> Rec!SessionRows] /\ art \in [Session -> Rec!ArtifactRows]
    BY DEF Rec!Init, Rec!SessionRows, Rec!ArtifactRows, Rec!ArtifactStatuses, Rec!Outcomes,
       Rec!RecordingStatuses
  <1>4. /\ server \in [inc : 0..MaxCrashes, phase : {"down", "startup", "serving"}]
        /\ errors \in 0..MaxErrors /\ server.phase # "down"
    BY DEF Rec!WorkerAssumption, Rec!Init
  <1>5. job \in [Rec!Worker -> Rec!Jobs] /\ \A w \in Rec!Worker : job[w].pc = "idle"
    BY <1>1 DEF Rec!Init
  <1>6. Rec!TypeOK /\ DownIsEmpty
    BY <1>2, <1>3, <1>4, <1>5 DEF Rec!Init, Rec!TypeOK, DownIsEmpty
  <1>7. \A s \in Session : Untouched(s)
    BY DEF Rec!Init, Untouched
  <1>8. \A s \in Session : HandlerSound(s)
    BY <1>5 DEF HandlerSound, Attached, Rec!Worker
  <1>9. RecovererSound /\ TodoSound
    BY <1>5 DEF RecovererSound, TodoSound, Rec!Worker, Rec!Init
  <1>10. \A w \in Rec!Worker : UploadSound(w)
    BY <1>5 DEF UploadSound, Uploading
  <1>11. CleanerSound /\ ObjectsHaveRows
    BY <1>2 DEF Rec!Init, CleanerSound, ObjectsHaveRows
  <1>12. Rec!RecordingPreserved
    BY DEF Rec!Init, Rec!RecordingPreserved, Rec!EvidenceKept, Rec!ReadyRecordingIsStored,
       Rec!PurgeIsComplete, Rec!Retained
  <1> QED BY <1>6, <1>7, <1>8, <1>9, <1>10, <1>11, <1>12 DEF RecInv

(* Through every failed upload, crash and retry a recording is in the      *)
(* spool or in the object store until retention claims its session; a      *)
(* session reports a ready recording only when it is stored; a purged      *)
(* session leaves neither object nor row (RDPRecordingService,             *)
(* AuditRetentionService).                                                 *)
THEOREM RecordingCorrect == Rec!Spec => []RecordingPreserved
  <1>1. Rec!Init => RecInv
    BY RecordingStarts, RecordingAssumption
  <1>2. RecInv /\ [Rec!Next]_Rec!vars => RecInv'
    <2> SUFFICES ASSUME RecInv, [Rec!Next]_Rec!vars PROVE RecInv'
      OBVIOUS
    <2>1. CASE UNCHANGED Rec!vars
      BY <2>1
         DEF Rec!vars, RecInv, Rec!TypeOK, DownIsEmpty, Untouched, HandlerSound, RecovererSound,
             TodoSound, UploadSound, CleanerSound, ObjectsHaveRows, Rec!RecordingPreserved,
             Rec!EvidenceKept, Rec!ReadyRecordingIsStored, Rec!PurgeIsComplete, Attached,
             Leased, Ended, Rec!Retained, Stored
    <2>2. ASSUME NEW s \in Session,
                 \/ Rec!Begin(s) \/ Rec!RecordDenied(s) \/ Rec!GuacdRecords(s)
                 \/ Rec!Activate(s) \/ Rec!Finish(s) \/ Rec!Age(s)
          PROVE  RecInv'
      BY <2>2, BeginStep, RecordDeniedStep, UploadStep, AgeStep, RecordingAssumption
         DEF Rec!Worker
    <2>3. ASSUME NEW w \in Rec!Worker, Rec!Upload(w) PROVE RecInv'
      BY <2>3, UploadStep, FinishStep, EndStep, RecordingAssumption
         DEF Rec!Upload
    <2>4. CASE Rec!Recover
      BY <2>4, ClaimStep, EndStep, RecoverStep, RecordingAssumption
         DEF Rec!Recover
    <2> QED BY <2>1, <2>2, <2>3, <2>4, ExpiryStep, CleanStep, EndStep, RecordingAssumption
         DEF Rec!Next
  <1>3. RecInv => RecordingPreserved
    BY DEF RecInv, RecordingPreserved
  <1> QED BY <1>1, <1>2, <1>3, PTL DEF Rec!Spec
=============================================================================
