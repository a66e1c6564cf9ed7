------------------------------ MODULE AuditLease ------------------------------
(***************************************************************************)
(* The leases of audit sessions: store.DBStore (prepareAuditSessionLease,  *)
(* trackAuditSessionLease, untrackAuditSessionLease, CreateAuditSession,   *)
(* EndAuditSession, FinishAuditSession, HeartbeatActiveAuditSessions,      *)
(* RecoverExpiredAuditSessions) driven by startAuditSessionLeaseRuntime.   *)
(*                                                                         *)
(* A process is one incarnation of the server: NewDBStore draws a fresh    *)
(* lease owner, so a restarted server is another element of Process.       *)
(* Several may run over one database.  Their clocks agree and advance in   *)
(* Ticks; what a row stores as an instant is kept as the ticks left to it. *)
(***************************************************************************)
EXTENDS Integers, FiniteSets

CONSTANTS
    Process,           \* incarnations of the server
    Session,           \* audit session identities
    LeaseDuration,     \* defaultAuditSessionLeaseDuration (90 s), in ticks
    HeartbeatInterval, \* auditSessionLeaseHeartbeatInterval (30 s), in ticks
    MaxLag,            \* bound: ticks from reading the clock to the end of the store call
    MaxFaults          \* bound: crashes, signals and database errors together

\* Ninety seconds against thirty: a store call may take almost thirty.
ASSUME LeaseAssumption ==
    /\ LeaseDuration \in Nat /\ HeartbeatInterval \in Nat \ {0}
    /\ MaxLag \in Nat /\ MaxFaults \in Nat /\ Process # {}
    /\ LeaseDuration > HeartbeatInterval + 2 * MaxLag

VARIABLES
    row,     \* [Session -> Row]: the table audit_sessions
    handler, \* [Session -> Handler]: the goroutine that serves the session
    tracked, \* [Process -> SUBSET Session]: DBStore.activeAuditLeases
    proc,    \* [Process -> ProcState]
    loop,    \* [Process -> Loop]: the goroutine of startAuditSessionLeaseRuntime
    faults   \* faults still available to the environment

vars == <<row, handler, tracked, proc, loop, faults>>

-----------------------------------------------------------------------------
Outcomes == {"connecting", "active", "succeeded", "failed", "terminated"}
FinishOutcomes == {"succeeded", "failed"}
\* lease_expires_at <= now is ttl <= 0; how long ago matters up to MaxLag.
Ttls == -MaxLag .. LeaseDuration

Rows == [state : {"absent", "started", "ended"}, owner : Process,
         outcome : Outcomes, ttl : Ttls]
Handlers == [pc : {"idle", "prepared", "inserted", "live", "ending", "finishing", "done"},
             p : Process, age : 0..MaxLag]
Loops == [pc : {"idle", "renew", "recover"}, timer : 0..(HeartbeatInterval + MaxLag),
          ids : SUBSET Session]

\* Every variable holds a value of its type.
TypeOK ==
    /\ row \in [Session -> Rows]
    /\ handler \in [Session -> Handlers]
    /\ tracked \in [Process -> SUBSET Session]
    /\ proc \in [Process -> {"new", "up", "stopping", "down"}]
    /\ loop \in [Process -> Loops]
    /\ faults \in 0..MaxFaults

\* The owner of a row that does not exist yet.
AnyProcess == CHOOSE p \in Process : TRUE

Init ==
    /\ row = [s \in Session |-> [state |-> "absent", owner |-> AnyProcess,
                                 outcome |-> "connecting", ttl |-> 0]]
    /\ handler = [s \in Session |-> [pc |-> "idle", p |-> AnyProcess, age |-> 0]]
    /\ tracked = [p \in Process |-> {}]
    /\ proc = [p \in Process |-> "new"]
    /\ loop = [p \in Process |-> [pc |-> "idle", timer |-> 0, ids |-> {}]]
    /\ faults = MaxFaults

Fault == faults > 0 /\ faults' = faults - 1
Up(p) == proc[p] = "up"
\* waitForRuntime still closes guacd: the connections are served until main returns.
Alive(p) == proc[p] \in {"up", "stopping"}
Serves(p, s) == handler[s].p = p /\ handler[s].pc \notin {"idle", "done"}
\* Mutant of ReadLocked: the snapshot is taken and the lock released.
NeverLocked(p) == FALSE

\* HeartbeatActiveAuditSessions holds auditLeaseMu for reading from the
\* snapshot of the active sessions to the end of its updates.
ReadLocked(p) == loop[p].pc = "renew"

Goto(s, pc) == handler' = [handler EXCEPT ![s].pc = pc]

-----------------------------------------------------------------------------
(* Serving a session *)

\* prepareAuditSessionLease: the lease is computed from the clock before the insert.
PrepareLease(p, s) ==
    /\ Alive(p) /\ handler[s].pc = "idle"
    /\ handler' = [handler EXCEPT ![s] = [pc |-> "prepared", p |-> p, age |-> 0]]
    /\ UNCHANGED <<row, tracked, proc, loop, faults>>

Inserted(p, s) ==
    row' = [row EXCEPT ![s] = [state |-> "started", owner |-> p, outcome |-> "connecting",
                               ttl |-> LeaseDuration - handler[s].age]]

\* CreateAuditSession: an error, whether or not the insert was committed,
\* leaves the session untracked and the connection refused.
CreateAuditSession(p, s) ==
    /\ Alive(p) /\ Serves(p, s) /\ handler[s].pc = "prepared"
    /\ \/ Inserted(p, s) /\ Goto(s, "inserted") /\ UNCHANGED faults
       \/ Inserted(p, s) /\ Goto(s, "done") /\ Fault
       \/ UNCHANGED row /\ Goto(s, "done") /\ Fault
    /\ UNCHANGED <<tracked, proc, loop>>

TrackAuditSessionLease(p, s) ==
    /\ Alive(p) /\ Serves(p, s) /\ handler[s].pc = "inserted"
    /\ ~ReadLocked(p)
    /\ tracked' = [tracked EXCEPT ![p] = @ \cup {s}]
    /\ Goto(s, "live")
    /\ UNCHANGED <<row, proc, loop, faults>>

\* Mutant of UntrackAuditSessionLease: the session stays in activeAuditLeases.
UntrackForgotten(p, s) ==
    /\ Alive(p) /\ Serves(p, s) /\ handler[s].pc = "live"
    /\ ~ReadLocked(p)
    /\ \E pc \in {"ending", "finishing"} : Goto(s, pc)
    /\ UNCHANGED <<row, tracked, proc, loop, faults>>

\* EndAuditSession and FinishAuditSession untrack the session first.
UntrackAuditSessionLease(p, s) ==
    /\ Alive(p) /\ Serves(p, s) /\ handler[s].pc = "live"
    /\ ~ReadLocked(p)
    /\ tracked' = [tracked EXCEPT ![p] = @ \ {s}]
    /\ \E pc \in {"ending", "finishing"} : Goto(s, pc)
    /\ UNCHANGED <<row, proc, loop, faults>>

\* Mutant of OwnedAndStarted: the update is not conditioned on the state.
Owned(p, s) == row[s].owner = p

OwnedAndStarted(p, s) == row[s].state = "started" /\ row[s].owner = p

EndAuditSession(p, s) ==
    /\ Alive(p) /\ Serves(p, s) /\ handler[s].pc = "ending"
    /\ \/ /\ row' = IF OwnedAndStarted(p, s)
                    THEN [row EXCEPT ![s].state = "ended",
                             ![s].outcome = IF @ \in {"connecting", "active"}
                                            THEN "succeeded" ELSE @]
                    ELSE row
          /\ UNCHANGED faults
       \/ UNCHANGED row /\ Fault
    /\ Goto(s, "done")
    /\ UNCHANGED <<tracked, proc, loop>>

\* The two statements after the first only touch recording_status, which the
\* module RDPRecording models.
FinishAuditSession(p, s) ==
    /\ Alive(p) /\ Serves(p, s) /\ handler[s].pc = "finishing"
    /\ \/ \E outcome \in FinishOutcomes :
             /\ row' = IF OwnedAndStarted(p, s)
                       THEN [row EXCEPT ![s].state = "ended", ![s].outcome = outcome]
                       ELSE row
             /\ UNCHANGED faults
       \/ UNCHANGED row /\ Fault
    /\ Goto(s, "done")
    /\ UNCHANGED <<tracked, proc, loop>>

-----------------------------------------------------------------------------
(* The lease runtime *)

\* main returns and the process exits: its handlers and its leases are gone.
Exit(p) ==
    /\ proc' = [proc EXCEPT ![p] = "down"]
    /\ tracked' = [tracked EXCEPT ![p] = {}]
    /\ handler' = [s \in Session |->
                     IF Serves(p, s) THEN [handler[s] EXCEPT !.pc = "done"] ELSE handler[s]]
    /\ loop' = [loop EXCEPT ![p] = [pc |-> "idle", timer |-> 0, ids |-> {}]]

\* The loop is gone: its failure, or a signal, ends the run of the process.
StopLoop(p) ==
    /\ proc' = [proc EXCEPT ![p] = "stopping"]
    /\ loop' = [loop EXCEPT ![p] = [pc |-> "idle", timer |-> 0, ids |-> {}]]
    /\ UNCHANGED <<handler, tracked>>

WaitForRuntime(p) ==
    /\ UNCHANGED row
    /\ \/ Up(p) /\ loop[p].pc = "idle" /\ StopLoop(p) /\ Fault
       \/ proc[p] = "stopping" /\ Exit(p) /\ UNCHANGED faults

\* Interrupts the sessions whose lease had expired lag ticks ago.
RecoverExpiredAuditSessions(lag) ==
    row' = [s \in Session |->
              IF row[s].state = "started" /\ row[s].ttl + lag <= 0
              THEN [row[s] EXCEPT !.state = "ended", !.outcome = "terminated"]
              ELSE row[s]]

\* recoverExpiredAuditSessionsAtStartup; its failure ends the process.
StartProcess(p) ==
    /\ proc[p] = "new"
    /\ \/ /\ RecoverExpiredAuditSessions(0)
          /\ proc' = [proc EXCEPT ![p] = "up"]
          /\ UNCHANGED <<handler, tracked, loop, faults>>
       \/ UNCHANGED row /\ Exit(p) /\ Fault

\* The ticker fires: the snapshot of the active sessions, under the lock.
HeartbeatSnapshot(p) ==
    /\ Up(p) /\ loop[p].pc = "idle" /\ loop[p].timer >= HeartbeatInterval
    /\ loop' = [loop EXCEPT ![p] = [pc |-> "renew", timer |-> @.timer - HeartbeatInterval,
                                    ids |-> tracked[p]]]
    /\ UNCHANGED <<row, handler, tracked, proc, faults>>

Renewed(p) == {s \in loop[p].ids : OwnedAndStarted(p, s)}

\* The expiry counts from the firing of the ticker, not from the update.
Renew(p, ids) ==
    row' = [s \in Session |-> IF s \in ids
                              THEN [row[s] EXCEPT !.ttl = LeaseDuration - loop[p].timer]
                              ELSE row[s]]

\* An error between two batches leaves the first ones renewed.
HeartbeatActiveAuditSessions(p) ==
    /\ Up(p) /\ loop[p].pc = "renew"
    /\ \/ /\ Renew(p, Renewed(p))
          /\ UNCHANGED faults
          /\ \/ /\ Renewed(p) = loop[p].ids
                /\ loop' = [loop EXCEPT ![p].pc = "recover", ![p].ids = {}]
                /\ UNCHANGED <<handler, tracked, proc>>
             \/ Renewed(p) # loop[p].ids /\ StopLoop(p)
       \/ /\ \E ids \in SUBSET Renewed(p) : Renew(p, ids)
          /\ StopLoop(p) /\ Fault

\* The second half of the tick, with the same clock reading.
PeriodicRecovery(p) ==
    /\ Up(p) /\ loop[p].pc = "recover"
    /\ \/ /\ RecoverExpiredAuditSessions(loop[p].timer)
          /\ loop' = [loop EXCEPT ![p].pc = "idle"]
          /\ UNCHANGED <<handler, tracked, proc, faults>>
       \/ UNCHANGED row /\ StopLoop(p) /\ Fault

-----------------------------------------------------------------------------
(* The environment *)

Crash(p) == Alive(p) /\ Fault /\ Exit(p) /\ UNCHANGED row

\* Bounded delay: the ticker fires on time, and a heartbeat and the creation
\* of a session end within MaxLag.  Ending a session may take any time.
Punctual ==
    /\ \A p \in Process : Up(p) =>
          /\ loop[p].pc = "idle" => loop[p].timer < HeartbeatInterval
          /\ loop[p].pc # "idle" => loop[p].timer < MaxLag
    /\ \A s \in Session : handler[s].pc \in {"prepared", "inserted"} =>
          handler[s].age < MaxLag

Later(ttl) == IF ttl > -MaxLag THEN ttl - 1 ELSE ttl

Tick ==
    /\ Punctual
    /\ row' = [s \in Session |-> IF row[s].state = "started"
                                 THEN [row[s] EXCEPT !.ttl = Later(@)] ELSE row[s]]
    /\ handler' = [s \in Session |->
                     IF handler[s].pc \in {"prepared", "inserted"}
                     THEN [handler[s] EXCEPT !.age = @ + 1] ELSE handler[s]]
    /\ loop' = [p \in Process |-> IF Up(p) THEN [loop[p] EXCEPT !.timer = @ + 1] ELSE loop[p]]
    /\ UNCHANGED <<tracked, proc, faults>>

Serve(p, s) ==
    \/ CreateAuditSession(p, s) \/ TrackAuditSessionLease(p, s)
    \/ EndAuditSession(p, s) \/ FinishAuditSession(p, s)

Maintain(p) == HeartbeatSnapshot(p) \/ HeartbeatActiveAuditSessions(p) \/ PeriodicRecovery(p)

Next ==
    \/ \E p \in Process, s \in Session :
          PrepareLease(p, s) \/ UntrackAuditSessionLease(p, s) \/ Serve(p, s)
    \/ \E p \in Process : StartProcess(p) \/ Maintain(p) \/ WaitForRuntime(p) \/ Crash(p)
    \/ Tick

Spec == Init /\ [][Next]_vars

\* Time passes, the goroutines of a live process keep running, and a server
\* is started again.  Nobody promises that a client ever ends its session.
Fairness ==
    /\ WF_vars(Tick)
    /\ \A p \in Process : /\ WF_vars(StartProcess(p)) /\ WF_vars(Maintain(p))
                           /\ WF_vars(proc[p] = "stopping" /\ WaitForRuntime(p))
    /\ \A p \in Process, s \in Session : WF_vars(Serve(p, s))

FairSpec == Spec /\ Fairness

-----------------------------------------------------------------------------
(* Properties *)

\* A session that a running process still tracks is never interrupted by a
\* recovery, of this or of another process: RecoverExpiredAuditSessions
\* meets only leases that nobody renews.
LiveSessionKept ==
    \A p \in Process : Up(p) => \A s \in tracked[p] : OwnedAndStarted(p, s)

\* The heartbeat never fails closed while the database answers: every session
\* of its snapshot is still started and owned when the update runs, because
\* an ending session waits for auditLeaseMu.
HeartbeatMeetsItsSnapshot ==
    \A p \in Process : loop[p].pc = "renew" => Renewed(p) = loop[p].ids

\* Both together: a live session loses its lease to nobody, and no heartbeat
\* stops the process over a session that is still its own.
LeaseHolds == LiveSessionKept /\ HeartbeatMeetsItsSnapshot

\* An audit session that has ended keeps its outcome: a late end or finish of
\* a session that recovery interrupted does not rewrite the evidence.
OutcomeIsFinal ==
    [][\A s \in Session : row[s].state = "ended" => row'[s].state = "ended"
                                                 /\ row'[s].outcome = row[s].outcome]_vars

\* A session nobody serves any more, after a crash, a refused connection or a
\* failed end write, is eventually ended in the database.
AbandonedSessionEnds ==
    \A s \in Session :
        row[s].state = "started" /\ handler[s].pc = "done" ~> row[s].state = "ended"
=============================================================================
