----------------------------- MODULE RDPRecording -----------------------------
(***************************************************************************)
(* The life of a recorded RDP session: service.RDPRecordingService (Begin, *)
(* Activate, RecordDenied, Finish, Recover), service.AuditRetentionService *)
(* (RunOnce) and the rows of audit_sessions and audit_artifacts they share *)
(* through store.DBStore, with the spool directory guacd records into and  *)
(* the object store as their environment.                                  *)
(*                                                                         *)
(* One server runs at a time (the spool is a local directory) and it may   *)
(* crash and restart at every step; incarnation i owns the leases of the   *)
(* sessions it began.  The module AuditLease shows that a lease expires    *)
(* only when its owner no longer tracks the session; that is all that is   *)
(* used of leases here.  Ages (a claim is stale, the retention period is   *)
(* over) are flags the environment raises.                                 *)
(***************************************************************************)
EXTENDS Naturals, FiniteSets

CONSTANTS
    Session,     \* audit session identities
    Recoverer,   \* the worker of Recover; every session is its own worker
    NoSession,   \* the session of an idle worker
    MaxCrashes,  \* bound: crashes of the server
    MaxErrors    \* bound: failed calls of the database, object store and guacd

WorkerAssumption ==
    /\ Recoverer \notin Session /\ NoSession \notin Session /\ Recoverer # NoSession
    /\ MaxCrashes \in Nat /\ MaxErrors \in Nat

VARIABLES
    sess,     \* [Session -> SessionRow]: audit_sessions
    art,      \* [Session -> ArtifactRow]: audit_artifacts, at most one recording each
    spool,    \* sessions whose recording.guac is in the spool
    drive,    \* sessions with a mapped drive directory
    objects,  \* sessions whose recording is in the object store
    produced, \* sessions guacd ever wrote a recording of
    server,   \* the running incarnation and its phase
    job,      \* [Worker -> Job]: the running Finish and recoverRecording calls
    todo,     \* items claimed by the recovery pass and not yet processed
    cleaner,  \* the retention pass
    errors    \* failed calls still available to the environment

vars == <<sess, art, spool, drive, objects, produced, server, job, todo, cleaner, errors>>
rows == <<sess, art>>
files == <<spool, drive, objects, produced>>

-----------------------------------------------------------------------------
Worker == Session \cup {Recoverer}
FinishOutcomes == {"succeeded", "failed", "terminated"}
Outcomes == FinishOutcomes \cup {"connecting", "active", "denied"}
\* "unavailable" is "failed" with the message recoveryUnavailableMessage.
ArtifactStatuses == {"absent", "pending", "uploading", "failed", "unavailable", "ready"}
RecordingStatuses == {"none", "pending", "failed", "ready"}

SessionRows == [state : {"absent", "started", "ended", "deleted"}, owner : Nat,
                outcome : Outcomes, rec : RecordingStatuses, expired : BOOLEAN,
                cleanup : {"ready", "pending", "failed"}, claimStale : BOOLEAN,
                old : BOOLEAN]
ArtifactRows == [status : ArtifactStatuses, stale : BOOLEAN]
\* The copy of the session row an item carries decides how it is finished.
Items == [s : Session, state : {"started", "ended"}, outcome : Outcomes]
Jobs == [pc : {"idle", "begun", "active", "mark", "wait", "put", "ready",
               "fail", "lost", "remove", "finish", "finishEnded", "drive"},
         s : Session \cup {NoSession}, outcome : Outcomes, status : RecordingStatuses]

\* Every variable holds a value of its type.
TypeOK ==
    /\ sess \in [Session -> SessionRows]
    /\ art \in [Session -> ArtifactRows]
    /\ spool \subseteq Session /\ drive \subseteq Session
    /\ objects \subseteq Session /\ produced \subseteq Session
    /\ server \in [inc : 0..MaxCrashes, phase : {"down", "startup", "serving"}]
    /\ job \in [Worker -> Jobs]
    /\ todo \subseteq Items
    /\ cleaner \in [pc : {"idle", "list", "object", "row", "markFailed"}, todo : SUBSET Session,
                    s : Session \cup {NoSession}]
    /\ errors \in 0..MaxErrors

IdleJob == [pc |-> "idle", s |-> NoSession, outcome |-> "connecting", status |-> "none"]
IdleCleaner == [pc |-> "idle", todo |-> {}, s |-> NoSession]

Init ==
    /\ sess = [s \in Session |-> [state |-> "absent", owner |-> 0, outcome |-> "connecting",
                                  rec |-> "none", expired |-> FALSE, cleanup |-> "ready",
                                  claimStale |-> FALSE, old |-> FALSE]]
    /\ art = [s \in Session |-> [status |-> "absent", stale |-> FALSE]]
    /\ spool = {} /\ drive = {} /\ objects = {} /\ produced = {}
    /\ server = [inc |-> 0, phase |-> "startup"]
    /\ job = [w \in Worker |-> IdleJob]
    /\ todo = {} /\ cleaner = IdleCleaner /\ errors = MaxErrors

Running == server.phase # "down"
At(w, pc) == Running /\ job[w].pc = pc
Goto(w, pc) == job' = [job EXCEPT ![w].pc = pc]
Error == errors > 0 /\ errors' = errors - 1

\* UpdateAuditArtifact is an unconditional Save: it also brings back a row
\* that somebody deleted.
UpdateAuditArtifact(s, status) ==
    art' = [art EXCEPT ![s] = [status |-> status, stale |-> FALSE]]

-----------------------------------------------------------------------------
(* The session handler: Begin, Activate, Finish *)

\* Begin.  A spool that cannot be prepared is an unrecorded session when
\* AllowUnrecorded is set and no session otherwise; an insert that is
\* committed but reported as failed leaves a session nobody tracks.
Begin(s) ==
    /\ server.phase = "serving" /\ sess[s].state = "absent" /\ job[s] = IdleJob
    /\ \E recorded, mapped \in BOOLEAN :
          /\ sess' = [sess EXCEPT ![s].state = "started", ![s].owner = server.inc,
                                  ![s].rec = IF recorded THEN "pending" ELSE "none"]
          /\ IF recorded THEN UpdateAuditArtifact(s, "pending") ELSE UNCHANGED art
          /\ \/ /\ drive' = IF mapped THEN drive \cup {s} ELSE drive
                /\ job' = [job EXCEPT ![s].pc = "begun", ![s].s = s,
                                      ![s].status = IF recorded THEN "pending" ELSE "none"]
                /\ UNCHANGED errors
             \/ UNCHANGED <<drive, job>> /\ Error
    /\ UNCHANGED <<spool, objects, produced, server, todo, cleaner>>

RecordDenied(s) ==
    /\ server.phase = "serving" /\ sess[s].state = "absent" /\ job[s] = IdleJob
    /\ sess' = [sess EXCEPT ![s].state = "ended", ![s].outcome = "denied"]
    /\ UNCHANGED <<art, files, server, job, todo, cleaner, errors>>

\* guacd writes the recording while the connection is up.
GuacdRecords(s) ==
    /\ job[s].pc \in {"begun", "active"} /\ job[s].status = "pending" /\ s \notin produced
    /\ spool' = spool \cup {s} /\ produced' = produced \cup {s}
    /\ UNCHANGED <<rows, drive, objects, server, job, todo, cleaner, errors>>

\* Activate: only while the session is started.
Activate(s) ==
    /\ At(s, "begun") /\ sess[s].state = "started"
    /\ sess' = [sess EXCEPT ![s].outcome = "active"]
    /\ Goto(s, "active")
    /\ UNCHANGED <<art, files, server, todo, cleaner, errors>>

\* finishAudit calls Finish, from Connect's error paths and after the relay.
Finish(s) ==
    /\ job[s].pc \in {"begun", "active"} /\ Running
    /\ \E outcome \in FinishOutcomes :
          job' = [job EXCEPT ![s].outcome = outcome,
                             ![s].pc = IF job[s].status = "none" THEN "finish" ELSE "mark"]
    /\ UNCHANGED <<rows, files, server, todo, cleaner, errors>>

-----------------------------------------------------------------------------
(* uploadRecording, for a handler and for the recovery pass *)

Return(w, status) == job' = [job EXCEPT ![w].pc = "finish", ![w].status = status]

\* A Save whose error is reported may have been committed.
Save(w, status, pc, onError) ==
    \/ UpdateAuditArtifact(job[w].s, status) /\ Goto(w, pc) /\ UNCHANGED errors
    \/ Error /\ Return(w, onError)
             /\ (UpdateAuditArtifact(job[w].s, status) \/ UNCHANGED art)

MarkUploading(w) ==
    /\ At(w, "mark")
    /\ Save(w, "uploading", "wait", "failed")
    /\ UNCHANGED <<sess, files, server, todo, cleaner>>

\* waitForRecording and openStableRecording.
WaitForRecording(w) ==
    /\ At(w, "wait")
    /\ \/ job[w].s \in spool /\ Goto(w, "put") /\ UNCHANGED errors
       \/ job[w].s \notin spool /\ Goto(w, "fail") /\ UNCHANGED errors
       \/ Goto(w, "fail") /\ Error
    /\ UNCHANGED <<rows, files, server, todo, cleaner>>

PutRecording(w) ==
    /\ At(w, "put")
    /\ \/ objects' = objects \cup {job[w].s} /\ Goto(w, "ready") /\ UNCHANGED errors
       \/ Error /\ Goto(w, "fail") /\ (objects' = objects \cup {job[w].s} \/ UNCHANGED objects)
    /\ UNCHANGED <<rows, spool, drive, produced, server, todo, cleaner>>

MarkReady(w) ==
    /\ At(w, "ready")
    /\ Save(w, "ready", "remove", "failed")
    /\ UNCHANGED <<sess, files, server, todo, cleaner>>

RemoveSpool(w) ==
    /\ At(w, "remove")
    /\ spool' = spool \ {job[w].s}
    /\ Return(w, "ready")
    /\ UNCHANGED <<rows, drive, objects, produced, server, todo, cleaner, errors>>

\* failArtifact: the caller sees "failed" whether or not the Save worked.
FailArtifact(w) ==
    /\ At(w, "fail") \/ At(w, "lost")
    /\ Return(w, "failed")
    /\ LET status == IF job[w].pc = "lost" THEN "unavailable" ELSE "failed"
       IN \/ UpdateAuditArtifact(job[w].s, status) /\ UNCHANGED errors
          \/ Error /\ UNCHANGED art
    /\ UNCHANGED <<sess, files, server, todo, cleaner>>

-----------------------------------------------------------------------------
(* FinishAuditSession and the end of a job *)

\* The first statement ends a session this incarnation began.
FinishAuditSession(w) ==
    /\ At(w, "finish")
    /\ LET s == job[w].s
           mine == sess[s].state = "started" /\ sess[s].owner = server.inc
       IN \/ /\ mine
             /\ sess' = [sess EXCEPT ![s].state = "ended", ![s].outcome = job[w].outcome,
                                     ![s].rec = job[w].status]
             /\ Goto(w, "drive") /\ UNCHANGED errors
          \/ ~mine /\ UNCHANGED sess /\ Goto(w, "finishEnded") /\ UNCHANGED errors
          \/ UNCHANGED sess /\ Goto(w, "drive") /\ Error
    /\ UNCHANGED <<art, files, server, todo, cleaner>>

\* The second statement only completes the recording of an ended session, and
\* only when its outcome is the caller's.
FinishEndedRecording(w) ==
    /\ At(w, "finishEnded")
    /\ LET s == job[w].s
           agrees == sess[s].state = "ended" /\ sess[s].outcome = job[w].outcome
       IN \/ agrees /\ sess' = [sess EXCEPT ![s].rec = job[w].status] /\ UNCHANGED errors
          \/ ~agrees /\ UNCHANGED sess /\ UNCHANGED errors
          \/ UNCHANGED sess /\ Error
    /\ Goto(w, "drive")
    /\ UNCHANGED <<art, files, server, todo, cleaner>>

CleanupDriveSpool(w) ==
    /\ At(w, "drive")
    /\ drive' = drive \ {job[w].s}
    /\ job' = [job EXCEPT ![w] = IdleJob]
    /\ UNCHANGED <<rows, spool, objects, produced, server, todo, cleaner, errors>>

-----------------------------------------------------------------------------
(* Recover *)

\* Mutant of Recoverable: an upload that was cut off by a crash is nobody's.
RecoverableUnlessUploading(s) ==
    /\ \/ art[s].status = "pending"
       \/ art[s].status = "failed" /\ art[s].stale
    /\ sess[s].cleanup = "ready"
    /\ \/ sess[s].state = "ended"
       \/ server.phase = "startup" /\ sess[s].state = "started" /\ sess[s].expired

\* recoverableRDPArtifactQuery, scopeRecoverableRDPSessions.
Recoverable(s) ==
    /\ \/ art[s].status = "pending"
       \/ art[s].status \in {"failed", "uploading"} /\ art[s].stale
    /\ sess[s].cleanup = "ready"
    /\ \/ sess[s].state = "ended"
       \/ server.phase = "startup" /\ sess[s].state = "started" /\ sess[s].expired

ClaimRecoverableRDPRecordings ==
    /\ Running /\ job[Recoverer] = IdleJob /\ todo = {}
    /\ LET claimed == {s \in Session : Recoverable(s)}
       IN /\ claimed # {}
          /\ art' = [s \in Session |-> IF s \in claimed
                                       THEN [status |-> "uploading", stale |-> FALSE]
                                       ELSE art[s]]
          /\ todo' = {[s |-> s, state |-> sess[s].state, outcome |-> sess[s].outcome] :
                        s \in claimed}
    /\ UNCHANGED <<sess, files, server, job, cleaner, errors>>

\* An empty claim, or a failed one, ends the pass; the first pass runs before
\* the server accepts sessions.
EndRecoveryPass ==
    /\ server.phase = "startup" /\ job[Recoverer] = IdleJob /\ todo = {}
    /\ \/ {s \in Session : Recoverable(s)} = {} /\ UNCHANGED errors
       \/ Error
    /\ server' = [server EXCEPT !.phase = "serving"]
    /\ UNCHANGED <<rows, files, job, todo, cleaner>>

\* recoverRecording and finishRecoveredRecording: the outcome comes from the
\* copy of the session row that the claim returned.
RecoverRecording ==
    /\ Running /\ job[Recoverer] = IdleJob
    /\ \E item \in todo :
          /\ todo' = todo \ {item}
          /\ job' = [job EXCEPT ![Recoverer] =
                       [pc |-> IF item.s \in spool THEN "mark" ELSE "lost", s |-> item.s,
                        outcome |-> IF item.state = "ended" THEN item.outcome ELSE "terminated",
                        status |-> "pending"]]
    /\ UNCHANGED <<rows, files, server, cleaner, errors>>

-----------------------------------------------------------------------------
(* Leases and retention *)

\* The owner no longer tracks the session: it crashed or called FinishAuditSession.
Tracked(s) == Running /\ sess[s].owner = server.inc
              /\ job[s].pc \notin {"idle", "finishEnded", "drive"}

LeaseExpires(s) ==
    /\ sess[s].state = "started" /\ ~Tracked(s) /\ ~sess[s].expired
    /\ sess' = [sess EXCEPT ![s].expired = TRUE]
    /\ UNCHANGED <<art, files, server, job, todo, cleaner, errors>>

RecoverExpiredAuditSessions ==
    /\ Running
    /\ \E s \in Session : sess[s].state = "started" /\ sess[s].expired
    /\ sess' = [s \in Session |->
                  IF sess[s].state = "started" /\ sess[s].expired
                  THEN [sess[s] EXCEPT !.state = "ended", !.outcome = "terminated",
                                       !.cleanup = "ready"]
                  ELSE sess[s]]
    /\ UNCHANGED <<art, files, server, job, todo, cleaner, errors>>

\* Mutant of WithoutRecoverableRDPArtifact: retention ignores the recordings.
WithAnyArtifact(s) == TRUE

\* withoutRecoverableRDPArtifact.
WithoutRecoverableRDPArtifact(s) == art[s].status \in {"absent", "ready", "unavailable"}

\* auditCleanupEligible, past the retention cutoff.
CleanupEligible(s) ==
    /\ sess[s].state = "ended" /\ sess[s].old
    /\ sess[s].cleanup = "ready" \/ sess[s].claimStale
    /\ WithoutRecoverableRDPArtifact(s)

ClaimAuditSessionsForCleanup ==
    /\ Running /\ cleaner = IdleCleaner
    /\ \E claimed \in SUBSET {s \in Session : CleanupEligible(s)} :
          /\ claimed # {}
          /\ sess' = [s \in Session |-> IF s \in claimed
                                        THEN [sess[s] EXCEPT !.cleanup = "pending",
                                                             !.claimStale = FALSE]
                                        ELSE sess[s]]
          /\ cleaner' = [IdleCleaner EXCEPT !.todo = claimed]
    /\ UNCHANGED <<art, files, server, job, todo, errors>>

CleanNext ==
    /\ Running /\ cleaner.pc = "idle"
    /\ \E s \in cleaner.todo :
          cleaner' = [pc |-> "list", todo |-> cleaner.todo \ {s}, s |-> s]
    /\ UNCHANGED <<rows, files, server, job, todo, errors>>

ListAuditArtifactsForCleanup ==
    /\ Running /\ cleaner.pc = "list"
    /\ \/ /\ cleaner' = [cleaner EXCEPT !.pc = IF art[cleaner.s].status = "absent"
                                               THEN "row" ELSE "object"]
          /\ UNCHANGED errors
       \/ cleaner' = [cleaner EXCEPT !.pc = "markFailed"] /\ Error
    /\ UNCHANGED <<rows, files, server, job, todo>>

DeleteObject ==
    /\ Running /\ cleaner.pc = "object"
    /\ \/ /\ objects' = objects \ {cleaner.s}
          /\ cleaner' = [cleaner EXCEPT !.pc = "row"] /\ UNCHANGED errors
       \/ UNCHANGED objects /\ cleaner' = [cleaner EXCEPT !.pc = "markFailed"] /\ Error
    /\ UNCHANGED <<rows, spool, drive, produced, server, job, todo>>

CleanerNext == cleaner' = [cleaner EXCEPT !.pc = "idle", !.s = NoSession]

ClaimHeld(s) == sess[s].state = "ended" /\ sess[s].cleanup = "pending"

MarkAuditSessionCleanupFailed ==
    /\ Running /\ cleaner.pc = "markFailed"
    /\ \/ /\ sess' = IF ClaimHeld(cleaner.s)
                     THEN [sess EXCEPT ![cleaner.s].cleanup = "failed",
                                       ![cleaner.s].claimStale = FALSE]
                     ELSE sess
          /\ UNCHANGED errors
       \/ UNCHANGED sess /\ Error
    /\ CleanerNext
    /\ UNCHANGED <<art, files, server, job, todo>>

DeleteClaimedAuditSession ==
    /\ Running /\ cleaner.pc = "row"
    /\ \/ /\ ClaimHeld(cleaner.s)
          /\ sess' = [sess EXCEPT ![cleaner.s].state = "deleted"]
          /\ art' = [art EXCEPT ![cleaner.s] = [status |-> "absent", stale |-> FALSE]]
          /\ UNCHANGED errors
       \/ ~ClaimHeld(cleaner.s) /\ UNCHANGED <<rows, errors>>
       \/ UNCHANGED rows /\ Error
    /\ CleanerNext
    /\ UNCHANGED <<files, server, job, todo>>

-----------------------------------------------------------------------------
(* Time, crashes and restarts *)

ArtifactGrowsStale(s) ==
    /\ art[s].status \in {"uploading", "failed"} /\ ~art[s].stale
    /\ art' = [art EXCEPT ![s].stale = TRUE]
    /\ UNCHANGED <<sess, files, server, job, todo, cleaner, errors>>

CleanupClaimGrowsStale(s) ==
    /\ sess[s].state = "ended" /\ sess[s].cleanup # "ready" /\ ~sess[s].claimStale
    /\ sess' = [sess EXCEPT ![s].claimStale = TRUE]
    /\ UNCHANGED <<art, files, server, job, todo, cleaner, errors>>

RetentionEnds(s) ==
    /\ sess[s].state = "ended" /\ ~sess[s].old
    /\ sess' = [sess EXCEPT ![s].old = TRUE]
    /\ UNCHANGED <<art, files, server, job, todo, cleaner, errors>>

Crash ==
    /\ Running /\ server.inc < MaxCrashes
    /\ server' = [server EXCEPT !.phase = "down"]
    /\ job' = [w \in Worker |-> IdleJob]
    /\ todo' = {} /\ cleaner' = IdleCleaner
    /\ UNCHANGED <<rows, files, errors>>

\* recoverExpiredAuditSessionsAtStartup runs first; main then calls Recover(true).
Restart ==
    /\ server.phase = "down"
    /\ server' = [inc |-> server.inc + 1, phase |-> "startup"]
    /\ sess' = [s \in Session |->
                  IF sess[s].state = "started" /\ sess[s].expired
                  THEN [sess[s] EXCEPT !.state = "ended", !.outcome = "terminated"]
                  ELSE sess[s]]
    /\ UNCHANGED <<art, files, job, todo, cleaner, errors>>

Upload(w) ==
    \/ MarkUploading(w) \/ WaitForRecording(w) \/ PutRecording(w) \/ MarkReady(w)
    \/ RemoveSpool(w) \/ FailArtifact(w) \/ FinishAuditSession(w) \/ FinishEndedRecording(w)
    \/ CleanupDriveSpool(w)

Recover == ClaimRecoverableRDPRecordings \/ EndRecoveryPass \/ RecoverRecording

Clean ==
    \/ ClaimAuditSessionsForCleanup \/ CleanNext \/ ListAuditArtifactsForCleanup
    \/ DeleteObject \/ MarkAuditSessionCleanupFailed \/ DeleteClaimedAuditSession

Age(s) == LeaseExpires(s) \/ ArtifactGrowsStale(s) \/ CleanupClaimGrowsStale(s) \/ RetentionEnds(s)

Next ==
    \/ \E s \in Session : Begin(s) \/ RecordDenied(s) \/ GuacdRecords(s) \/ Activate(s)
                          \/ Finish(s) \/ Age(s)
    \/ \E w \in Worker : Upload(w)
    \/ Recover \/ RecoverExpiredAuditSessions \/ Clean \/ Crash \/ Restart

Spec == Init /\ [][Next]_vars

\* Time passes, the server is restarted, its calls return and its three loops
\* keep running; nobody promises that a client ever ends its session.
Fairness ==
    /\ \A s \in Session : WF_vars(Age(s))
    /\ \A w \in Worker : WF_vars(Upload(w))
    /\ WF_vars(Recover) /\ WF_vars(RecoverExpiredAuditSessions) /\ WF_vars(Clean)
    /\ WF_vars(Restart)

FairSpec == Spec /\ Fairness

-----------------------------------------------------------------------------
(* Properties *)

Retained(s) == sess[s].state \in {"started", "ended"} /\ sess[s].cleanup = "ready"

\* No recording is lost before retention claims its session: through every
\* failed upload, crash and retry the bytes are in the spool or in the object
\* store.
EvidenceKept ==
    \A s \in produced : Retained(s) => s \in spool \cup objects

\* What the replay endpoint serves exists: a session that reports a ready
\* recording has a ready artifact whose object is stored.
ReadyRecordingIsStored ==
    \A s \in Session : Retained(s) /\ sess[s].rec = "ready" =>
        art[s].status = "ready" /\ s \in objects

\* A purged session leaves no object and no artifact row behind, although an
\* upload writes both without asking whether the session still exists.
PurgeIsComplete ==
    \A s \in Session : sess[s].state = "deleted" =>
        s \notin objects /\ art[s].status = "absent"

\* The evidence from the first recorded byte to the purge: never lost, never
\* announced without being there, never left behind (RDPRecordingService,
\* AuditRetentionService).
RecordingPreserved == EvidenceKept /\ ReadyRecordingIsStored /\ PurgeIsComplete

\* rdp_recording_recovery_test.go has the startup pass finish an interrupted
\* session as terminated by "service_restarted", with the status of its
\* recording: after a pass without errors the session has ended and reports
\* the recording it uploaded.
RecoveryFinishesSession ==
    LET done == job[Recoverer] IN
    done.pc = "drive" => \/ sess[done.s].state = "deleted"
                         \/ sess[done.s].state = "ended" /\ sess[done.s].rec = done.status

\* Every session whose retention period is over is eventually purged: no failed
\* upload, stale claim or crash keeps it, or its recording, for ever.
ExpiredSessionPurged ==
    \A s \in Session : sess[s].old ~> sess[s].state = "deleted"
=============================================================================
