---------------------------- MODULE MCAuditLease ----------------------------
(***************************************************************************)
(* The leases of audit sessions, and the recordings of RDP sessions, which *)
(* are recovered and purged under the leases' protection.                  *)
(***************************************************************************)
EXTENDS AuditLease

CONSTANTS
    Recoverer, NoSession, MaxCrashes, MaxErrors

VARIABLES
    part,   \* which of the components the behaviour is of
    sess, art, spool, drive, objects, produced, server, job, todo, cleaner, errors

Rec == INSTANCE RDPRecording

recVars == <<sess, art, spool, drive, objects, produced, server, job, todo, cleaner, errors>>
all == <<part, vars, recVars>>

ASSUME RecordingAssumption == Rec!WorkerAssumption

(* A component that is not looked at stays in its initial state. *)
MCInit == part \in {"lease", "recording"} /\ Init /\ Rec!Init

LeaseNext == part = "lease" /\ Next /\ UNCHANGED <<part, recVars>>
RecordingNext == part = "recording" /\ Rec!Next /\ UNCHANGED <<part, vars>>

(* The fairness of the two modules, each for its own part. *)
LeaseStep(A) == part = "lease" /\ A /\ UNCHANGED <<part, recVars>>
RecordingStep(A) == part = "recording" /\ A /\ UNCHANGED <<part, vars>>

MCFairness ==
    /\ WF_all(LeaseStep(Tick))
    /\ \A p \in Process :
          /\ WF_all(LeaseStep(StartProcess(p))) /\ WF_all(LeaseStep(Maintain(p)))
          /\ WF_all(LeaseStep(proc[p] = "stopping" /\ WaitForRuntime(p)))
    /\ \A p \in Process, s \in Session : WF_all(LeaseStep(Serve(p, s)))
    /\ \A s \in Session : WF_all(RecordingStep(Rec!Age(s)))
    /\ \A w \in Rec!Worker : WF_all(RecordingStep(Rec!Upload(w)))
    /\ WF_all(RecordingStep(Rec!Recover)) /\ WF_all(RecordingStep(Rec!Clean))
    /\ WF_all(RecordingStep(Rec!RecoverExpiredAuditSessions)) /\ WF_all(RecordingStep(Rec!Restart))

MCSpec == MCInit /\ [][LeaseNext \/ RecordingNext]_all /\ MCFairness

-----------------------------------------------------------------------------
(* The evidence from the first recorded byte to the purge: never lost, never *)
(* announced without being there, never left behind (RDPRecordingService,    *)
(* AuditRetentionService).                                                   *)
RecordingPreserved == Rec!RecordingPreserved

(* Every session whose retention period is over is eventually purged: no     *)
(* failed upload, stale claim or crash keeps it, or its recording, for ever. *)
ExpiredSessionPurged == Rec!ExpiredSessionPurged
=============================================================================
