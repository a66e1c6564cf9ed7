------------------------------- MODULE MCSetup ------------------------------
(*****************************************************************************)
(* The beginning and the upkeep of an installation: the set-up of the first  *)
(* administrator with its one key, and the revisions of the system settings. *)
(*****************************************************************************)
EXTENDS AdminSetup

CONSTANTS
    Admin, Field, Hot, Risky, MaxRevision, MaxRestarts

VARIABLES
    part,   \* which of the components the behaviour is of
    row, history, proc, running, settingsReq, restarts

Settings == INSTANCE SystemSettings WITH req <- settingsReq

settingsVars == <<row, history, proc, running, settingsReq, restarts>>
all == <<part, vars, settingsVars>>

ASSUME SettingsBounds == Settings!SettingsAssumption

(* A component that is not looked at stays in one of its initial states. *)
MCInit ==
    /\ part \in {"setup", "settings"}
    /\ Init /\ Settings!Init
    /\ part # "setup" => admins = {}

SetupNext == part = "setup" /\ Next /\ UNCHANGED <<part, settingsVars>>
SettingsNext == part = "settings" /\ Settings!Next /\ UNCHANGED <<part, vars>>

(* The fairness of AdminSetup, for its own part. *)
SetupStep(A) == part = "setup" /\ A /\ UNCHANGED <<part, settingsVars>>

MCFairness == \A r \in Requests : SF_all(SetupStep(Progress(r)))

MCSpec == MCInit /\ [][SetupNext \/ SettingsNext]_all /\ MCFairness

-----------------------------------------------------------------------------
(* Whatever revisions race or are restored, a protection is switched off     *)
(* only by a revision whose author confirmed it.                             *)
RiskWasConfirmed == part = "settings" => Settings!RiskWasConfirmed
=============================================================================
