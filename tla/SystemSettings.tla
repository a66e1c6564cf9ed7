--------------------------- MODULE SystemSettings ---------------------------
(***************************************************************************)
(* The system settings: the singleton row with its revision history        *)
(* (internal/store/system_setting.go), the service that validates, saves   *)
(* and hot-reloads them (internal/service/system_setting*.go), the         *)
(* administrators who edit them through the console, and the process that  *)
(* runs with the settings it was started with.                             *)
(*                                                                         *)
(* The sixteen fields fall into kinds: hot (login_captcha_enabled, applied *)
(* at once) or read at the start; and risky to switch off or not.  Each    *)
(* field here is a switch; Hot and Risky say what kind it is.              *)
(***************************************************************************)
EXTENDS Integers, FiniteSets

CONSTANTS Admin,         \* administrators with the settings page open
          Field,         \* the settings' fields
          Hot,           \* hotReloadableSystemSettingFields
          Risky,         \* fields whose switching off needs a confirmation
          MaxRevision,   \* bound: revisions saved
          MaxRestarts    \* bound: restarts of the process

SettingsAssumption == MaxRevision \in Nat \ {0} /\ MaxRestarts \in Nat

VARIABLES row,        \* the system_settings row: revision, values, applied_revision
          history,    \* the system_setting_revisions rows, by revision
          proc,       \* the process: boot phase, and the service's effective state
          running,    \* the values the process's components really use
          req,        \* per administrator: the request in progress
          restarts

vars == <<row, history, proc, running, req, restarts>>

Values == [Field -> BOOLEAN]
Baseline == [f \in Field |-> TRUE]
NoRequest == [pc |-> "idle", seen |-> 0, want |-> Baseline, confirm |-> FALSE,
              base |-> Baseline, revision |-> 0]

-----------------------------------------------------------------------------
(* What a change is *)

ChangedFields(before, after) == {f \in Field : before[f] # after[f]}
RiskyFields(before, after) == {f \in Risky : before[f] /\ ~after[f]}
HotReloadable(fields) == fields # {} /\ fields \subseteq Hot

-----------------------------------------------------------------------------
(* The store: one transaction each *)

(* InitializeSystemSetting: an existing row is never replaced. *)
InitializeSystemSetting ==
  IF row.revision > 0 THEN UNCHANGED <<row, history>>
  ELSE /\ row' = [revision |-> 1, values |-> Baseline, applied |-> 0]
       /\ history' = [history EXCEPT ![1] = [values |-> Baseline, changed |-> Field, confirmed |-> TRUE]]

(* Mutant: the row is found by its id alone, without the expected revision. *)
MutantMatches(expected) == row.revision > 0

(* WHERE id = ? AND revision = ? *)
Matches(expected) == row.revision > 0 /\ row.revision = expected

UpdateSystemSetting(expected, values, confirmed) ==
  /\ row' = [row EXCEPT !.revision = expected + 1, !.values = values]
  /\ history' = [history EXCEPT ![expected + 1] =
       [values |-> values, changed |-> ChangedFields(req[confirmed].base, values),
        confirmed |-> req[confirmed].confirm]]

MarkSystemSettingApplied(revision) == row' = [row EXCEPT !.applied = revision]

-----------------------------------------------------------------------------
(* The process *)

Init ==
  /\ row = [revision |-> 0, values |-> Baseline, applied |-> 0]
  /\ history = [r \in 1 .. MaxRevision |-> [values |-> Baseline, changed |-> {}, confirmed |-> FALSE]]
  /\ proc = [phase |-> "down", effective |-> Baseline, revision |-> 0]
  /\ running = Baseline
  /\ req = [a \in Admin |-> NoRequest]
  /\ restarts = 0

(* PrepareBootstrap: create the row from the configuration if there is none. *)
PrepareBootstrap ==
  /\ proc.phase = "down"
  /\ InitializeSystemSetting
  /\ proc' = [phase |-> "prepared", effective |-> row'.values, revision |-> row'.revision]
  /\ UNCHANGED <<running, req, restarts>>

(* ActivateBootstrap: mark the prepared revision applied, then publish it;   *)
(* the components are built with it before the console opens.                *)
ActivateBootstrap ==
  /\ proc.phase = "prepared"
  /\ \/ /\ Matches(proc.revision) /\ row.values = proc.effective
        /\ MarkSystemSettingApplied(proc.revision)
        /\ proc' = [proc EXCEPT !.phase = "up"]
        /\ running' = proc.effective
     \/ /\ proc' = [proc EXCEPT !.phase = "down"]     \* conflict or a failed write
        /\ restarts < MaxRestarts
        /\ UNCHANGED <<row, running>>
  /\ restarts' = IF proc'.phase = "down" THEN restarts + 1 ELSE restarts
  /\ UNCHANGED <<history, req>>

(* The process stops or crashes, with whatever requests it was serving. *)
Restart ==
  /\ proc.phase = "up" /\ restarts < MaxRestarts
  /\ proc' = [proc EXCEPT !.phase = "down"]
  /\ req' = [a \in Admin |-> NoRequest]
  /\ restarts' = restarts + 1
  /\ UNCHANGED <<row, history, running>>

-----------------------------------------------------------------------------
(* The console *)

PendingRestart == row.revision # proc.revision

(* GET: the page shows the desired values and their revision. *)
GetState(a) ==
  /\ proc.phase = "up" /\ req[a].pc = "idle" /\ req[a].seen # row.revision
  /\ req' = [req EXCEPT ![a] = [NoRequest EXCEPT !.seen = row.revision, !.want = row.values]]
  /\ UNCHANGED <<row, history, proc, running, restarts>>

Done(a) == req' = [req EXCEPT ![a] = NoRequest]

(* PUT: Update loads the row, compares its revision with the one the page    *)
(* was made from, and asks for a confirmation of what would become riskier.  *)
Update(a, want, confirm) ==
  /\ proc.phase = "up" /\ req[a].pc = "idle" /\ req[a].seen > 0
  /\ row.revision < MaxRevision
  /\ \/ /\ row.revision = req[a].seen
        /\ ChangedFields(row.values, want) # {}
        /\ RiskyFields(row.values, want) # {} => confirm
        /\ req' = [req EXCEPT ![a] = [@ EXCEPT !.pc = "save", !.want = want, !.confirm = confirm,
                                               !.base = row.values]]
     \/ /\ \/ row.revision # req[a].seen
           \/ ChangedFields(row.values, want) = {}
           \/ RiskyFields(row.values, want) # {} /\ ~confirm
        /\ Done(a)
  /\ UNCHANGED <<row, history, proc, running, restarts>>

(* UpdateSystemSetting's transaction, or a conflict. *)
Persist(a) ==
  /\ proc.phase = "up" /\ req[a].pc = "save"
  /\ \/ /\ Matches(req[a].seen)
        /\ UpdateSystemSetting(req[a].seen, req[a].want, a)
        /\ req' = [req EXCEPT ![a].pc =
             IF HotReloadable(ChangedFields(req[a].base, req[a].want)) THEN "apply" ELSE "done",
             ![a].revision = req[a].seen + 1]
     \/ Done(a) /\ UNCHANGED <<row, history>>     \* conflict or a failed write
  /\ UNCHANGED <<proc, running, restarts>>

(* applyHotReload: the registered applier sets the captcha switch. *)
ApplyHotReload(a) ==
  /\ proc.phase = "up" /\ req[a].pc = "apply"
  /\ running' = [f \in Field |-> IF f \in Hot THEN req[a].want[f] ELSE running[f]]
  /\ req' = [req EXCEPT ![a].pc = "mark"]
  /\ UNCHANGED <<row, history, proc, restarts>>

MarkApplied(a) ==
  /\ proc.phase = "up" /\ req[a].pc = "mark"
  /\ \/ /\ Matches(req[a].revision)
        /\ MarkSystemSettingApplied(req[a].revision)
        /\ req' = [req EXCEPT ![a].pc = "publish"]
     \/ UNCHANGED row /\ Done(a)              \* conflict or a failed write: an error to the page
  /\ UNCHANGED <<history, proc, running, restarts>>

(* Under the lock: the whole update becomes the effective configuration. *)
Publish(a) ==
  /\ proc.phase = "up" /\ req[a].pc = "publish"
  /\ proc' = [proc EXCEPT !.effective = req[a].want, !.revision = req[a].revision]
  /\ req' = [req EXCEPT ![a].pc = "done"]
  /\ UNCHANGED <<row, history, running, restarts>>

(* The answer reaches the page. *)
Answer(a) ==
  /\ proc.phase = "up" /\ req[a].pc = "done"
  /\ Done(a)
  /\ UNCHANGED <<row, history, proc, running, restarts>>

(* Row, history, process and requests are of their types. *)
TypeOK ==
  /\ row \in [revision : 0 .. MaxRevision, values : Values, applied : 0 .. MaxRevision]
  /\ history \in [1 .. MaxRevision -> [values : Values, changed : SUBSET Field, confirmed : BOOLEAN]]
  /\ proc \in [phase : {"down", "prepared", "up"}, effective : Values, revision : 0 .. MaxRevision]
  /\ running \in Values
  /\ req \in [Admin -> [pc : {"idle", "save", "apply", "mark", "publish", "done"},
                        seen : 0 .. MaxRevision, want : Values, confirm : BOOLEAN,
                        base : Values, revision : 0 .. MaxRevision]]
  /\ restarts \in 0 .. MaxRestarts

Next ==
  \/ PrepareBootstrap \/ ActivateBootstrap \/ Restart
  \/ \E a \in Admin :
       \/ GetState(a) \/ Persist(a) \/ ApplyHotReload(a) \/ MarkApplied(a) \/ Publish(a) \/ Answer(a)
       \/ \E want \in Values, confirm \in BOOLEAN : Update(a, want, confirm)

Spec == Init /\ [][Next]_vars

-----------------------------------------------------------------------------
(* Properties *)

(* Every revision in the history differs from its predecessor in exactly the *)
(* fields it lists, and whoever saved it confirmed every field it made       *)
(* riskier: the risk is judged on a row read before the transaction          *)
(* (SystemSettingsService.Update) and stays right because the write is       *)
(* conditional on that row's revision (DBStore.UpdateSystemSetting).         *)
RiskWasConfirmed ==
  \A r \in 2 .. row.revision :
    /\ history[r].changed = ChangedFields(history[r - 1].values, history[r].values)
    /\ RiskyFields(history[r - 1].values, history[r].values) # {} => history[r].confirmed

(* When no save is in progress and no restart is said to be pending, the     *)
(* process runs with the saved settings (stateFromModel's PendingRestart).   *)
NothingPendingIsRunning ==
  (proc.phase = "up" /\ \A a \in Admin : req[a].pc = "idle") /\ ~PendingRestart
    => running = row.values
=============================================================================
