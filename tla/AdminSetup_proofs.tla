--------------------------- MODULE AdminSetup_proofs ---------------------------
(***************************************************************************)
(* Proofs about AdminSetup and SystemSettings.                             *)
(*                                                                         *)
(* AdminSetup, for any number of requests, attempts and faults: the type   *)
(* invariant, and that the first set-up makes one administrator and the    *)
(* encryption key is shown once.                                           *)
(*                                                                         *)
(* Neither property is inductive.  What carries them is the lock: a        *)
(* request past the insert of the guard row, or past the locking read of   *)
(* it, is the only holder (OnlyHolder), so what it has read of rows and    *)
(* admins is still true when it commits (SetupPending, ClaimPending).      *)
(*                                                                         *)
(* SystemSettings, for any number of administrators, fields and revisions: *)
(* no revision makes a setting riskier unconfirmed.  The strengthening     *)
(* says what a save in progress was judged on (SavesJudged): the values of *)
(* the very revision that its conditional update asks for.                 *)
(***************************************************************************)
EXTENDS MCSetup, TLAPS, FiniteSetTheorems

Held == {"count", "install", "keep", "recheck", "claim"}

Keyed == {r \in Requests : req[r].answer = "key"}

OnlyHolder == \A r \in Requests : req[r].pc \in Held => holder = {r}

(* A set-up in its transaction is the first, and what it counted holds.    *)
SetupPending ==
    /\ others => admins # {}
    /\ \A r \in Requests :
          /\ req[r].pc \in {"count", "install", "keep"} => "setup" \notin rows
          /\ req[r].pc = "install" => admins = {}
          /\ req[r].pc = "keep" => admins # {}

AtMostOneAdmin == \A a, b \in admins : a = b

(* A claim about to commit is the first, and nobody has the key before.    *)
ClaimPending ==
    /\ \A r \in Requests : req[r].pc = "claim" => "claimed" \notin rows
    /\ \A r \in Requests : req[r].answer = "key" => "claimed" \in rows

AtMostOneKey == \A r, q \in Requests : req[r].answer = "key" /\ req[q].answer = "key" => r = q

IInv ==
    /\ TypeOK
    /\ OnlyHolder
    /\ SetupPending
    /\ AtMostOneAdmin
    /\ GuardMeansAdmin
    /\ ClaimPending
    /\ AtMostOneKey

-----------------------------------------------------------------------------
(* A set without two different elements has at most one.                   *)
LEMMA AtMostOne ==
    ASSUME NEW S, \A a, b \in S : a = b
    PROVE  Cardinality(S) <= 1
<1>1. CASE S = {}
    BY <1>1, FS_EmptySet
<1>2. CASE S # {}
    <2>1. PICK a \in S : TRUE
        BY <1>2
    <2>2. S = {a}
        BY <2>1
    <2>. QED
        BY <2>2, FS_Singleton
<1>. QED
    BY <1>1, <1>2

(* The initial states are well-typed.                                      *)
LEMMA TypeInit == Init => TypeOK
<1>1. 0 \in 0 .. MaxAttempts - 1
    BY SetupAssumption
<1>2. NewRequest \in [pc : {"new", "done"} \cup SetupPCs \cup ClaimPCs,
                      attempts : 0 .. MaxAttempts - 1,
                      answer : {"none", "created", "already", "error", "key", "denied"}]
    BY <1>1 DEF NewRequest
<1>. QED
    BY <1>2 DEF Init, TypeOK

(* Every step keeps the types.                                             *)
LEMMA TypeStep == TypeOK /\ [Next]_vars => TypeOK'
<1>. SUFFICES ASSUME TypeOK, [Next]_vars PROVE TypeOK'
    OBVIOUS
<1>. USE DEF TypeOK, SetupPCs, ClaimPCs, At, Goto, Answer, Release
<1>1. ASSUME NEW r \in Requests, BeginSetup(r) PROVE TypeOK'
    BY <1>1 DEF BeginSetup
<1>2. ASSUME NEW r \in Requests, InsertGuard(r) PROVE TypeOK'
    BY <1>2 DEF InsertGuard
<1>3. ASSUME NEW r \in Requests, CountUsers(r) PROVE TypeOK'
    BY <1>3 DEF CountUsers
<1>4. ASSUME NEW r \in Requests, CommitSetup(r) PROVE TypeOK'
    BY <1>4 DEF CommitSetup
<1>5. ASSUME NEW r \in Requests, ReadKey(r) PROVE TypeOK'
    BY <1>5 DEF ReadKey
<1>6. ASSUME NEW r \in Requests, LockSetupRow(r) PROVE TypeOK'
    BY <1>6 DEF LockSetupRow
<1>7. ASSUME NEW r \in Requests, RecheckClaimer(r) PROVE TypeOK'
    BY <1>7 DEF RecheckClaimer
<1>8. ASSUME NEW r \in Requests, CommitClaim(r) PROVE TypeOK'
    BY <1>8 DEF CommitClaim
<1>9. ASSUME NEW r \in Requests, RollBack(r) PROVE TypeOK'
    BY <1>9, SetupAssumption DEF RollBack
<1>10. CASE ChangeUsers
    BY <1>10 DEF ChangeUsers
<1>11. CASE UNCHANGED vars
    BY <1>11 DEF vars
<1>. QED
    BY <1>1, <1>2, <1>3, <1>4, <1>5, <1>6, <1>7, <1>8, <1>9, <1>10, <1>11 DEF Next

(* The type invariant of AdminSetup: every variable keeps its type through *)
(* SetupInitialAdmin, ClaimAdminEncryptionKey and their repetitions.       *)
THEOREM SetupTypeCorrect == Spec => []TypeOK
BY TypeInit, TypeStep, PTL DEF Spec
-----------------------------------------------------------------------------
(* The inductive invariant holds initially: no transaction has begun.      *)
LEMMA InvInit == Init => IInv
<1>. SUFFICES ASSUME Init PROVE IInv
    OBVIOUS
<1>1. TypeOK
    BY TypeInit
<1>2. \A r \in Requests : req[r].pc = "new" /\ req[r].answer = "none"
    BY DEF Init, NewRequest
<1>3. OnlyHolder /\ ClaimPending /\ AtMostOneKey
    BY <1>2 DEF OnlyHolder, ClaimPending, AtMostOneKey, Held
<1>4. SetupPending /\ AtMostOneAdmin /\ GuardMeansAdmin
    BY <1>2 DEF Init, SetupPending, AtMostOneAdmin, GuardMeansAdmin
<1>. QED
    BY <1>1, <1>3, <1>4 DEF IInv

(* Every step keeps the inductive invariant.                               *)
LEMMA InvStep == IInv /\ [Next]_vars => IInv'
<1>. SUFFICES ASSUME IInv, [Next]_vars PROVE IInv'
    OBVIOUS
<1>0. TypeOK'
    BY TypeStep DEF IInv
<1>. DEFINE Rest == OnlyHolder /\ SetupPending /\ AtMostOneAdmin /\ GuardMeansAdmin
                        /\ ClaimPending /\ AtMostOneKey
<1>. USE DEF IInv, TypeOK, OnlyHolder, SetupPending, AtMostOneAdmin, GuardMeansAdmin,
             ClaimPending, AtMostOneKey, Held, SetupPCs, ClaimPCs, At, Goto, Answer, Release
<1>1. ASSUME NEW r \in Requests, BeginSetup(r) PROVE Rest'
    BY <1>1 DEF BeginSetup
<1>2. ASSUME NEW r \in Requests, InsertGuard(r) PROVE Rest'
    BY <1>2 DEF InsertGuard
<1>3. ASSUME NEW r \in Requests, CountUsers(r) PROVE Rest'
    BY <1>3 DEF CountUsers
<1>4. ASSUME NEW r \in Requests, CommitSetup(r) PROVE Rest'
    <2>1. /\ req[r].pc \in {"install", "keep"} /\ holder = {r} /\ "setup" \notin rows
          /\ \A q \in Requests \ {r} : req[q].pc \notin Held
        BY <1>4 DEF CommitSetup
    <2>2. PICK a \in {"created", "already", "error"} :
              req' = [req EXCEPT ![r].pc = "done", ![r].answer = a]
        BY <1>4 DEF CommitSetup
    <2>3. \A q \in Requests :
              /\ req'[q].pc \notin Held
              /\ req'[q].answer = "key" => req[q].answer = "key"
        BY <2>1, <2>2
    <2>4. rows' = rows \cup {"setup"} /\ others' = others
        BY <1>4 DEF CommitSetup
    <2>5. admins' # {} /\ AtMostOneAdmin'
        <3>1. CASE At(r, "install")
            <4>1. admins = {}
                BY <3>1
            <4>2. admins' = {r}
                BY <1>4, <3>1, <4>1 DEF CommitSetup
            <4>. QED
                BY <4>2
        <3>2. CASE At(r, "keep")
            <4>1. admins # {} /\ admins' = admins
                BY <1>4, <3>2 DEF CommitSetup
            <4>. QED
                BY <4>1
        <3>. QED
            BY <2>1, <3>1, <3>2
    <2>6. "claimed" \in rows <=> "claimed" \in rows'
        BY <2>4
    <2>7. OnlyHolder' /\ ClaimPending' /\ AtMostOneKey'
        BY <2>3, <2>6
    <2>8. SetupPending' /\ GuardMeansAdmin'
        BY <2>3, <2>5
    <2>. QED
        BY <2>5, <2>7, <2>8
<1>5. ASSUME NEW r \in Requests, ReadKey(r) PROVE Rest'
    BY <1>5 DEF ReadKey
<1>6. ASSUME NEW r \in Requests, LockSetupRow(r) PROVE Rest'
    BY <1>6 DEF LockSetupRow
<1>7. ASSUME NEW r \in Requests, RecheckClaimer(r) PROVE Rest'
    BY <1>7 DEF RecheckClaimer, ClaimTaken
<1>8. ASSUME NEW r \in Requests, CommitClaim(r) PROVE Rest'
    BY <1>8 DEF CommitClaim, ClaimTaken
<1>9. ASSUME NEW r \in Requests, RollBack(r) PROVE Rest'
    BY <1>9 DEF RollBack
<1>10. CASE ChangeUsers
    BY <1>10 DEF ChangeUsers
<1>11. CASE UNCHANGED vars
    BY <1>11 DEF vars
<1>. QED
    BY <1>0, <1>1, <1>2, <1>3, <1>4, <1>5, <1>6, <1>7, <1>8, <1>9, <1>10, <1>11 DEF Next

(* The first set-up makes one administrator however many requests race or  *)
(* are repeated (the guard row of SetupInitialAdmin), the guard row means  *)
(* that one exists, and ClaimAdminEncryptionKey lets the key out once.     *)
THEOREM SetupSafe == Spec => [](OneAdminOneKey /\ GuardMeansAdmin)
<1>1. IInv => OneAdminOneKey /\ GuardMeansAdmin
    <2>. SUFFICES ASSUME IInv PROVE OneAdminOneKey /\ GuardMeansAdmin
        OBVIOUS
    <2>1. OneInitialAdmin
        BY AtMostOne DEF IInv, AtMostOneAdmin, OneInitialAdmin
    <2>2. \A r, q \in Keyed : r = q
        BY DEF IInv, AtMostOneKey, Keyed
    <2>3. KeyShownOnce
        BY <2>2, AtMostOne DEF KeyShownOnce, Keyed
    <2>. QED
        BY <2>1, <2>3 DEF IInv, OneAdminOneKey
<1>. QED
    BY InvInit, InvStep, <1>1, PTL DEF Spec
-----------------------------------------------------------------------------
(* SystemSettings *)

(* A save that passed the checks of Update holds what it was judged on:    *)
(* the values of the revision it will ask for, which nobody rewrites.      *)
SavesJudged ==
    \A a \in Admin : settingsReq[a].pc = "save" =>
        LET q == settingsReq[a] IN
        /\ q.seen \in 1 .. row.revision /\ q.seen < MaxRevision
        /\ q.base = history[q.seen].values
        /\ Settings!RiskyFields(q.base, q.want) # {} => q.confirm

SettingsRow == [revision : 0 .. MaxRevision, values : Settings!Values, applied : 0 .. MaxRevision]
Revision == [values : Settings!Values, changed : SUBSET Field, confirmed : BOOLEAN]
Process == [phase : {"down", "prepared", "up"}, effective : Settings!Values, revision : 0 .. MaxRevision]
SettingsRequest == [pc : {"idle", "save", "apply", "mark", "publish", "done"},
                    seen : 0 .. MaxRevision, want : Settings!Values, confirm : BOOLEAN,
                    base : Settings!Values, revision : 0 .. MaxRevision]

(* The type invariant of SystemSettings, with a name for every type.       *)
SettingsTyped ==
    /\ row \in SettingsRow
    /\ history \in [1 .. MaxRevision -> Revision]
    /\ proc \in Process
    /\ running \in Settings!Values
    /\ settingsReq \in [Admin -> SettingsRequest]
    /\ restarts \in 0 .. MaxRestarts

SettingsInv ==
    /\ SettingsTyped
    /\ row.revision > 0 => history[row.revision].values = row.values
    /\ SavesJudged
    /\ Settings!RiskWasConfirmed

(* The values an installation starts with, and a page without a request.   *)
LEMMA SettingsDefaults ==
    /\ Settings!Baseline \in Settings!Values
    /\ Settings!NoRequest \in SettingsRequest
    /\ Settings!NoRequest.pc = "idle"
<1>1. Settings!Baseline \in Settings!Values
    BY DEF Settings!Baseline, Settings!Values
<1>. QED
    BY <1>1, SettingsBounds DEF Settings!NoRequest, SettingsRequest, Settings!SettingsAssumption

(* Every step of the settings keeps their types.                           *)
LEMMA SettingsTypeStep ==
    ASSUME SettingsInv, Settings!Next
    PROVE  SettingsTyped'
<1>. USE SettingsBounds, SettingsDefaults DEF Settings!SettingsAssumption, SettingsTyped, SettingsInv
<1>1. ASSUME NEW a \in Admin, Settings!Done(a) PROVE settingsReq' \in [Admin -> SettingsRequest]
    BY <1>1 DEF Settings!Done
<1>2. CASE Settings!PrepareBootstrap
    <2>1. row' \in SettingsRow
        BY <1>2 DEF Settings!PrepareBootstrap, Settings!InitializeSystemSetting, SettingsRow
    <2>0. [values |-> Settings!Baseline, changed |-> Field, confirmed |-> TRUE] \in Revision
        BY DEF Revision
    <2>2. history' \in [1 .. MaxRevision -> Revision]
        BY <1>2, <2>0 DEF Settings!PrepareBootstrap, Settings!InitializeSystemSetting
    <2>3. row'.values \in Settings!Values /\ row'.revision \in 0 .. MaxRevision
        BY <2>1 DEF SettingsRow
    <2>. QED
        BY <1>2, <2>1, <2>2, <2>3 DEF Process, Settings!PrepareBootstrap
<1>3. CASE Settings!ActivateBootstrap
    <2>0. proc.revision \in 0 .. MaxRevision
        BY DEF Process
    <2>1. row' \in SettingsRow
        BY <1>3, <2>0 DEF Settings!ActivateBootstrap, Settings!MarkSystemSettingApplied, SettingsRow
    <2>. QED
        BY <1>3, <2>1 DEF Process, Settings!ActivateBootstrap
<1>4. CASE Settings!Restart
    BY <1>4 DEF Settings!Restart, Process
<1>5. ASSUME NEW a \in Admin, Settings!GetState(a) PROVE SettingsTyped'
    <2>1. [Settings!NoRequest EXCEPT !.seen = row.revision, !.want = row.values] \in SettingsRequest
        BY DEF SettingsRequest, SettingsRow
    <2>. QED
        BY <1>5, <2>1 DEF Settings!GetState
<1>6. ASSUME NEW a \in Admin, NEW want \in Settings!Values, NEW confirm \in BOOLEAN,
             Settings!Update(a, want, confirm)
      PROVE  SettingsTyped'
    <2>1. [settingsReq[a] EXCEPT !.pc = "save", !.want = want, !.confirm = confirm,
                                 !.base = row.values] \in SettingsRequest
        BY DEF SettingsRequest, SettingsRow
    <2>2. settingsReq' \in [Admin -> SettingsRequest]
        BY <1>1, <1>6, <2>1 DEF Settings!Update
    <2>. QED
        BY <1>6, <2>2 DEF Settings!Update
<1>7. ASSUME NEW a \in Admin, Settings!Persist(a) PROVE SettingsTyped'
    <2>1. CASE Settings!Done(a) /\ row' = row /\ history' = history
        BY <1>1, <1>7, <2>1 DEF Settings!Persist
    <2>2. CASE /\ Settings!UpdateSystemSetting(settingsReq[a].seen, settingsReq[a].want, a)
               /\ \E pc \in {"apply", "done"} :
                     settingsReq' = [settingsReq EXCEPT ![a].pc = pc,
                                                        ![a].revision = settingsReq[a].seen + 1]
        <3>1. settingsReq[a].pc = "save" /\ settingsReq[a].seen + 1 \in 1 .. MaxRevision
            BY <1>7 DEF Settings!Persist, SavesJudged, SettingsRow
        <3>2. /\ settingsReq[a].want \in Settings!Values /\ settingsReq[a].confirm \in BOOLEAN
              /\ settingsReq[a] \in SettingsRequest
            BY DEF SettingsRequest
        <3>3. row' \in SettingsRow
            <4>1. row' = [row EXCEPT !.revision = settingsReq[a].seen + 1, !.values = settingsReq[a].want]
                BY <2>2 DEF Settings!UpdateSystemSetting
            <4>2. settingsReq[a].seen + 1 \in 0 .. MaxRevision
                BY <3>1
            <4>. QED
                BY <3>2, <4>1, <4>2 DEF SettingsRow
        <3>4. history' \in [1 .. MaxRevision -> Revision]
            BY <2>2, <3>1, <3>2 DEF Settings!UpdateSystemSetting, Settings!ChangedFields, Revision
        <3>5. settingsReq' \in [Admin -> SettingsRequest]
            <4>1. PICK pc \in {"apply", "done"} :
                      settingsReq' = [settingsReq EXCEPT ![a].pc = pc,
                                                         ![a].revision = settingsReq[a].seen + 1]
                BY <2>2
            <4>2. settingsReq[a].seen + 1 \in 0 .. MaxRevision
                BY <3>1
            <4>. QED
                BY <4>1, <4>2 DEF SettingsRequest
        <3>. QED
            BY <1>7, <3>3, <3>4, <3>5 DEF Settings!Persist
    <2>. QED
        BY <1>7, <2>1, <2>2 DEF Settings!Persist
<1>8. ASSUME NEW a \in Admin, Settings!ApplyHotReload(a) PROVE SettingsTyped'
    <2>1. settingsReq[a].want \in Settings!Values
        BY DEF SettingsRequest
    <2>2. running' \in Settings!Values
        BY <1>8, <2>1 DEF Settings!ApplyHotReload, Settings!Values
    <2>3. settingsReq' \in [Admin -> SettingsRequest]
        BY <1>8 DEF Settings!ApplyHotReload, SettingsRequest
    <2>. QED
        BY <1>8, <2>2, <2>3 DEF Settings!ApplyHotReload
<1>9. ASSUME NEW a \in Admin, Settings!MarkApplied(a) PROVE SettingsTyped'
    <2>1. settingsReq[a].revision \in 0 .. MaxRevision
        BY DEF SettingsRequest
    <2>2. row' \in SettingsRow
        BY <1>9, <2>1 DEF Settings!MarkApplied, Settings!MarkSystemSettingApplied, SettingsRow
    <2>3. settingsReq' \in [Admin -> SettingsRequest]
        <3>1. CASE Settings!Done(a)
            BY <1>1, <3>1
        <3>2. CASE settingsReq' = [settingsReq EXCEPT ![a].pc = "publish"]
            BY <3>2 DEF SettingsRequest
        <3>. QED
            BY <1>9, <3>1, <3>2 DEF Settings!MarkApplied
    <2>. QED
        BY <1>9, <2>2, <2>3 DEF Settings!MarkApplied
<1>10. ASSUME NEW a \in Admin, Settings!Publish(a) PROVE SettingsTyped'
    <2>1. settingsReq[a].want \in Settings!Values /\ settingsReq[a].revision \in 0 .. MaxRevision
        BY DEF SettingsRequest
    <2>2. settingsReq' \in [Admin -> SettingsRequest]
        BY <1>10 DEF Settings!Publish, SettingsRequest
    <2>. QED
        BY <1>10, <2>1, <2>2 DEF Settings!Publish, Process
<1>11. ASSUME NEW a \in Admin, Settings!Answer(a) PROVE SettingsTyped'
    BY <1>1, <1>11 DEF Settings!Answer
<1>. QED
    BY <1>2, <1>3, <1>4, <1>5, <1>6, <1>7, <1>8, <1>9, <1>10, <1>11 DEF Settings!Next
(* A step that only ends or advances requests keeps the judgements.        *)
LEMMA JudgementsKept ==
    ASSUME SettingsInv, UNCHANGED history, row'.revision = row.revision, row'.values = row.values,
           \A a \in Admin : settingsReq'[a].pc = "save" => settingsReq'[a] = settingsReq[a]
    PROVE  /\ row'.revision > 0 => history'[row'.revision].values = row'.values
           /\ SavesJudged' /\ Settings!RiskWasConfirmed'
<1>1. SavesJudged'
    BY DEF SettingsInv, SavesJudged, Settings!RiskyFields
<1>2. Settings!RiskWasConfirmed'
    BY DEF SettingsInv, Settings!RiskWasConfirmed
<1>. QED
    BY <1>1, <1>2 DEF SettingsInv

(* Every step of the settings keeps the inductive invariant.               *)
LEMMA SettingsStep ==
    ASSUME SettingsInv, Settings!Next
    PROVE  SettingsInv'
<1>. DEFINE Rest == /\ row.revision > 0 => history[row.revision].values = row.values
                    /\ SavesJudged /\ Settings!RiskWasConfirmed
<1>0. SettingsTyped'
    BY SettingsTypeStep
<1>. SUFFICES Rest'
    BY <1>0 DEF SettingsInv
<1>. USE SettingsBounds, SettingsDefaults DEF Settings!SettingsAssumption
<1>1. /\ row \in SettingsRow /\ history \in [1 .. MaxRevision -> Revision]
      /\ settingsReq \in [Admin -> SettingsRequest] /\ row.revision \in 0 .. MaxRevision
    BY DEF SettingsInv, SettingsTyped, SettingsRow
<1>2. CASE Settings!PrepareBootstrap
    <2>1. CASE row.revision > 0
        BY <1>2, <2>1, JudgementsKept DEF Settings!PrepareBootstrap, Settings!InitializeSystemSetting
    <2>2. CASE ~(row.revision > 0)
        <3>1. /\ row' = [revision |-> 1, values |-> Settings!Baseline, applied |-> 0]
              /\ history' = [history EXCEPT ![1] = [values |-> Settings!Baseline, changed |-> Field,
                                                    confirmed |-> TRUE]]
              /\ UNCHANGED settingsReq
            BY <1>2, <2>2 DEF Settings!PrepareBootstrap, Settings!InitializeSystemSetting
        <3>2. row.revision = 0 /\ row'.revision = 1 /\ row'.values = history'[1].values
            BY <1>1, <2>2, <3>1
        <3>3. SavesJudged'
            BY <3>1, <3>2 DEF SettingsInv, SavesJudged
        <3>4. Settings!RiskWasConfirmed'
            BY <3>2 DEF Settings!RiskWasConfirmed
        <3>. QED
            BY <3>2, <3>3, <3>4
    <2>. QED
        BY <2>1, <2>2
<1>3. CASE Settings!ActivateBootstrap
    <2>1. row'.revision = row.revision /\ row'.values = row.values
        BY <1>1, <1>3 DEF Settings!ActivateBootstrap, Settings!MarkSystemSettingApplied, SettingsRow
    <2>. QED
        BY <1>3, <2>1, JudgementsKept DEF Settings!ActivateBootstrap
<1>4. CASE Settings!Restart
    BY <1>4, JudgementsKept DEF Settings!Restart
<1>5. ASSUME NEW a \in Admin, Settings!GetState(a) PROVE Rest'
    <2>1. settingsReq'[a].pc = "idle" /\ \A b \in Admin \ {a} : settingsReq'[b] = settingsReq[b]
        BY <1>1, <1>5 DEF Settings!GetState, SettingsRequest
    <2>. QED
        BY <1>5, <2>1, JudgementsKept DEF Settings!GetState
<1>6. ASSUME NEW a \in Admin, NEW want \in Settings!Values, NEW confirm \in BOOLEAN,
             Settings!Update(a, want, confirm)
      PROVE  Rest'
    <2>1. CASE Settings!Done(a)
        BY <1>1, <1>6, <2>1, JudgementsKept DEF Settings!Update, Settings!Done
    <2>2. CASE /\ row.revision = settingsReq[a].seen
               /\ Settings!RiskyFields(row.values, want) # {} => confirm
               /\ settingsReq' = [settingsReq EXCEPT ![a] = [@ EXCEPT !.pc = "save", !.want = want,
                                        !.confirm = confirm, !.base = row.values]]
        <3>1. /\ settingsReq'[a].seen = row.revision /\ settingsReq'[a].base = row.values
              /\ settingsReq'[a].want = want /\ settingsReq'[a].confirm = confirm
              /\ \A b \in Admin \ {a} : settingsReq'[b] = settingsReq[b]
            BY <1>1, <2>2 DEF SettingsRequest
        <3>2. row.revision \in 1 .. MaxRevision /\ row.revision < MaxRevision
              /\ UNCHANGED <<row, history>>
            BY <1>1, <1>6, <2>2 DEF Settings!Update
        <3>3. SavesJudged'
            <4>1. ASSUME NEW b \in Admin \ {a}, settingsReq'[b].pc = "save"
                  PROVE  LET q == settingsReq'[b] IN
                         /\ q.seen \in 1 .. row'.revision /\ q.seen < MaxRevision
                         /\ q.base = history'[q.seen].values
                         /\ Settings!RiskyFields(q.base, q.want) # {} => q.confirm
                BY <3>1, <3>2, <4>1 DEF SettingsInv, SavesJudged
            <4>2. LET q == settingsReq'[a] IN
                  /\ q.seen \in 1 .. row'.revision /\ q.seen < MaxRevision
                  /\ q.base = history'[q.seen].values
                  /\ Settings!RiskyFields(q.base, q.want) # {} => q.confirm
                BY <2>2, <3>1, <3>2 DEF SettingsInv
            <4>. QED
                BY <4>1, <4>2 DEF SavesJudged, Settings!RiskyFields
        <3>4. Settings!RiskWasConfirmed'
            BY <3>2 DEF SettingsInv, Settings!RiskWasConfirmed
        <3>. QED
            BY <3>2, <3>3, <3>4 DEF SettingsInv
    <2>. QED
        BY <1>6, <2>1, <2>2 DEF Settings!Update
<1>7. ASSUME NEW a \in Admin, Settings!Persist(a) PROVE Rest'
    <2>1. CASE Settings!Done(a) /\ UNCHANGED <<row, history>>
        BY <1>1, <2>1, JudgementsKept DEF Settings!Done
    <2>2. CASE /\ Settings!Matches(settingsReq[a].seen)
               /\ Settings!UpdateSystemSetting(settingsReq[a].seen, settingsReq[a].want, a)
               /\ \E pc \in {"apply", "done"} :
                     settingsReq' = [settingsReq EXCEPT ![a].pc = pc,
                                                        ![a].revision = settingsReq[a].seen + 1]
        <3>. DEFINE n == row.revision
                    q == settingsReq[a]
        <3>1. /\ q.seen = n /\ n \in 1 .. MaxRevision /\ n < MaxRevision
              /\ q.base = history[n].values
              /\ Settings!RiskyFields(q.base, q.want) # {} => q.confirm
            <4>1. q.pc = "save" /\ q.seen = n /\ n > 0
                BY <1>7, <2>2 DEF Settings!Persist, Settings!Matches
            <4>2. /\ q.seen \in 1 .. n /\ q.seen < MaxRevision
                  /\ q.base = history[q.seen].values
                  /\ Settings!RiskyFields(q.base, q.want) # {} => q.confirm
                BY <4>1 DEF SettingsInv, SavesJudged
            <4>. QED
                BY <1>1, <4>1, <4>2
        <3>2. /\ row'.revision = n + 1 /\ row'.values = q.want
              /\ history'[n + 1] = [values |-> q.want, changed |-> Settings!ChangedFields(q.base, q.want),
                                    confirmed |-> q.confirm]
              /\ \A r \in 1 .. n : history'[r] = history[r]
            <4>1. /\ row' = [row EXCEPT !.revision = n + 1, !.values = q.want]
                  /\ history' = [history EXCEPT ![n + 1] =
                        [values |-> q.want, changed |-> Settings!ChangedFields(q.base, q.want),
                         confirmed |-> q.confirm]]
                BY <2>2, <3>1 DEF Settings!UpdateSystemSetting
            <4>2. n + 1 \in 1 .. MaxRevision /\ \A r \in 1 .. n : r # n + 1 /\ r \in 1 .. MaxRevision
                BY <3>1
            <4>3. row'.revision = n + 1 /\ row'.values = q.want
                BY <1>1, <4>1 DEF SettingsRow
            <4>. QED
                BY <1>1, <4>1, <4>2, <4>3
        <3>3. /\ settingsReq'[a].pc # "save"
              /\ \A b \in Admin \ {a} : settingsReq'[b] = settingsReq[b]
            BY <1>1, <2>2 DEF SettingsRequest
        <3>4. SavesJudged'
            <4>1. ASSUME NEW b \in Admin \ {a}, settingsReq'[b].pc = "save"
                  PROVE  /\ settingsReq[b].seen \in 1 .. n /\ settingsReq[b].seen < MaxRevision
                         /\ settingsReq[b].base = history'[settingsReq[b].seen].values
                         /\ Settings!RiskyFields(settingsReq[b].base, settingsReq[b].want) # {}
                               => settingsReq[b].confirm
                BY <3>2, <3>3, <4>1 DEF SettingsInv, SavesJudged
            <4>2. \A k \in 1 .. n : k \in 1 .. row'.revision
                BY <1>1, <3>2
            <4>. QED
                BY <3>3, <4>1, <4>2 DEF SavesJudged, Settings!RiskyFields
        <3>5. Settings!RiskWasConfirmed'
            <4>1. ASSUME NEW r \in 2 .. n + 1
                  PROVE  /\ history'[r].changed
                               = Settings!ChangedFields(history'[r - 1].values, history'[r].values)
                         /\ Settings!RiskyFields(history'[r - 1].values, history'[r].values) # {}
                               => history'[r].confirmed
                <5>1. CASE r = n + 1
                    BY <1>1, <3>1, <3>2, <5>1
                <5>2. CASE r # n + 1
                    <6>1. r \in 2 .. n /\ r \in 1 .. n /\ r - 1 \in 1 .. n
                        BY <1>1, <5>2
                    <6>. QED
                        BY <3>2, <6>1 DEF SettingsInv, Settings!RiskWasConfirmed
                <5>. QED
                    BY <5>1, <5>2
            <4>. QED
                BY <3>2, <4>1 DEF Settings!RiskWasConfirmed, Settings!ChangedFields, Settings!RiskyFields
        <3>. QED
            BY <3>2, <3>4, <3>5
    <2>. QED
        BY <1>7, <2>1, <2>2 DEF Settings!Persist
<1>8. ASSUME NEW a \in Admin, Settings!ApplyHotReload(a) PROVE Rest'
    BY <1>1, <1>8, JudgementsKept DEF Settings!ApplyHotReload, SettingsRequest
<1>9. ASSUME NEW a \in Admin, Settings!MarkApplied(a) PROVE Rest'
    <2>1. row'.revision = row.revision /\ row'.values = row.values
        BY <1>1, <1>9 DEF Settings!MarkApplied, Settings!MarkSystemSettingApplied, SettingsRow
    <2>2. settingsReq'[a].pc # "save" /\ \A b \in Admin \ {a} : settingsReq'[b] = settingsReq[b]
        BY <1>1, <1>9 DEF Settings!MarkApplied, Settings!Done, SettingsRequest
    <2>. QED
        BY <1>9, <2>1, <2>2, JudgementsKept DEF Settings!MarkApplied
<1>10. ASSUME NEW a \in Admin, Settings!Publish(a) PROVE Rest'
    BY <1>1, <1>10, JudgementsKept DEF Settings!Publish, SettingsRequest
<1>11. ASSUME NEW a \in Admin, Settings!Answer(a) PROVE Rest'
    BY <1>1, <1>11, JudgementsKept DEF Settings!Answer, Settings!Done
<1>. QED
    BY <1>2, <1>3, <1>4, <1>5, <1>6, <1>7, <1>8, <1>9, <1>10, <1>11 DEF Settings!Next

(* The settings start without a row.                                       *)
LEMMA SettingsInit == Settings!Init => SettingsInv
<1>. SUFFICES ASSUME Settings!Init PROVE SettingsInv
    OBVIOUS
<1>. USE SettingsBounds, SettingsDefaults DEF Settings!SettingsAssumption, Settings!Init
<1>1. SettingsTyped
    BY DEF SettingsTyped, SettingsRow, Revision, Process
<1>2. SavesJudged
    BY DEF SavesJudged
<1>3. Settings!RiskWasConfirmed
    BY DEF Settings!RiskWasConfirmed
<1>. QED
    BY <1>1, <1>2, <1>3 DEF SettingsInv

(* Every revision of the settings lists exactly the fields it changed, and *)
(* one that makes a protection weaker was confirmed, although              *)
(* SystemSettingsService.Update judges the risk on a row it read before    *)
(* the transaction that saves it, whoever saves or restarts in between.    *)
THEOREM SettingsCorrect == MCSpec => []RiskWasConfirmed
<1>. DEFINE Inv == part = "settings" => SettingsInv
<1>1. MCInit => Inv
    BY SettingsInit DEF MCInit
<1>2. Inv /\ [SetupNext \/ SettingsNext]_all => Inv'
    <2>. SUFFICES ASSUME Inv, [SetupNext \/ SettingsNext]_all, part' = "settings" PROVE SettingsInv'
        OBVIOUS
    <2>1. CASE SetupNext
        BY <2>1 DEF SetupNext
    <2>2. CASE SettingsNext
        BY <2>2, SettingsStep DEF SettingsNext
    <2>3. CASE UNCHANGED all
        BY <2>3 DEF all, settingsVars, SettingsInv, SettingsTyped, SavesJudged,
                    Settings!RiskWasConfirmed
    <2>. QED
        BY <2>1, <2>2, <2>3
<1>3. Inv => RiskWasConfirmed
    BY DEF RiskWasConfirmed, SettingsInv
<1>. QED
    BY <1>1, <1>2, <1>3, PTL DEF MCSpec
=============================================================================
