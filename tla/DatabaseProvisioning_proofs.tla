--------------------- MODULE DatabaseProvisioning_proofs ---------------------
(***************************************************************************)
(* Proofs about the provisioning saga, for any operations, any number of   *)
(* concurrent calls, any number of faults and any durations that satisfy   *)
(* the assumptions of DatabaseProvisioning: its types (TypeCorrect), that  *)
(* every MySQL user stays accounted for (AccountsCorrect), by the          *)
(* inductive invariant SagaInv, and that the saga implements               *)
(* AccountLifecycle (LifecycleImplemented).                                *)
(***************************************************************************)
EXTENDS DatabaseProvisioning, TLAPS

\* A call that is in use works on an operation.
OpKnown == \A c \in Calls :
    call[c].op \in Ops \/ (call[c].pc = "idle" /\ call[c].sent = "none")

TypeInv == TypeOK /\ OpKnown

-----------------------------------------------------------------------------
(* The operators the actions are built from keep the types. *)

\* The row values that sideEffectTimeout, the lease updates and the stage
\* updates of the store produce are rows again.
LEMMA SideEffectTimeoutNat ==
    ASSUME NEW n \in Nat
    PROVE  SideEffectTimeout(n) \in Nat
  BY DurationAssumption DEF DurationAssumption, SideEffectTimeout

\* A side effect that may start ends before the lease it was renewed under.
LEMMA SideEffectTimeoutBound ==
    SideEffectTimeout(LeaseDuration) < LeaseDuration
  BY DurationAssumption DEF DurationAssumption, SideEffectTimeout

\* Every updated row is a row.
LEMMA RowUpdates ==
    ASSUME NEW r \in Rows
    PROVE  /\ Renewed(r) \in Rows
           /\ Claimed(r) \in Rows
           /\ Activated(r) \in Rows
           /\ ReservedRow \in Rows
           /\ Fence(r) \in Fences
           /\ \A to \in Stages, cl \in CleanupStatuses, at, re \in BOOLEAN :
                Transitioned(r, to, cl, at, re) \in Rows
  <1>0. LeaseDuration \in Nat /\ r.rev + 1 \in Nat
    <2>1. LeaseDuration \in Nat BY DurationAssumption
    <2>2. r.rev + 1 \in Nat BY DEF Rows
    <2> QED BY <2>1, <2>2
  <1>1. Renewed(r) \in Rows
    BY <1>0 DEF Rows, Renewed
  <1>2. Claimed(r) \in Rows
    BY <1>0 DEF Rows, Claimed
  <1>5. Activated(r) \in Rows
    BY <1>0 DEF Rows, Activated, Stages, ActiveStages
  <1>6. ReservedRow \in Rows
    BY <1>0 DEF Rows, ReservedRow, Stages, ActiveStages, CleanupStatuses
  <1>3. Fence(r) \in Fences
    BY DEF Rows, Fence, Fences
  <1>4. ASSUME NEW to \in Stages, NEW cl \in CleanupStatuses, NEW at \in BOOLEAN, NEW re \in BOOLEAN
        PROVE  Transitioned(r, to, cl, at, re) \in Rows
    BY <1>4 DEF Rows, Transitioned
  <1> QED BY <1>1, <1>2, <1>3, <1>4, <1>5, <1>6

LEMMA NoCallType == NoCall \in CallRecords /\ NoCall.pc = "idle" /\ NoCall.sent = "none"
  BY DEF NoCall, CallRecords, PCs, Statements, Fence, AbsentRow, Fences, Stages, CleanupStatuses

\* GoTo and GoToWith return or move the call, whatever the call was doing.
LEMMA GoToType ==
    ASSUME TypeInv, NEW c \in Calls, NEW pc \in PCs, call[c].pc # "idle", GoTo(c, pc)
    PROVE  call' \in [Calls -> CallRecords] /\ OpKnown'
  <1>1. call[c] \in CallRecords /\ call[c].op \in Ops
    BY DEF TypeInv, TypeOK, OpKnown
  <1>2. [call[c] EXCEPT !.pc = pc, !.next = "idle", !.fail = "idle", !.rb = 0,
                        !.sent = "none", !.done = FALSE] \in CallRecords
    BY <1>1 DEF CallRecords, PCs, Statements
  <1>3. call' \in [Calls -> CallRecords]
    BY <1>2, NoCallType DEF GoTo, TypeInv, TypeOK
  <1>4. OpKnown'
    BY <1>1, NoCallType DEF GoTo, TypeInv, TypeOK, OpKnown, CallRecords
  <1> QED BY <1>3, <1>4

LEMMA GoToWithType ==
    ASSUME TypeInv, NEW c \in Calls, NEW pc \in PCs, call[c].pc # "idle",
           NEW r \in Rows, GoToWith(c, pc, r)
    PROVE  call' \in [Calls -> CallRecords] /\ OpKnown'
  <1>1. call[c] \in CallRecords /\ call[c].op \in Ops /\ Fence(r) \in Fences
    BY RowUpdates DEF TypeInv, TypeOK, OpKnown
  <1>2. [call[c] EXCEPT !.pc = pc, !.next = "idle", !.fail = "idle", !.rb = 0,
                        !.fence = Fence(r), !.sent = "none", !.done = FALSE] \in CallRecords
    BY <1>1 DEF CallRecords, PCs, Statements
  <1>3. call' \in [Calls -> CallRecords]
    BY <1>2 DEF GoToWith, TypeInv, TypeOK
  <1>4. OpKnown'
    BY <1>1 DEF GoToWith, TypeInv, TypeOK, OpKnown, CallRecords
  <1> QED BY <1>3, <1>4

LEMMA FaultType ==
    ASSUME TypeInv, Fault \/ NoFault
    PROVE  faults' \in 0 .. MaxFaults
  BY DurationAssumption DEF Fault, NoFault, TypeInv, TypeOK

\* Every recorded transition keeps the types.
LEMMA TransitionType ==
    ASSUME TypeInv, NEW c \in Calls, call[c].pc # "idle",
           NEW to \in Stages, NEW cleanup \in CleanupStatuses,
           NEW attempt \in BOOLEAN, NEW release \in BOOLEAN,
           NEW ok \in PCs, NEW fail \in PCs,
           TransitionDetached(c, to, cleanup, attempt, release, ok, fail)
    PROVE  TypeInv'
  <1>1. call[c] \in CallRecords /\ call[c].op \in Ops /\ row[call[c].op] \in Rows
    BY DEF TypeInv, TypeOK, OpKnown
  <1>2. row' \in [Ops -> Rows]
    <2>1. Transitioned(row[call[c].op], to, cleanup, attempt, release) \in Rows
      BY <1>1, RowUpdates
    <2> QED BY <2>1, <1>1 DEF TransitionDetached, TypeInv, TypeOK
  <1>3. faults' \in 0 .. MaxFaults
    BY FaultType DEF TransitionDetached
  <1>4. call' \in [Calls -> CallRecords] /\ OpKnown'
    <2>1. CASE GoTo(c, "idle") \/ GoTo(c, fail)
      BY <2>1, GoToType DEF PCs
    <2>2. CASE call' = [call EXCEPT ![c].pc = "readback", ![c].next = ok,
                                    ![c].fail = fail, ![c].rb = CleanupTimeout]
      <3>1. CleanupTimeout \in Nat
        BY DurationAssumption
      <3>2. [call[c] EXCEPT !.pc = "readback", !.next = ok, !.fail = fail,
                            !.rb = CleanupTimeout] \in CallRecords
        <4>1. "readback" \in PCs
          BY DEF PCs
        <4> QED BY <1>1, <3>1, <4>1 DEF CallRecords
      <3>3. call' = [call EXCEPT ![c] = [call[c] EXCEPT !.pc = "readback", !.next = ok,
                                          !.fail = fail, !.rb = CleanupTimeout]]
        BY <2>2
      <3> HIDE <2>2
      <3>4. call' \in [Calls -> CallRecords]
        BY <3>2, <3>3 DEF TypeInv, TypeOK
      <3>5. OpKnown'
        BY <1>1, <3>3 DEF TypeInv, TypeOK, OpKnown, CallRecords
      <3> QED BY <3>4, <3>5
    <2> QED BY <2>1, <2>2 DEF TransitionDetached
  <1>5. UNCHANGED <<accounts, upstream, granted>>
    BY DEF TransitionDetached
  <1> QED BY <1>2, <1>3, <1>4, <1>5 DEF TypeInv, TypeOK
\* Every lease renewal before a side effect keeps the types.
LEMMA RenewType ==
    ASSUME TypeInv, NEW c \in Calls, call[c].pc # "idle",
           NEW ok \in PCs, NEW fail \in PCs, RenewForSideEffect(c, ok, fail)
    PROVE  TypeInv'
  <1>1. call[c] \in CallRecords /\ call[c].op \in Ops /\ row[call[c].op] \in Rows
    BY DEF TypeInv, TypeOK, OpKnown
  <1>2. Renewed(row[call[c].op]) \in Rows /\ Fence(Renewed(row[call[c].op])) \in Fences
    BY <1>1, RowUpdates
  <1>3. row' \in [Ops -> Rows]
    BY <1>1, <1>2 DEF RenewForSideEffect, TypeInv, TypeOK
  <1>4. faults' \in 0 .. MaxFaults
    BY FaultType DEF RenewForSideEffect
  <1>5. call' \in [Calls -> CallRecords] /\ OpKnown'
    <2>1. CASE GoTo(c, fail)
      BY <2>1, GoToType
    <2>2. CASE call' = [call EXCEPT ![c].pc = ok,
                                    ![c].fence = Fence(Renewed(row[call[c].op])),
                                    ![c].budget = SideEffectTimeout(LeaseDuration)]
      <3>1. SideEffectTimeout(LeaseDuration) \in Nat
        <4>1. LeaseDuration \in Nat BY DurationAssumption
        <4> QED BY <4>1, SideEffectTimeoutNat
      <3>2. [call[c] EXCEPT !.pc = ok, !.fence = Fence(Renewed(row[call[c].op])),
                            !.budget = SideEffectTimeout(LeaseDuration)] \in CallRecords
        BY <1>1, <1>2, <3>1 DEF CallRecords
      <3>3. call' = [call EXCEPT ![c] =
                [call[c] EXCEPT !.pc = ok, !.fence = Fence(Renewed(row[call[c].op])),
                                !.budget = SideEffectTimeout(LeaseDuration)]]
        BY <2>2
      <3> HIDE <2>2
      <3>4. call' \in [Calls -> CallRecords]
        BY <3>2, <3>3 DEF TypeInv, TypeOK
      <3>5. OpKnown'
        BY <1>1, <3>3 DEF TypeInv, TypeOK, OpKnown, CallRecords
      <3> QED BY <3>4, <3>5
    <2> QED BY <2>1, <2>2 DEF RenewForSideEffect
  <1>6. UNCHANGED <<accounts, upstream, granted>>
    BY DEF RenewForSideEffect
  <1> QED BY <1>3, <1>4, <1>5, <1>6 DEF TypeInv, TypeOK
\* The constants that the actions pass to the store operations have their types.
LEMMA Names ==
    /\ "create_started" \in Stages /\ "create_uncertain" \in Stages
    /\ "upstream_created" \in Stages /\ "grant_started" \in Stages
    /\ "cleanup_required" \in Stages /\ "cleanup_in_progress" \in Stages
    /\ "drop_started" \in Stages /\ "drop_uncertain" \in Stages
    /\ "activation_pending" \in Stages /\ "not_created" \in Stages
    /\ "none" \in CleanupStatuses /\ "required" \in CleanupStatuses
    /\ "in_progress" \in CleanupStatuses /\ "failed" \in CleanupStatuses
    /\ "idle" \in PCs /\ "createRenew" \in PCs /\ "recordGrantStarted" \in PCs
    /\ "grantRenew" \in PCs /\ "activate" \in PCs /\ "cleanupMark" \in PCs
    /\ "cleanupStart" \in PCs /\ "dropRenew" \in PCs /\ "deprovRenew" \in PCs
    /\ "persistFailure" \in PCs
    /\ TRUE \in BOOLEAN /\ FALSE \in BOOLEAN
  BY DEF Stages, ActiveStages, CleanupStages, DeprovisionStages, CleanupStatuses, PCs

\* Steps that are one recorded transition.
LEMMA RecordedTransitionsType ==
    ASSUME TypeInv, NEW c \in Calls,
           \/ DiscardNotCreated(c)
           \/ RecordCreateStarted(c)
           \/ RecordCreated(c)
           \/ RecordGrantStarted(c)
           \/ DeferCleanupForReconcile(c)
           \/ RecordActivationPending(c)
           \/ RecordCreateUncertain(c)
           \/ CleanupMark(c)
           \/ CleanupStart(c)
           \/ PersistCleanupFailure(c)
           \/ ReleaseActivationForReconcile(c)
           \/ FinalizeReserved(c)
           \/ DeferDropUncertain(c)
    PROVE  TypeInv'
  <1>1. CASE DiscardNotCreated(c)
    <2>1. call[c].pc # "idle"
      BY <1>1 DEF DiscardNotCreated
    <2> QED BY <1>1, <2>1, Names, TransitionType, Zenon DEF DiscardNotCreated
  <1>2. CASE RecordCreateStarted(c)
    <2>1. call[c].pc # "idle"
      BY <1>2 DEF RecordCreateStarted
    <2> QED BY <1>2, <2>1, Names, TransitionType, Zenon DEF RecordCreateStarted
  <1>3. CASE RecordCreated(c)
    <2>1. call[c].pc # "idle"
      BY <1>3 DEF RecordCreated
    <2> QED BY <1>3, <2>1, Names, TransitionType, Zenon DEF RecordCreated
  <1>4. CASE RecordGrantStarted(c)
    <2>1. call[c].pc # "idle"
      BY <1>4 DEF RecordGrantStarted
    <2> QED BY <1>4, <2>1, Names, TransitionType, Zenon DEF RecordGrantStarted
  <1>5. CASE DeferCleanupForReconcile(c)
    <2>1. call[c].pc # "idle"
      BY <1>5 DEF DeferCleanupForReconcile
    <2> QED BY <1>5, <2>1, Names, TransitionType, Zenon DEF DeferCleanupForReconcile
  <1>6. CASE RecordActivationPending(c)
    <2>1. call[c].pc # "idle"
      BY <1>6 DEF RecordActivationPending
    <2> QED BY <1>6, <2>1, Names, TransitionType, Zenon DEF RecordActivationPending
  <1>7. CASE RecordCreateUncertain(c)
    <2>1. call[c].pc # "idle"
      BY <1>7 DEF RecordCreateUncertain
    <2> QED BY <1>7, <2>1, Names, TransitionType, Zenon DEF RecordCreateUncertain
  <1>8. CASE CleanupMark(c)
    <2>1. call[c].pc # "idle"
      BY <1>8 DEF CleanupMark
    <2> QED BY <1>8, <2>1, Names, TransitionType, Zenon DEF CleanupMark
  <1>9. CASE CleanupStart(c)
    <2>1. call[c].pc # "idle"
      BY <1>9 DEF CleanupStart
    <2> QED BY <1>9, <2>1, Names, TransitionType, Zenon DEF CleanupStart
  <1>10. CASE PersistCleanupFailure(c)
    <2>1. call[c].pc # "idle"
      BY <1>10 DEF PersistCleanupFailure
    <2> QED BY <1>10, <2>1, Names, TransitionType, Zenon DEF PersistCleanupFailure
  <1>11. CASE ReleaseActivationForReconcile(c)
    <2>1. call[c].pc # "idle"
      BY <1>11 DEF ReleaseActivationForReconcile
    <2> QED BY <1>11, <2>1, Names, TransitionType, Zenon DEF ReleaseActivationForReconcile
  <1>12. CASE FinalizeReserved(c)
    <2>1. call[c].pc # "idle"
      BY <1>12 DEF FinalizeReserved
    <2> QED BY <1>12, <2>1, Names, TransitionType, Zenon DEF FinalizeReserved
  <1>13. CASE DeferDropUncertain(c)
    <2>1. call[c].pc # "idle"
      BY <1>13 DEF DeferDropUncertain
    <2> QED BY <1>13, <2>1, Names, TransitionType, Zenon DEF DeferDropUncertain
  <1> QED BY <1>1, <1>2, <1>3, <1>4, <1>5, <1>6, <1>7, <1>8, <1>9, <1>10, <1>11, <1>12, <1>13

\* Steps that are one lease renewal.
LEMMA RenewalsType ==
    ASSUME TypeInv, NEW c \in Calls,
           CreateRenew(c) \/ GrantRenew(c) \/ DropRenew(c) \/ DeprovisionRenew(c)
    PROVE  TypeInv'
  <1>1. CASE CreateRenew(c)
    BY <1>1, RenewType DEF CreateRenew, PCs
  <1>2. CASE GrantRenew(c)
    BY <1>2, RenewType DEF GrantRenew, PCs
  <1>3. CASE DropRenew(c)
    BY <1>3, RenewType DEF DropRenew, PCs
  <1>4. CASE DeprovisionRenew(c)
    BY <1>4, RenewType DEF DeprovisionRenew, PCs
  <1> QED BY <1>1, <1>2, <1>3, <1>4

\* Steps that only move or end a call.
LEMMA MovesType ==
    ASSUME TypeInv, NEW c \in Calls,
           \/ ReadBack(c) \/ SideEffectExpired(c) \/ StatementRefused(c) \/ StatementSucceeds(c)
           \/ StatementUncertain(c) \/ Restart(c) \/ ProvisionCancelled(c)
    PROVE  TypeInv'
  <1>0. call[c] \in CallRecords /\ call[c].next \in PCs /\ call[c].fail \in PCs
    BY DEF TypeInv, TypeOK, CallRecords
  <1>1. call[c].pc # "idle"
    BY DEF ReadBack, SideEffectExpired, StatementRefused, StatementSucceeds, StatementUncertain,
           Restart, ProvisionCancelled, SideEffects, StatementOf
  <1>2. UNCHANGED <<row, accounts, upstream, granted>> /\ (Fault \/ NoFault)
    BY DEF ReadBack, SideEffectExpired, StatementRefused, StatementSucceeds, StatementUncertain,
           Restart, ProvisionCancelled
  <1>3. \/ \E pc \in PCs : GoTo(c, pc)
        \/ \E pc \in PCs : GoToWith(c, pc, row[call[c].op])
    <2>1. CASE ReadBack(c)
      BY <2>1, <1>0 DEF ReadBack, PCs
    <2>2. CASE SideEffectExpired(c)
      BY <2>2 DEF SideEffectExpired, SideEffects, StatementOf, AfterDeadline, PCs
    <2>3. CASE StatementRefused(c)
      BY <2>3 DEF StatementRefused, SideEffects, StatementOf, AfterUncertain, PCs
    <2>4. CASE StatementSucceeds(c)
      BY <2>4 DEF StatementSucceeds, SideEffects, StatementOf, AfterSuccess, PCs
    <2>5. CASE StatementUncertain(c)
      BY <2>5 DEF StatementUncertain, SideEffects, StatementOf, AfterUncertain, PCs
    <2>6. CASE Restart(c) \/ ProvisionCancelled(c)
      BY <2>6 DEF Restart, ProvisionCancelled, PCs
    <2> QED BY <2>1, <2>2, <2>3, <2>4, <2>5, <2>6
  <1>4. call' \in [Calls -> CallRecords] /\ OpKnown'
    <2>1. row[call[c].op] \in Rows
      BY <1>1 DEF TypeInv, TypeOK, OpKnown
    <2> QED BY <1>1, <1>3, <2>1, GoToType, GoToWithType
  <1>5. faults' \in 0 .. MaxFaults
    BY <1>2, FaultType
  <1> QED BY <1>2, <1>4, <1>5 DEF TypeInv, TypeOK
LEMMA FinalizeType ==
    ASSUME TypeInv, NEW c \in Calls, Finalize(c)
    PROVE  TypeInv'
  <1>1. call[c].pc # "idle"
    BY DEF Finalize
  <1>2. (IF call[c].reconciles THEN "persistFailure" ELSE "idle") \in PCs
    BY Names
  <1> QED BY <1>1, <1>2, Names, TransitionType, Zenon DEF Finalize

LEMMA ReconcileCleanupType ==
    ASSUME TypeInv, NEW c \in Calls, ReconcileCleanup(c)
    PROVE  TypeInv'
  <1>1. call[c].pc # "idle"
    BY DEF ReconcileCleanup
  <1>2. CASE TransitionDetached(c, "cleanup_in_progress", "in_progress", TRUE, FALSE,
                                "dropRenew", "idle")
    BY <1>1, <1>2, Names, TransitionType, Zenon
  <1>3. CASE Fault /\ GoTo(c, "persistFailure") /\ UNCHANGED <<row, accounts, upstream, granted>>
    BY <1>1, <1>3, Names, GoToType, FaultType DEF TypeInv, TypeOK
  <1> QED BY <1>2, <1>3 DEF ReconcileCleanup

LEMMA RunDeprovisionType ==
    ASSUME TypeInv, NEW c \in Calls, RunDeprovision(c)
    PROVE  TypeInv'
  <1>1. call[c].pc # "idle"
    BY DEF RunDeprovision
  <1>2. CASE TransitionDetached(c, "drop_started", "in_progress", TRUE, FALSE,
                                "deprovRenew", "idle")
    BY <1>1, <1>2, Names, TransitionType, Zenon
  <1>3. CASE /\ GoTo(c, "idle") \/ GoTo(c, "deferUncertain") \/ GoTo(c, "deprovRenew")
             /\ Fault \/ NoFault
             /\ UNCHANGED <<row, accounts, upstream, granted>>
    <2>1. "deferUncertain" \in PCs
      BY DEF PCs
    <2>2. call' \in [Calls -> CallRecords] /\ OpKnown'
      BY <1>1, <1>3, <2>1, Names, GoToType
    <2> QED BY <1>3, <2>2, FaultType DEF TypeInv, TypeOK
  <1> QED BY <1>2, <1>3 DEF RunDeprovision

LEMMA ActivateDetachedType ==
    ASSUME TypeInv, NEW c \in Calls, ActivateDetached(c)
    PROVE  TypeInv'
  <1>1. call[c].pc # "idle"
    BY DEF ActivateDetached
  <1>2. call[c].op \in Ops /\ row[call[c].op] \in Rows
    BY <1>1 DEF TypeInv, TypeOK, OpKnown
  <1>3. Activated(row[call[c].op]) \in Rows
    BY <1>2, RowUpdates
  <1>4. row' \in [Ops -> Rows] /\ accounts' \in SUBSET Ops
    BY <1>2, <1>3 DEF ActivateDetached, TypeInv, TypeOK
  <1>5. call' \in [Calls -> CallRecords] /\ OpKnown'
    <2>1. \E pc \in {"idle", "activateRetry", "releaseActivation"} : GoTo(c, pc)
      BY DEF ActivateDetached
    <2>2. {"idle", "activateRetry", "releaseActivation"} \subseteq PCs
      BY DEF PCs
    <2> QED BY <1>1, <2>1, <2>2, GoToType
  <1>6. faults' \in 0 .. MaxFaults
    BY FaultType DEF ActivateDetached
  <1>7. UNCHANGED <<upstream, granted>>
    BY DEF ActivateDetached
  <1> QED BY <1>4, <1>5, <1>6, <1>7 DEF TypeInv, TypeOK

LEMMA CompleteType ==
    ASSUME TypeInv, NEW c \in Calls, CompleteDatabaseDeprovision(c)
    PROVE  TypeInv'
  <1>1. call[c].pc # "idle"
    BY DEF CompleteDatabaseDeprovision
  <1>2. call[c].op \in Ops /\ row[call[c].op] \in Rows
    BY <1>1 DEF TypeInv, TypeOK, OpKnown
  <1>3. [row[call[c].op] EXCEPT !.stage = "deleted", !.left = 0] \in Rows
    <2>1. "deleted" \in Stages
      BY DEF Stages
    <2> QED BY <1>2, <2>1 DEF Rows
  <1>4. row' \in [Ops -> Rows] /\ accounts' \in SUBSET Ops
    BY <1>2, <1>3 DEF CompleteDatabaseDeprovision, TypeInv, TypeOK
  <1>5. call' \in [Calls -> CallRecords] /\ OpKnown'
    <2>1. GoTo(c, "idle") \/ GoTo(c, "deferUncertain")
      BY DEF CompleteDatabaseDeprovision
    <2>2. "idle" \in PCs /\ "deferUncertain" \in PCs
      BY DEF PCs
    <2> QED BY <1>1, <2>1, <2>2, GoToType
  <1>6. faults' \in 0 .. MaxFaults
    BY FaultType DEF CompleteDatabaseDeprovision
  <1>7. UNCHANGED <<upstream, granted>>
    BY DEF CompleteDatabaseDeprovision
  <1> QED BY <1>4, <1>5, <1>6, <1>7 DEF TypeInv, TypeOK
\* A call slot that is free takes up an operation.
LEMMA StartType ==
    ASSUME TypeInv, NEW c \in Calls, NEW o \in Ops, NEW r \in Rows, NEW own \in Nat,
           NEW pc \in PCs, NEW rec \in BOOLEAN,
           StartCall(c, pc, o, r, own, rec)
    PROVE  call' \in [Calls -> CallRecords] /\ OpKnown'
  <1>1. Fence(r) \in Fences
    BY RowUpdates
  <1>2. [NoCall EXCEPT !.pc = pc, !.reconciles = rec, !.op = o,
                       !.fence = Fence(r), !.own = own] \in CallRecords
    BY <1>1, NoCallType DEF CallRecords
  <1>3. [NoCall EXCEPT !.pc = pc, !.reconciles = rec, !.op = o,
                       !.fence = Fence(r), !.own = own].op = o
    BY NoCallType DEF CallRecords
  <1>4. call' \in [Calls -> CallRecords]
    BY <1>2 DEF StartCall, TypeInv, TypeOK
  <1>5. OpKnown'
    BY <1>3 DEF StartCall, TypeInv, TypeOK, OpKnown
  <1> QED BY <1>4, <1>5

LEMMA ProvisionReserveType ==
    ASSUME TypeInv, NEW c \in Calls, NEW o \in Ops, ProvisionReserve(c, o)
    PROVE  TypeInv'
  <1>1. ReservedRow \in Rows /\ row[o] \in Rows
    BY RowUpdates DEF TypeInv, TypeOK
  <1>2. row' \in [Ops -> Rows]
    BY <1>1 DEF ProvisionReserve, TypeInv, TypeOK
  <1>3. call' \in [Calls -> CallRecords] /\ OpKnown'
    <2>1. CASE UNCHANGED call
      BY <2>1 DEF TypeInv, TypeOK, OpKnown
    <2>2. CASE StartCall(c, "reserved", o, ReservedRow, ReservedRow.token, FALSE)
      <3>1. "reserved" \in PCs /\ ReservedRow.token \in Nat
        BY <1>1 DEF PCs, Rows
      <3> QED BY <1>1, <2>2, <3>1, Names, StartType, Zenon
    <2> QED BY <2>1, <2>2 DEF ProvisionReserve
  <1>4. faults' \in 0 .. MaxFaults
    BY FaultType DEF ProvisionReserve
  <1>5. UNCHANGED <<accounts, upstream, granted>>
    BY DEF ProvisionReserve
  <1> QED BY <1>2, <1>3, <1>4, <1>5 DEF TypeInv, TypeOK

LEMMA ListExecutableType ==
    ASSUME TypeInv, NEW c \in Calls, NEW o \in Ops, ListExecutable(c, o)
    PROVE  TypeInv'
  <1>1. row[o] \in Rows
    BY DEF TypeInv, TypeOK
  <1>2. call' \in [Calls -> CallRecords] /\ OpKnown'
    <2>1. "claim" \in PCs /\ 0 \in Nat
      BY DEF PCs
    <2> QED BY <1>1, <2>1, Names, StartType, Zenon DEF ListExecutable
  <1>3. UNCHANGED <<row, accounts, upstream, granted, faults>>
    BY DEF ListExecutable
  <1> QED BY <1>2, <1>3 DEF TypeInv, TypeOK

LEMMA BeginType ==
    ASSUME TypeInv, NEW c \in Calls, NEW o \in Ops, BeginDatabaseDeprovision(c, o)
    PROVE  TypeInv'
  <1> DEFINE new == [Claimed(row[o]) EXCEPT !.stage = "deprovision_requested"]
  <1>1. new \in Rows
    <2>1. Claimed(row[o]) \in Rows
      BY RowUpdates DEF TypeInv, TypeOK
    <2>2. "deprovision_requested" \in Stages
      BY DEF Stages, ActiveStages, DeprovisionStages
    <2> QED BY <2>1, <2>2 DEF Rows
  <1>2. row' \in [Ops -> Rows]
    BY <1>1 DEF BeginDatabaseDeprovision, TypeInv, TypeOK
  <1>3. call' \in [Calls -> CallRecords] /\ OpKnown'
    <2>1. CASE UNCHANGED call
      BY <2>1 DEF TypeInv, TypeOK, OpKnown
    <2>2. CASE StartCall(c, "deprovision", o, new, new.token, FALSE)
      <3>1. "deprovision" \in PCs /\ new.token \in Nat
        BY <1>1 DEF PCs, Rows
      <3> HIDE DEF new
      <3> QED BY <1>1, <2>2, <3>1, Names, StartType, Zenon
    <2> QED BY <2>1, <2>2 DEF BeginDatabaseDeprovision
  <1>4. faults' \in 0 .. MaxFaults
    BY FaultType DEF BeginDatabaseDeprovision
  <1>5. UNCHANGED <<accounts, upstream, granted>>
    BY DEF BeginDatabaseDeprovision
  <1> QED BY <1>2, <1>3, <1>4, <1>5 DEF TypeInv, TypeOK

LEMMA ClaimType ==
    ASSUME TypeInv, NEW c \in Calls, ClaimForReconcile(c)
    PROVE  TypeInv'
  <1> DEFINE o == call[c].op
             new == Claimed(row[o])
  <1>1. call[c].pc # "idle"
    BY DEF ClaimForReconcile
  <1>2. call[c] \in CallRecords /\ o \in Ops /\ row[o] \in Rows
    BY <1>1 DEF TypeInv, TypeOK, OpKnown
  <1>3. new \in Rows /\ Fence(new) \in Fences
    BY <1>2, RowUpdates
  <1>4. row' \in [Ops -> Rows]
    BY <1>2, <1>3 DEF ClaimForReconcile, TypeInv, TypeOK
  <1>5. call' \in [Calls -> CallRecords] /\ OpKnown'
    <2>1. CASE GoTo(c, "idle")
      BY <1>1, <2>1, Names, GoToType
    <2>2. CASE call' = [call EXCEPT ![c].pc = Dispatch(row[o].stage),
                                    ![c].fence = Fence(new), ![c].own = new.token]
      <3>1. Dispatch(row[o].stage) \in PCs
        BY DEF Dispatch, PCs
      <3>2. new.token \in Nat
        BY <1>3 DEF Rows
      <3>3. [call[c] EXCEPT !.pc = Dispatch(row[o].stage), !.fence = Fence(new),
                            !.own = new.token] \in CallRecords
        BY <1>2, <1>3, <3>1, <3>2 DEF CallRecords
      <3>4. call' = [call EXCEPT ![c] = [call[c] EXCEPT !.pc = Dispatch(row[o].stage),
                                          !.fence = Fence(new), !.own = new.token]]
        BY <2>2
      <3> HIDE <2>2 DEF new
      <3>5. call' \in [Calls -> CallRecords]
        BY <3>3, <3>4 DEF TypeInv, TypeOK
      <3>6. OpKnown'
        BY <1>2, <3>4 DEF TypeInv, TypeOK, OpKnown, CallRecords
      <3> QED BY <3>5, <3>6
    <2> QED BY <2>1, <2>2 DEF ClaimForReconcile
  <1>6. faults' \in 0 .. MaxFaults
    BY FaultType DEF ClaimForReconcile
  <1>7. UNCHANGED <<accounts, upstream, granted>>
    BY DEF ClaimForReconcile
  <1> QED BY <1>4, <1>5, <1>6, <1>7 DEF TypeInv, TypeOK
LEMMA SendStatementType ==
    ASSUME TypeInv, NEW c \in Calls, SendStatement(c)
    PROVE  TypeInv'
  <1>1. call[c] \in CallRecords
    BY DEF TypeInv, TypeOK
  <1>2. StatementOf[call[c].pc] \in Statements
    BY DEF SendStatement, SideEffects, StatementOf, Statements
  <1>3. [call[c] EXCEPT !.sent = StatementOf[call[c].pc]] \in CallRecords
    BY <1>1, <1>2 DEF CallRecords
  <1>4. call' = [call EXCEPT ![c] = [call[c] EXCEPT !.sent = StatementOf[call[c].pc]]]
    BY DEF SendStatement
  <1>5. call' \in [Calls -> CallRecords]
    BY <1>3, <1>4 DEF TypeInv, TypeOK
  <1>6. OpKnown'
    <2>1. call[c].op \in Ops
      BY DEF SendStatement, SideEffects, StatementOf, TypeInv, OpKnown
    <2> QED BY <1>1, <1>4, <2>1 DEF TypeInv, TypeOK, OpKnown, CallRecords
  <1>7. UNCHANGED <<row, accounts, upstream, granted, faults>>
    BY DEF SendStatement
  <1> QED BY <1>5, <1>6, <1>7 DEF TypeInv, TypeOK

LEMMA UpstreamExecutesType ==
    ASSUME TypeInv, NEW c \in Calls, UpstreamExecutes(c)
    PROVE  TypeInv'
  <1>1. call[c] \in CallRecords
    BY DEF TypeInv, TypeOK
  <1>2. call[c].sent \in {"create", "grant", "drop"}
    BY <1>1 DEF UpstreamExecutes, InFlight, CallRecords, Statements
  <1>3. [call[c] EXCEPT !.done = TRUE] \in CallRecords
    BY <1>1 DEF CallRecords
  <1>4. call' = [call EXCEPT ![c] = [call[c] EXCEPT !.done = TRUE]]
    BY DEF UpstreamExecutes
  <1>5. call' \in [Calls -> CallRecords]
    BY <1>3, <1>4 DEF TypeInv, TypeOK
  <1>6. OpKnown'
    BY <1>1, <1>4 DEF TypeInv, TypeOK, OpKnown, CallRecords
  <1>7. upstream' \in SUBSET Ops /\ granted' \in SUBSET upstream'
    <2>1. call[c].op \in Ops
      BY <1>2 DEF TypeInv, OpKnown
    <2> QED BY <1>2, <2>1 DEF UpstreamExecutes, TypeInv, TypeOK
  <1>8. UNCHANGED <<row, accounts, faults>>
    BY DEF UpstreamExecutes
  <1> QED BY <1>5, <1>6, <1>7, <1>8 DEF TypeInv, TypeOK

LEMMA CrashType ==
    ASSUME TypeInv, NEW c \in Calls, Crash(c)
    PROVE  TypeInv'
  <1>1. call[c] \in CallRecords /\ call[c].op \in Ops
    BY DEF TypeInv, TypeOK, OpKnown, Crash, Running
  <1>2. [call[c] EXCEPT !.pc = "crashed"] \in CallRecords
    BY <1>1 DEF CallRecords, PCs
  <1>3. call' \in [Calls -> CallRecords]
    BY <1>2, NoCallType DEF Crash, TypeInv, TypeOK
  <1>4. OpKnown'
    <2>1. call'[c] = NoCall \/ call'[c].op = call[c].op
      BY <1>1 DEF Crash, TypeInv, TypeOK, CallRecords
    <2>2. \A d \in Calls \ {c} : call'[d] = call[d]
      BY DEF Crash, TypeInv, TypeOK
    <2> QED BY <1>1, <2>1, <2>2, NoCallType DEF TypeInv, OpKnown
  <1>5. faults' \in 0 .. MaxFaults
    BY FaultType DEF Crash
  <1>6. UNCHANGED <<row, accounts, upstream, granted>>
    BY DEF Crash
  <1> QED BY <1>3, <1>4, <1>5, <1>6 DEF TypeInv, TypeOK

LEMMA LessNat == ASSUME NEW n \in Nat PROVE Less(n) \in Nat
  BY DEF Less

LEMMA TickType ==
    ASSUME TypeInv, Tick
    PROVE  TypeInv'
  <1>1. ASSUME NEW o \in Ops
        PROVE  row'[o] \in Rows
    <2>1. row[o] \in Rows
      BY DEF TypeInv, TypeOK
    <2>2. Less(row[o].left) \in Nat
      BY <2>1, LessNat DEF Rows
    <2>3. row[o].age + 1 \in Nat
      BY <2>1 DEF Rows
    <2> QED BY <2>1, <2>2, <2>3 DEF Tick, Rows
  <1>2. ASSUME NEW c \in Calls
        PROVE  /\ call'[c] \in CallRecords
               /\ call'[c].op = call[c].op
               /\ call'[c].pc = call[c].pc
               /\ call'[c].sent = call[c].sent
    <2>1. call[c] \in CallRecords
      BY DEF TypeInv, TypeOK
    <2>2. Less(call[c].budget) \in Nat /\ Less(call[c].rb) \in Nat
      BY <2>1, LessNat DEF CallRecords
    <2> QED BY <2>1, <2>2 DEF Tick, CallRecords
  <1>3. row' \in [Ops -> Rows] /\ call' \in [Calls -> CallRecords]
    BY <1>1, <1>2 DEF Tick
  <1>4. OpKnown'
    BY <1>2 DEF TypeInv, OpKnown
  <1>5. faults' \in 0 .. MaxFaults
    BY FaultType DEF Tick
  <1>6. UNCHANGED <<accounts, upstream, granted>>
    BY DEF Tick
  <1> QED BY <1>3, <1>4, <1>5, <1>6 DEF TypeInv, TypeOK

\* Every step of a running call keeps the types.
LEMMA StepType ==
    ASSUME TypeInv, NEW c \in Calls, Step(c)
    PROVE  TypeInv'
  BY MovesType, RecordedTransitionsType, RenewalsType, FinalizeType, ReconcileCleanupType,
     RunDeprovisionType, ActivateDetachedType, CompleteType, ClaimType, SendStatementType, Zenon
  DEF Step

\* The initial state has the types.
LEMMA TypeInit == Init => TypeInv
  <1>1. AbsentRow \in Rows
    BY DEF AbsentRow, Rows, Stages, CleanupStatuses
  <1>2. MaxFaults \in 0 .. MaxFaults
    BY DurationAssumption
  <1> QED BY <1>1, <1>2, NoCallType DEF Init, TypeInv, TypeOK, OpKnown

\* Every step keeps the types.
LEMMA TypeKept == TypeInv /\ [Next]_vars => TypeInv'
  <1> SUFFICES ASSUME TypeInv, [Next]_vars PROVE TypeInv'
    OBVIOUS
  <1>1. CASE \E c \in Calls, o \in Ops : \/ ProvisionReserve(c, o)
                                       \/ ListExecutable(c, o)
                                       \/ BeginDatabaseDeprovision(c, o)
    BY <1>1, ProvisionReserveType, ListExecutableType, BeginType
  <1>2. CASE \E c \in Calls : Step(c)
    BY <1>2, StepType
  <1>3. CASE \E c \in Calls : ProvisionCancelled(c) \/ UpstreamExecutes(c) \/ Crash(c)
    BY <1>3, MovesType, UpstreamExecutesType, CrashType
  <1>4. CASE Tick
    BY <1>4, TickType
  <1>5. CASE UNCHANGED vars
    BY <1>5 DEF vars, TypeInv, TypeOK, OpKnown
  <1> QED BY <1>1, <1>2, <1>3, <1>4, <1>5 DEF Next

\* The inductive form of the type invariant.
LEMMA TypeInvariant == Spec => []TypeInv
  BY TypeInit, TypeKept, PTL DEF Spec

(***************************************************************************)
(* Type correctness of the saga, for every number of operations, calls and *)
(* faults.  In particular a user with grants exists on the server.         *)
(***************************************************************************)
THEOREM TypeCorrect == Spec => []TypeOK
  <1>1. TypeInv => TypeOK
    BY DEF TypeInv
  <1> QED BY <1>1, TypeInvariant, PTL

-----------------------------------------------------------------------------
(* Why the accounts stay accounted for. *)

(***************************************************************************)
(* The stages that a call can rely on: once an operation has reached one   *)
(* of a group below, no step leads out of the group.                       *)
(***************************************************************************)
\* Before the CREATE has been answered.
Early == {"absent", "reserved", "create_started"}
\* The cleanup has begun; the user is dropped and never created again.
CleaningUp == {"cleanup_required", "cleanup_in_progress", "not_created"}
\* The activation may have committed.
Committed == {"activation_pending", "active_managed", "deleted"} \cup DeprovisionStages
\* A DROP of an active account is recorded as started.
Dropping == {"drop_started", "drop_uncertain", "deleted"}

\* Where a call goes on when the SELECT after its UPDATE returns.
At(x) == IF x.pc = "readback" THEN x.next ELSE x.pc

\* The call may send, or has sent, the CREATE, or knows that it had no effect.
Creating(x) ==
    \/ At(x) \in {"reserved", "createRenew", "create", "discard"}
    \/ x.pc = "crashed" /\ x.sent = "create"

\* The CREATE of the call can still reach the server.
CanCreate(x) ==
    /\ x.pc = "create" \/ (x.pc = "crashed" /\ x.sent = "create")
    /\ x.budget > 0

\* The SELECT after create_started can still return.
ReadsCreateStarted(x) == x.pc = "readback" /\ x.next = "createRenew" /\ x.rb > 0

\* The call counts on the row not being touched by any other.
Exclusive(x) == CanCreate(x) \/ ReadsCreateStarted(x)

\* A statement is with the server only during its step, or after a crash of it.
Shape(x) ==
    /\ x.sent # "none" => \/ x.pc = "crashed"
                          \/ x.pc \in SideEffects /\ x.sent = StatementOf[x.pc]
    /\ x.done => x.sent # "none"
    /\ x.pc = "readback" =>
          /\ x.next \in {"idle", "createRenew", "recordGrantStarted", "grantRenew", "activate",
                         "cleanupMark", "cleanupStart", "dropRenew", "deprovRenew"}
          /\ x.fail \in {"idle", "persistFailure"}

(***************************************************************************)
(* What a call x in use relies on, about the row r of its operation and    *)
(* about the sets up of users that exist and gr of users with their grants.*)
(***************************************************************************)
\* No copy of a fence is ahead of the row.
FenceBehind(x, r) == r.stage # "absent" /\ x.fence.rev <= r.rev

\* Until its CREATE ran there is no user; the row is untouched while it can run.
CreateSound(x, r, up) ==
    /\ Creating(x) /\ ~x.done => x.op \notin up
    /\ x.pc = "readback" => /\ r.stage # "reserved"
                            /\ x.next # "createRenew" => r.stage \notin Early
    /\ x.pc = "createRenew" => x.fence.stage = "create_started"
    /\ x.pc = "finalizeReserved" => x.fence.stage = "reserved"
    /\ ReadsCreateStarted(x) => r.stage = "create_started" /\ r.age + x.rb <= CleanupTimeout
    /\ CanCreate(x) => r.stage = "create_started" /\ x.fence = Fence(r) /\ r.left > x.budget

\* A recorded success of the GRANT is one, and the activation is of granted users.
GrantSound(x, r, gr) ==
    /\ At(x) \in {"grantRenew", "grant", "recordPending"} =>
          r.stage \notin Early \cup {"upstream_created"}
    /\ (x.pc = "grant" /\ x.done) \/ x.pc = "recordPending" =>
          (r.stage = "grant_started" => x.op \in gr)
    /\ x.pc = "readback" /\ x.next = "activate" => r.stage \in Committed
    /\ x.pc \in {"activate", "activateRetry", "releaseActivation"} => x.fence.stage \in Committed

\* A DROP is sent only when the account is on its way out, and an answered one did it.
DropSound(x, r, up) ==
    /\ At(x) \in {"dropRenew", "drop", "finalize"} => r.stage \in CleaningUp
    /\ At(x) \in {"deprovRenew", "deprovDrop", "complete"} => r.stage \in Dropping
    /\ x.pc = "deprovision" /\ x.fence.stage = "drop_started" => r.stage \in Dropping
    /\ x.pc = "crashed" /\ x.sent = "drop" => r.stage \in CleaningUp \cup Dropping
    /\ (x.pc \in {"drop", "deprovDrop"} /\ x.done) \/ x.pc \in {"finalize", "complete"} =>
          x.op \notin up

CallSound(x, r, up, gr) ==
    /\ FenceBehind(x, r)
    /\ CreateSound(x, r, up)
    /\ GrantSound(x, r, gr)
    /\ DropSound(x, r, up)

\* Two calls on the operation of row r.
Apart(x, y, r) ==
    /\ ~(Creating(x) /\ Creating(y))
    /\ Exclusive(x) => y.fence.rev < r.rev

\* What NoOrphan and ManagedAccountUsable say of one operation.
RowSound(o, r, acc, up, gr) ==
    /\ r.stage \in {"absent", "reserved", "not_created", "deleted"} => o \notin up
    /\ o \in acc <=> r.stage \in {"active_managed"} \cup DeprovisionStages
    /\ r.stage \in {"activation_pending", "active_managed", "deprovision_requested"} => o \in gr

InUse(c) == call[c].pc # "idle"

SagaInv ==
    /\ TypeInv
    /\ \A o \in Ops : RowSound(o, row[o], accounts, upstream, granted)
    /\ \A c \in Calls : Shape(call[c])
    /\ \A c \in Calls : InUse(c) =>
          CallSound(call[c], row[call[c].op], upstream, granted)
    /\ \A c, d \in Calls : c # d /\ InUse(c) /\ InUse(d) /\ call[c].op = call[d].op =>
          Apart(call[c], call[d], row[call[c].op])

(* The steps between recorded stages. *)
StageStep(a, b) ==
    \/ a = b
    \/ \E cl \in CleanupStatuses : ValidProvisioningTransition(a, b, cl)
    \/ a = "activation_pending" /\ b = "active_managed"
    \/ a = "active_managed" /\ b = "deprovision_requested"
    \/ a = "drop_started" /\ b = "deleted"

\* No step leads out of a group, nor back to the beginning.
LEMMA StageGroups ==
    ASSUME NEW a \in Stages, NEW b \in Stages, a # "absent", StageStep(a, b)
    PROVE  /\ b # "absent"
           /\ a # "reserved" => b # "reserved"
           /\ a \notin Early => b \notin Early
           /\ a \notin Early \cup {"upstream_created"} =>
                 /\ b \notin Early \cup {"upstream_created"}
                 /\ b = "grant_started" => a = "grant_started"
           /\ a \in CleaningUp => b \in CleaningUp
           /\ a \in Committed => b \in Committed
           /\ a \in Dropping => b \in Dropping
  <1>1. CASE a = b
    BY <1>1
  <1>2. CASE \/ a = "activation_pending" /\ b = "active_managed"
             \/ a = "active_managed" /\ b = "deprovision_requested"
             \/ a = "drop_started" /\ b = "deleted"
    BY <1>2 DEF Early, CleaningUp, Committed, Dropping, DeprovisionStages
  <1>3. CASE \E cl \in CleanupStatuses : ValidProvisioningTransition(a, b, cl)
    <2>1. b = "create_started" => a = "reserved"
      BY <1>3 DEF ValidProvisioningTransition
    <2>2. b = "upstream_created" => a = "create_started"
      BY <1>3 DEF ValidProvisioningTransition
    <2>3. b = "grant_started" => a = "upstream_created"
      BY <1>3 DEF ValidProvisioningTransition
    <2>4. b \notin {"absent", "reserved", "deleted"}
      BY <1>3 DEF ValidProvisioningTransition
    <2>5. a \in CleaningUp => b \in CleaningUp
      BY <1>3 DEF ValidProvisioningTransition, CleaningUp
    <2>6. a \in Committed => b \in Committed
      BY <1>3 DEF ValidProvisioningTransition, Committed, CleanupStages, DeprovisionStages
    <2>7. a \in Dropping => b \in Dropping
      BY <1>3 DEF ValidProvisioningTransition, Dropping, CleanupStages
    <2> QED BY <2>1, <2>2, <2>3, <2>4, <2>5, <2>6, <2>7 DEF Early
  <1> QED BY <1>1, <1>2, <1>3 DEF StageStep

\* A call that does not count on the row being untouched is right after any update of it.
LEMMA CallKept ==
    ASSUME NEW x \in CallRecords, NEW r \in Rows, NEW s \in Rows, NEW up, NEW gr,
           CallSound(x, r, up, gr), ~Exclusive(x),
           StageStep(r.stage, s.stage), r.rev <= s.rev
    PROVE  CallSound(x, s, up, gr)
  <1>1. /\ r.stage \in Stages /\ s.stage \in Stages /\ r.stage # "absent"
        /\ x.fence.rev \in Nat /\ r.rev \in Nat /\ s.rev \in Nat
    BY DEF CallSound, FenceBehind, Rows, CallRecords, Fences
  <1>2. FenceBehind(x, s)
    BY <1>1, StageGroups DEF CallSound, FenceBehind
  <1>3. CreateSound(x, s, up)
    BY <1>1, StageGroups DEF CallSound, CreateSound, Exclusive
  <1>4. GrantSound(x, s, gr)
    BY <1>1, StageGroups DEF CallSound, GrantSound, At
  <1>5. DropSound(x, s, up)
    BY <1>1, StageGroups DEF CallSound, DropSound
  <1> QED BY <1>2, <1>3, <1>4, <1>5 DEF CallSound

(***************************************************************************)
(* A step of call c on operation o: c becomes y, the row of o becomes s.   *)
(***************************************************************************)
CallStep(c, o, y, s) ==
    /\ InUse(c) => call[c].op = o
    /\ call' = [call EXCEPT ![c] = y]
    /\ row' = [row EXCEPT ![o] = s]
    /\ UNCHANGED <<upstream, granted>>
    /\ \A p \in Ops \ {o} : p \in accounts' <=> p \in accounts
    /\ row[o].stage = "absent" \/ StageStep(row[o].stage, s.stage)
    /\ row[o].rev <= s.rev
    /\ RowSound(o, s, accounts', upstream, granted)
    /\ Shape(y)
    /\ y.pc # "idle" => y.op = o /\ CallSound(y, s, upstream, granted)
    /\ \A d \in Calls \ {c} : InUse(d) /\ call[d].op = o =>
          /\ s = row[o] \/ ~Exclusive(call[d])
          /\ y.pc # "idle" => Apart(y, call[d], s) /\ Apart(call[d], y, s)

\* A step that is right for its own call and harmless for the others is right.
LEMMA CallStepSound ==
    ASSUME SagaInv, TypeInv', NEW c \in Calls, NEW o \in Ops,
           NEW y \in CallRecords, NEW s \in Rows, CallStep(c, o, y, s)
    PROVE  SagaInv'
  <1> USE DEF CallStep
  <1>1. \A d \in Calls : call[d] \in CallRecords /\ (InUse(d) => call[d].op \in Ops)
    BY DEF SagaInv, TypeInv, TypeOK, OpKnown, InUse
  <1>2. \A p \in Ops : row[p] \in Rows
    BY DEF SagaInv, TypeInv, TypeOK
  <1>3. /\ call'[c] = y /\ \A d \in Calls \ {c} : call'[d] = call[d]
        /\ row'[o] = s /\ \A p \in Ops \ {o} : row'[p] = row[p]
    BY DEF SagaInv, TypeInv, TypeOK
  <1>4. ASSUME NEW p \in Ops
        PROVE  RowSound(p, row'[p], accounts', upstream', granted')
    <2>1. CASE p = o
      BY <2>1, <1>3
    <2>2. CASE p # o
      BY <2>2, <1>3 DEF SagaInv, RowSound
    <2> QED BY <2>1, <2>2
  <1>5. \A d \in Calls : Shape(call'[d])
    BY <1>3 DEF SagaInv
  <1>6. ASSUME NEW d \in Calls, d # c, InUse(d)
        PROVE  CallSound(call[d], row'[call[d].op], upstream, granted)
    <2>0. CallSound(call[d], row[call[d].op], upstream, granted)
      BY <1>6 DEF SagaInv
    <2>1. CASE call[d].op # o
      BY <2>0, <2>1, <1>1, <1>3, <1>6
    <2>2. CASE call[d].op = o /\ s = row[o]
      BY <2>0, <2>2, <1>3
    <2>3. CASE call[d].op = o /\ ~Exclusive(call[d])
      <3>1. row[o].stage # "absent"
        BY <2>0, <2>3 DEF CallSound, FenceBehind
      <3> QED BY <2>0, <2>3, <3>1, <1>1, <1>2, <1>3, CallKept
    <2> QED BY <2>1, <2>2, <2>3, <1>6
  <1>7. ASSUME NEW d \in Calls, InUse(d)'
        PROVE  CallSound(call'[d], row'[call'[d].op], upstream', granted')
    <2>1. CASE d = c
      BY <2>1, <1>3, <1>7 DEF InUse
    <2>2. CASE d # c
      BY <2>2, <1>3, <1>6, <1>7 DEF InUse
    <2> QED BY <2>1, <2>2
  <1>8. ASSUME NEW d \in Calls, NEW e \in Calls, d # e, InUse(d)', InUse(e)',
               call'[d].op = call'[e].op
        PROVE  Apart(call'[d], call'[e], row'[call'[d].op])
    <2>1. CASE d = c
      BY <2>1, <1>3, <1>8 DEF InUse
    <2>2. CASE e = c
      BY <2>2, <1>3, <1>8 DEF InUse
    <2>3. CASE d # c /\ e # c
      <3>0. InUse(d) /\ InUse(e) /\ call[d].op = call[e].op
        BY <2>3, <1>3, <1>8 DEF InUse
      <3>1. Apart(call[d], call[e], row[call[d].op])
        BY <1>8, <3>0 DEF SagaInv
      <3>2. CASE call[d].op # o
        BY <3>0, <3>1, <3>2, <2>3, <1>1, <1>3
      <3>3. CASE call[d].op = o
        BY <3>0, <3>1, <3>3, <2>3, <1>3 DEF Apart
      <3> QED BY <3>2, <3>3
    <2> QED BY <2>1, <2>2, <2>3
  <1> QED BY <1>4, <1>5, <1>7, <1>8 DEF SagaInv

\* Whoever holds the fence of the row does so while nobody counts on it.
LEMMA FenceHeldAlone ==
    ASSUME SagaInv, NEW c \in Calls, InUse(c), FenceHolds(c),
           NEW d \in Calls, d # c, InUse(d), call[d].op = call[c].op
    PROVE  ~Exclusive(call[d])
  <1>1. call[c].op \in Ops /\ row[call[c].op] \in Rows
    BY DEF SagaInv, TypeInv, TypeOK, OpKnown, InUse
  <1>2. call[c].fence.rev = row[call[c].op].rev /\ row[call[c].op].rev \in Nat
    BY <1>1 DEF FenceHolds, Fence, Rows
  <1>3. Apart(call[d], call[c], row[call[c].op])
    BY DEF SagaInv
  <1> QED BY <1>2, <1>3 DEF Apart

\* The steps at which a call relies on nothing but its fence.
FreePCs == {"markUncertain", "recordCreated", "deferCleanup", "cleanupMark", "persistFailure",
            "deferUncertain"}

\* Where a call x may go on without another look at its row.
MayMove(x, pc) ==
    \/ pc \in FreePCs
    \/ pc = "discard" /\ Creating(x) /\ ~x.done
    \/ pc = "recordPending" /\ x.pc = "grant" /\ x.done
    \/ pc = "finalize" /\ x.pc = "drop" /\ x.done
    \/ pc = "complete" /\ x.pc = "deprovDrop" /\ x.done
    \/ pc \in {"activateRetry", "releaseActivation"} /\ x.pc \in {"activate", "activateRetry"}
    \/ pc = "deprovRenew" /\ x.pc = "deprovision" /\ x.fence.stage = "drop_started"

\* y is x, moved to pc.
Moved(x, y, pc) ==
    /\ y.pc = pc /\ y.sent = "none" /\ ~y.done
    /\ y.fence = x.fence /\ y.op = x.op

\* A call that moves on, or gives up, relies on no more than before.
LEMMA MoveSound ==
    ASSUME NEW x \in CallRecords, NEW y \in CallRecords, NEW r \in Rows, NEW up, NEW gr, NEW pc,
           CallSound(x, r, up, gr), MayMove(x, pc), Moved(x, y, pc)
    PROVE  /\ CallSound(y, r, up, gr)
           /\ Shape(y)
           /\ Creating(y) => Creating(x)
           /\ ~Exclusive(y)
  <1> USE DEF Moved
  <1>1. pc \notin {"readback", "crashed", "create", "createRenew", "reserved", "finalizeReserved"}
    BY DEF MayMove, FreePCs
  <1>2. At(y) = pc /\ ~Exclusive(y) /\ Shape(y)
    BY <1>1 DEF At, Exclusive, CanCreate, ReadsCreateStarted, Shape
  <1>3. Creating(y) => pc = "discard"
    BY <1>1, <1>2 DEF Creating
  <1>4. pc = "discard" => Creating(x) /\ ~x.done
    BY DEF MayMove, FreePCs
  <1>5. FenceBehind(y, r)
    BY DEF CallSound, FenceBehind
  <1>6. CreateSound(y, r, up)
    BY <1>1, <1>2, <1>3, <1>4 DEF CallSound, CreateSound, Exclusive
  <1>7. GrantSound(y, r, gr)
    BY <1>1, <1>2 DEF CallSound, GrantSound, MayMove, FreePCs, At
  <1>8. DropSound(y, r, up)
    BY <1>1, <1>2 DEF CallSound, DropSound, MayMove, FreePCs, At
  <1> QED BY <1>2, <1>3, <1>4, <1>5, <1>6, <1>7, <1>8 DEF CallSound

\* The record that GoTo leaves.
LEMMA GoToFields ==
    ASSUME SagaInv, NEW c \in Calls, NEW pc \in PCs, InUse(c), GoTo(c, pc)
    PROVE  \E y \in CallRecords :
              /\ call' = [call EXCEPT ![c] = y]
              /\ IF pc = "idle" THEN y.pc = "idle" /\ Shape(y) ELSE Moved(call[c], y, pc)
  <1>1. CASE pc = "idle"
    <2>1. Shape(NoCall)
      BY NoCallType DEF Shape, NoCall
    <2> QED BY <1>1, <2>1, NoCallType DEF GoTo
  <1>2. CASE pc # "idle"
    <2> DEFINE y == [call[c] EXCEPT !.pc = pc, !.next = "idle", !.fail = "idle", !.rb = 0,
                                    !.sent = "none", !.done = FALSE]
    <2>1. call[c] \in CallRecords
      BY DEF SagaInv, TypeInv, TypeOK
    <2>2. y \in CallRecords
      <3>1. "idle" \in PCs /\ "none" \in Statements /\ 0 \in Nat /\ FALSE \in BOOLEAN
        BY DEF PCs, Statements
      <3> QED BY <2>1, <3>1 DEF CallRecords
    <2>3. Moved(call[c], y, pc)
      <3>1. y.pc = pc /\ y.sent = "none" /\ y.fence = call[c].fence /\ y.op = call[c].op
        BY <2>1 DEF CallRecords
      <3>2. y.done = FALSE
        BY <2>1 DEF CallRecords
      <3> HIDE DEF y
      <3> QED BY <3>1, <3>2 DEF Moved
    <2>4. call' = [call EXCEPT ![c] = y]
      BY <1>2 DEF GoTo
    <2> HIDE DEF y
    <2> QED BY <1>2, <2>2, <2>3, <2>4
  <1> QED BY <1>1, <1>2

\* A call that goes on or returns, with the row as it is.
LEMMA GoToStep ==
    ASSUME SagaInv, TypeInv', NEW c \in Calls, NEW pc \in PCs, InUse(c), GoTo(c, pc),
           UNCHANGED <<row, accounts, upstream, granted>>,
           pc = "idle" \/ MayMove(call[c], pc)
    PROVE  SagaInv'
  <1> DEFINE x == call[c]
             o == x.op
  <1>1. x \in CallRecords /\ o \in Ops /\ row[o] \in Rows
    BY DEF SagaInv, TypeInv, TypeOK, OpKnown, InUse
  <1>2. CallSound(x, row[o], upstream, granted)
    BY DEF SagaInv
  <1>3. PICK y \in CallRecords :
              /\ call' = [call EXCEPT ![c] = y]
              /\ IF pc = "idle" THEN y.pc = "idle" /\ Shape(y) ELSE Moved(x, y, pc)
    BY GoToFields
  <1>4. row' = [row EXCEPT ![o] = row[o]]
    BY <1>1 DEF SagaInv, TypeInv, TypeOK
  <1>5. /\ y.pc # "idle" => /\ y.op = o /\ y.fence = x.fence
                            /\ CallSound(y, row[o], upstream, granted)
                            /\ Creating(y) => Creating(x)
                            /\ ~Exclusive(y)
        /\ Shape(y)
    <2>1. CASE pc = "idle"
      BY <2>1, <1>3
    <2>2. CASE pc # "idle"
      <3>1. Moved(x, y, pc) /\ MayMove(x, pc)
        BY <2>2, <1>3
      <3> QED BY <3>1, <1>1, <1>2, MoveSound DEF Moved
    <2> QED BY <2>1, <2>2
  <1>6. ASSUME NEW d \in Calls \ {c}, InUse(d), call[d].op = o, y.pc # "idle"
        PROVE  Apart(y, call[d], row[o]) /\ Apart(call[d], y, row[o])
    <2>1. Apart(x, call[d], row[o]) /\ Apart(call[d], x, row[o])
      BY <1>6 DEF SagaInv
    <2> QED BY <2>1, <1>5, <1>6 DEF Apart
  <1>7. RowSound(o, row[o], accounts', upstream, granted) /\ row[o].rev <= row[o].rev
    BY <1>1 DEF SagaInv, Rows
  <1>8. StageStep(row[o].stage, row[o].stage)
    BY DEF StageStep
  <1>9. CallStep(c, o, y, row[o])
    BY <1>1, <1>3, <1>4, <1>5, <1>6, <1>7, <1>8 DEF CallStep
  <1> HIDE DEF x, o
  <1> QED BY <1>1, <1>9, CallStepSound

\* A step of a call that holds the fence of its row: c becomes y, the row s.
HolderStep(c, y, s) ==
    LET x == call[c] o == call[c].op IN
    /\ InUse(c) /\ FenceHolds(c)
    /\ call' = [call EXCEPT ![c] = y]
    /\ row' = [row EXCEPT ![o] = s]
    /\ UNCHANGED <<upstream, granted>>
    /\ \A p \in Ops \ {o} : p \in accounts' <=> p \in accounts
    /\ StageStep(row[o].stage, s.stage)
    /\ row[o].rev <= s.rev
    /\ RowSound(o, s, accounts', upstream, granted)
    /\ Shape(y)
    /\ y.pc # "idle" => /\ y.op = o /\ CallSound(y, s, upstream, granted)
                        /\ Creating(y) => Creating(x)
                        /\ Exclusive(y) => row[o].rev < s.rev

\* A compare-and-set by the call whose fence holds: no other call holds it.
LEMMA HolderStepSound ==
    ASSUME SagaInv, TypeInv', NEW c \in Calls, NEW y \in CallRecords, NEW s \in Rows,
           HolderStep(c, y, s)
    PROVE  SagaInv'
  <1> DEFINE x == call[c]
             o == x.op
  <1>1. o \in Ops /\ row[o] \in Rows
    BY DEF SagaInv, TypeInv, TypeOK, OpKnown, InUse, HolderStep
  <1>2. ASSUME NEW d \in Calls \ {c}, InUse(d), call[d].op = o
        PROVE  /\ ~Exclusive(call[d])
               /\ y.pc # "idle" => Apart(y, call[d], s) /\ Apart(call[d], y, s)
    <2>1. ~Exclusive(call[d])
      BY <1>2, FenceHeldAlone DEF HolderStep
    <2>2. ~(Creating(x) /\ Creating(call[d]))
      BY <1>2 DEF SagaInv, Apart, HolderStep
    <2>3. call[d].fence.rev <= row[o].rev /\ call[d].fence.rev \in Nat
      BY <1>2 DEF SagaInv, CallSound, FenceBehind, TypeInv, TypeOK, CallRecords, Fences
    <2>4. row[o].rev \in Nat /\ s.rev \in Nat
      BY <1>1 DEF Rows
    <2> QED BY <2>1, <2>2, <2>3, <2>4 DEF Apart, HolderStep
  <1>3. CallStep(c, o, y, s)
    BY <1>2 DEF CallStep, HolderStep
  <1> HIDE DEF o
  <1> QED BY <1>1, <1>3, CallStepSound

\* The step that follows each recorded stage.
Leads(x, to, attempt, ok) ==
    \/ ok = "idle" /\ to \notin Early
    \/ ok = "createRenew" /\ to = "create_started" /\ attempt = TRUE /\ x.pc = "reserved"
    \/ ok = "recordGrantStarted" /\ to = "upstream_created"
    \/ ok = "grantRenew" /\ to = "grant_started"
    \/ ok = "activate" /\ to = "activation_pending"
    \/ ok = "cleanupMark" /\ to = "create_uncertain"
    \/ ok = "cleanupStart" /\ to = "cleanup_required"
    \/ ok = "dropRenew" /\ to = "cleanup_in_progress"
    \/ ok = "deprovRenew" /\ to = "drop_started"

\* The call that waits for the SELECT after its UPDATE.
Waits(x, y, ok, fail) ==
    /\ y.pc = "readback" /\ y.next = ok /\ y.fail = fail /\ y.rb = CleanupTimeout
    /\ y.sent = x.sent /\ y.done = x.done /\ y.fence = x.fence /\ y.op = x.op

\* A transition leaves a row that agrees with account and user.
LEMMA TransitionRow ==
    ASSUME NEW o, NEW acc, NEW up, NEW gr, NEW r \in Rows, NEW s \in Rows, NEW cleanup,
           RowSound(o, r, acc, up, gr),
           ValidProvisioningTransition(r.stage, s.stage, cleanup),
           s.stage = "not_created" => o \notin up,
           s.stage = "activation_pending" => o \in gr
    PROVE  RowSound(o, s, acc, up, gr)
  <1>1. s.stage \notin {"absent", "reserved", "deleted", "active_managed", "deprovision_requested"}
    BY DEF ValidProvisioningTransition
  <1>2. r.stage # "active_managed"
    BY DEF ValidProvisioningTransition, CleanupStages
  <1>3. r.stage \in DeprovisionStages <=> s.stage \in DeprovisionStages
    BY DEF ValidProvisioningTransition, CleanupStages, DeprovisionStages
  <1> QED BY <1>1, <1>2, <1>3 DEF RowSound

\* A call that waits for the SELECT after its UPDATE.
LEMMA WaitsSound ==
    ASSUME NEW x \in CallRecords, NEW y \in CallRecords, NEW s \in Rows, NEW up, NEW gr,
           NEW to, NEW attempt, NEW ok, NEW fail, NEW r \in Rows,
           CallSound(x, r, up, gr), r.rev < s.rev, s.stage = to, to # "reserved", to # "absent",
           attempt = TRUE => s.age = 0,
           x.sent = "none", ~x.done, Leads(x, to, attempt, ok), fail \in {"idle", "persistFailure"},
           Waits(x, y, ok, fail)
    PROVE  /\ CallSound(y, s, up, gr)
           /\ Shape(y)
           /\ Creating(y) => Creating(x)
  <1> USE DEF Waits
  <1>1. At(y) = ok /\ Shape(y)
    BY DEF At, Shape, Leads
  <1>2. Creating(y) => ok = "createRenew"
    BY <1>1 DEF Creating, Leads
  <1>3. ok = "createRenew" => to = "create_started" /\ attempt = TRUE /\ x.pc = "reserved"
    BY DEF Leads
  <1>4. x.pc = "reserved" => Creating(x)
    BY DEF Creating, At
  <1>5. FenceBehind(y, s)
    <2>1. x.fence.rev \in Nat /\ r.rev \in Nat /\ s.rev \in Nat
      BY DEF CallRecords, Fences, Rows
    <2> QED BY <2>1 DEF CallSound, FenceBehind
  <1>6. CreateSound(y, s, up)
    <2>1. 0 + CleanupTimeout <= CleanupTimeout
      BY DurationAssumption
    <2>2. ok # "createRenew" => to \notin Early
      BY DEF Leads, Early
    <2> QED BY <1>1, <1>2, <1>3, <1>4, <2>1, <2>2
            DEF CallSound, CreateSound, CanCreate, ReadsCreateStarted
  <1>7. GrantSound(y, s, gr)
    BY <1>1 DEF GrantSound, Leads, Early, Committed
  <1>8. DropSound(y, s, up)
    BY <1>1 DEF DropSound, Leads, CleaningUp, Dropping
  <1> QED BY <1>1, <1>2, <1>3, <1>4, <1>5, <1>6, <1>7, <1>8 DEF CallSound

\* The row an update of the store leaves, field by field.
LEMMA RowFields ==
    ASSUME NEW r \in Rows
    PROVE  /\ Renewed(r).stage = r.stage /\ Renewed(r).rev = r.rev + 1
           /\ Renewed(r).left = LeaseDuration
           /\ Claimed(r).stage = r.stage /\ Claimed(r).rev = r.rev + 1
           /\ Activated(r).stage = "active_managed" /\ Activated(r).rev = r.rev + 1
           /\ r.rev \in Nat /\ r.rev <= r.rev + 1 /\ r.rev < r.rev + 1
  BY DEF Renewed, Claimed, Activated, Rows

\* A call that holds the fence updates its row and goes on, or returns.
LEMMA HolderMoves ==
    ASSUME SagaInv, TypeInv', NEW c \in Calls, NEW s \in Rows, NEW pc \in PCs,
           InUse(c), FenceHolds(c), GoTo(c, pc), pc = "idle" \/ MayMove(call[c], pc),
           row' = [row EXCEPT ![call[c].op] = s],
           UNCHANGED <<upstream, granted>>,
           \A p \in Ops \ {call[c].op} : p \in accounts' <=> p \in accounts,
           StageStep(row[call[c].op].stage, s.stage),
           row[call[c].op].rev <= s.rev,
           RowSound(call[c].op, s, accounts', upstream, granted)
    PROVE  SagaInv'
  <1> DEFINE x == call[c]
             o == x.op
  <1>1. x \in CallRecords /\ o \in Ops /\ row[o] \in Rows
    BY DEF SagaInv, TypeInv, TypeOK, OpKnown, InUse
  <1>2. CallSound(x, row[o], upstream, granted)
    BY DEF SagaInv
  <1>3. PICK y \in CallRecords :
              /\ call' = [call EXCEPT ![c] = y]
              /\ IF pc = "idle" THEN y.pc = "idle" /\ Shape(y) ELSE Moved(x, y, pc)
    BY GoToFields
  <1>4. y.pc # "idle" => /\ y.op = o /\ CallSound(y, s, upstream, granted)
                         /\ Creating(y) => Creating(x)
                         /\ ~Exclusive(y)
    <2>1. CASE pc = "idle"
      BY <2>1, <1>3
    <2>2. CASE pc # "idle"
      <3>1. Moved(x, y, pc) /\ MayMove(x, pc)
        BY <2>2, <1>3
      <3>2. CallSound(y, row[o], upstream, granted) /\ ~Exclusive(y) /\ (Creating(y) => Creating(x))
        BY <3>1, <1>1, <1>2, MoveSound
      <3>3. CallSound(y, s, upstream, granted)
        BY <3>2, <1>1, CallKept
      <3> QED BY <3>1, <3>2, <3>3 DEF Moved
    <2> QED BY <2>1, <2>2
  <1>5. Shape(y)
    <2>1. CASE pc = "idle"
      BY <2>1, <1>3
    <2>2. CASE pc # "idle"
      <3>1. Moved(x, y, pc) /\ MayMove(x, pc)
        BY <2>2, <1>3
      <3> QED BY <3>1, <1>1, <1>2, MoveSound
    <2> QED BY <2>1, <2>2
  <1>6. HolderStep(c, y, s)
    BY <1>3, <1>4, <1>5 DEF HolderStep
  <1> QED BY <1>6, HolderStepSound

\* The transition of transitionDetached, in all its outcomes, by what it records.
LEMMA TransitionStep ==
    ASSUME SagaInv, TypeInv', NEW c \in Calls, InUse(c),
           call[c].pc \notin SideEffects \cup {"crashed"},
           NEW to \in Stages, NEW cleanup \in CleanupStatuses,
           NEW attempt \in BOOLEAN, NEW release \in BOOLEAN,
           NEW ok \in PCs, NEW fail \in PCs,
           TransitionDetached(c, to, cleanup, attempt, release, ok, fail),
           fail \in {"idle", "persistFailure"},
           Leads(call[c], to, attempt, ok),
           CanTransition(c, to, cleanup) =>
              /\ to = "not_created" => call[c].op \notin upstream
              /\ to = "activation_pending" => call[c].op \in granted
    PROVE  SagaInv'
  <1> DEFINE x == call[c]
             o == x.op
             s == Transitioned(row[o], to, cleanup, attempt, release)
  <1>1. x \in CallRecords /\ o \in Ops /\ row[o] \in Rows
    BY DEF SagaInv, TypeInv, TypeOK, OpKnown, InUse
  <1>2. CallSound(x, row[o], upstream, granted) /\ x.sent = "none" /\ ~x.done
    BY DEF SagaInv, Shape
  <1>3. /\ s \in Rows /\ s.stage = to /\ row[o].rev < s.rev /\ row[o].rev <= s.rev
        /\ attempt = TRUE => s.age = 0
    <2>1. s \in Rows
      BY <1>1, RowUpdates
    <2>2. /\ s.stage = to /\ s.rev = row[o].rev + 1 /\ row[o].rev \in Nat
          /\ attempt = TRUE => s.age = 0
      BY <1>1 DEF Transitioned, Rows
    <2> HIDE DEF s
    <2> QED BY <2>1, <2>2
  <1>4. UNCHANGED <<accounts, upstream, granted>>
    BY DEF TransitionDetached
  <1>5. CASE UNCHANGED row /\ GoTo(c, fail)
    <2>1. fail = "idle" \/ MayMove(x, fail)
      BY DEF MayMove, FreePCs
    <2> QED BY <1>4, <1>5, <2>1, GoToStep
  <1>6. CASE /\ CanTransition(c, to, cleanup)
             /\ row' = [row EXCEPT ![o] = s]
             /\ \/ GoTo(c, "idle")
                \/ call' = [call EXCEPT ![c].pc = "readback", ![c].next = ok,
                                        ![c].fail = fail, ![c].rb = CleanupTimeout]
    <2>1. FenceHolds(c) /\ ValidProvisioningTransition(row[o].stage, to, cleanup)
      BY <1>1, <1>6 DEF CanTransition, FenceHolds, Fence
    <2>2. StageStep(row[o].stage, s.stage)
      BY <1>3, <2>1 DEF StageStep
    <2>3. RowSound(o, s, accounts', upstream, granted)
      <3>1. RowSound(o, row[o], accounts, upstream, granted)
        BY <1>1 DEF SagaInv
      <3>2. RowSound(o, s, accounts, upstream, granted)
        <4> HIDE DEF s, o
        <4> QED BY <3>1, <1>1, <1>3, <1>6, <2>1, TransitionRow DEF o
      <3> QED BY <3>2, <1>4
    <2>4. row' = [row EXCEPT ![o] = s]
      BY <1>6
    <2> HIDE DEF s
    <2>5. CASE GoTo(c, "idle")
      BY <1>3, <1>4, <2>1, <2>2, <2>3, <2>4, <2>5, Names, HolderMoves
    <2>6. CASE call' = [call EXCEPT ![c].pc = "readback", ![c].next = ok,
                                    ![c].fail = fail, ![c].rb = CleanupTimeout]
      <3> DEFINE y == [x EXCEPT !.pc = "readback", !.next = ok, !.fail = fail,
                                !.rb = CleanupTimeout]
      <3>1. y \in CallRecords
        <4>1. CleanupTimeout \in Nat /\ "readback" \in PCs
          BY DurationAssumption DEF PCs
        <4> QED BY <1>1, <4>1 DEF CallRecords
      <3>2. Waits(x, y, ok, fail)
        BY <1>1 DEF Waits, CallRecords
      <3>3. call' = [call EXCEPT ![c] = y]
        BY <2>6
      <3>8. /\ Leads(x, to, attempt, ok) /\ x \in CallRecords /\ row[o] \in Rows
            /\ CallSound(x, row[o], upstream, granted) /\ x.sent = "none" /\ ~x.done
        BY <1>1, <1>2
      <3> HIDE <2>6 DEF y, x, o
      <3>4. to # "reserved" /\ to # "absent"
        BY <2>1 DEF ValidProvisioningTransition
      <3>5. CallSound(y, s, upstream, granted) /\ Shape(y) /\ (Creating(y) => Creating(x))
        BY <1>3, <3>1, <3>2, <3>4, <3>8, WaitsSound
      <3>6. y.op = o
        BY <3>2 DEF Waits, o
      <3>7. HolderStep(c, y, s)
        BY <1>3, <1>4, <2>1, <2>2, <2>3, <2>4, <3>3, <3>5, <3>6 DEF HolderStep, x, o
      <3> QED BY <1>3, <3>1, <3>7, HolderStepSound
    <2> QED BY <1>6, <2>5, <2>6
  <1>7. \/ UNCHANGED row /\ GoTo(c, fail)
        \/ /\ CanTransition(c, to, cleanup)
           /\ row' = [row EXCEPT ![o] = s]
           /\ \/ GoTo(c, "idle")
              \/ call' = [call EXCEPT ![c].pc = "readback", ![c].next = ok,
                                      ![c].fail = fail, ![c].rb = CleanupTimeout]
    BY DEF TransitionDetached
  <1> QED BY <1>5, <1>6, <1>7

\* What a call in use may be assumed to know of itself.
LEMMA KnownOfCall ==
    ASSUME SagaInv, NEW c \in Calls, InUse(c)
    PROVE  /\ call[c] \in CallRecords /\ call[c].op \in Ops /\ row[call[c].op] \in Rows
           /\ CallSound(call[c], row[call[c].op], upstream, granted)
           /\ RowSound(call[c].op, row[call[c].op], accounts, upstream, granted)
           /\ FenceHolds(c) => /\ call[c].fence.stage = row[call[c].op].stage
                               /\ call[c].fence.cleanup = row[call[c].op].cleanup
                               /\ call[c].fence.rev = row[call[c].op].rev
  <1>1. call[c] \in CallRecords /\ call[c].op \in Ops /\ row[call[c].op] \in Rows
    BY DEF SagaInv, TypeInv, TypeOK, OpKnown, InUse
  <1>2. CallSound(call[c], row[call[c].op], upstream, granted)
    BY DEF SagaInv
  <1>3. RowSound(call[c].op, row[call[c].op], accounts, upstream, granted)
    BY <1>1 DEF SagaInv
  <1>4. FenceHolds(c) => /\ call[c].fence.stage = row[call[c].op].stage
                         /\ call[c].fence.cleanup = row[call[c].op].cleanup
                         /\ call[c].fence.rev = row[call[c].op].rev
    BY DEF FenceHolds, Fence
  <1> QED BY <1>1, <1>2, <1>3, <1>4

\* What is recorded about the user is true of it.
LEMMA RecordsAreTrue ==
    ASSUME SagaInv, NEW c \in Calls, InUse(c),
           call[c].pc \notin SideEffects \cup {"crashed"}
    PROVE  /\ call[c].pc \in {"discard", "finalize"} => call[c].op \notin upstream
           /\ call[c].pc = "finalizeReserved" /\ FenceHolds(c) => call[c].op \notin upstream
           /\ call[c].pc \in {"recordPending", "releaseActivation"} /\ FenceHolds(c) =>
                 (call[c].fence.stage \in {"grant_started", "activation_pending"}
                    => call[c].op \in granted)
  <1>0. ~call[c].done
    BY DEF SagaInv, Shape
  <1>1. call[c].pc \in {"discard", "finalize"} => call[c].op \notin upstream
    BY <1>0, KnownOfCall DEF CallSound, CreateSound, DropSound, Creating, At
  <1>2. call[c].pc = "finalizeReserved" /\ FenceHolds(c) => call[c].op \notin upstream
    BY KnownOfCall DEF CallSound, CreateSound, RowSound
  <1>3. call[c].pc \in {"recordPending", "releaseActivation"} /\ FenceHolds(c) =>
            (call[c].fence.stage \in {"grant_started", "activation_pending"}
               => call[c].op \in granted)
    <2>1. "grant_started" \notin Committed
      BY DEF Committed, DeprovisionStages
    <2> QED BY <2>1, KnownOfCall DEF CallSound, GrantSound, RowSound
  <1> QED BY <1>1, <1>2, <1>3

\* Every step that is one recorded transition keeps the invariant.
LEMMA RecordedTransitionsSound ==
    ASSUME SagaInv, TypeInv', NEW c \in Calls,
           \/ DiscardNotCreated(c)
           \/ RecordCreateStarted(c)
           \/ RecordCreated(c)
           \/ RecordGrantStarted(c)
           \/ DeferCleanupForReconcile(c)
           \/ RecordActivationPending(c)
           \/ RecordCreateUncertain(c)
           \/ CleanupMark(c)
           \/ CleanupStart(c)
           \/ PersistCleanupFailure(c)
           \/ ReleaseActivationForReconcile(c)
           \/ FinalizeReserved(c)
           \/ DeferDropUncertain(c)
    PROVE  SagaInv'
  <1>1. CASE DiscardNotCreated(c)
    <2>1. /\ call[c].pc = "discard"
          /\ TransitionDetached(c, "not_created", "none", FALSE, TRUE, "idle", "idle")
      BY <1>1 DEF DiscardNotCreated
    <2>2. InUse(c) /\ call[c].pc \notin SideEffects \cup {"crashed"}
      BY <2>1 DEF InUse, SideEffects, StatementOf
    <2>3. Leads(call[c], "not_created", FALSE, "idle") /\ "idle" \in {"idle", "persistFailure"}
      BY <2>1 DEF Leads, Early
    <2>4. CanTransition(c, "not_created", "none") =>
              /\ "not_created" = "not_created" => call[c].op \notin upstream
              /\ "not_created" = "activation_pending" => call[c].op \in granted
      BY <2>1, <2>2, RecordsAreTrue DEF CanTransition, ValidProvisioningTransition
    <2> QED BY <2>1, <2>2, <2>3, <2>4, Names, TransitionStep, Zenon
  <1>2. CASE RecordCreateStarted(c)
    <2>1. /\ call[c].pc = "reserved"
          /\ TransitionDetached(c, "create_started", "none", TRUE, FALSE, "createRenew", "idle")
      BY <1>2 DEF RecordCreateStarted
    <2>2. InUse(c) /\ call[c].pc \notin SideEffects \cup {"crashed"}
      BY <2>1 DEF InUse, SideEffects, StatementOf
    <2>3. /\ Leads(call[c], "create_started", TRUE, "createRenew")
          /\ "idle" \in {"idle", "persistFailure"}
      BY <2>1 DEF Leads, Early
    <2>4. CanTransition(c, "create_started", "none") =>
              /\ "create_started" = "not_created" => call[c].op \notin upstream
              /\ "create_started" = "activation_pending" => call[c].op \in granted
      OBVIOUS
    <2> QED BY <2>1, <2>2, <2>3, <2>4, Names, TransitionStep, Zenon
  <1>3. CASE RecordCreated(c)
    <2>1. /\ call[c].pc = "recordCreated"
          /\ TransitionDetached(c, "upstream_created", "none", FALSE, FALSE, "recordGrantStarted", "idle")
      BY <1>3 DEF RecordCreated
    <2>2. InUse(c) /\ call[c].pc \notin SideEffects \cup {"crashed"}
      BY <2>1 DEF InUse, SideEffects, StatementOf
    <2>3. /\ Leads(call[c], "upstream_created", FALSE, "recordGrantStarted")
          /\ "idle" \in {"idle", "persistFailure"}
      BY <2>1 DEF Leads, Early
    <2>4. CanTransition(c, "upstream_created", "none") =>
              /\ "upstream_created" = "not_created" => call[c].op \notin upstream
              /\ "upstream_created" = "activation_pending" => call[c].op \in granted
      OBVIOUS
    <2> QED BY <2>1, <2>2, <2>3, <2>4, Names, TransitionStep, Zenon
  <1>4. CASE RecordGrantStarted(c)
    <2>1. /\ call[c].pc = "recordGrantStarted"
          /\ TransitionDetached(c, "grant_started", "none", FALSE, FALSE, "grantRenew", "idle")
      BY <1>4 DEF RecordGrantStarted
    <2>2. InUse(c) /\ call[c].pc \notin SideEffects \cup {"crashed"}
      BY <2>1 DEF InUse, SideEffects, StatementOf
    <2>3. /\ Leads(call[c], "grant_started", FALSE, "grantRenew")
          /\ "idle" \in {"idle", "persistFailure"}
      BY <2>1 DEF Leads, Early
    <2>4. CanTransition(c, "grant_started", "none") =>
              /\ "grant_started" = "not_created" => call[c].op \notin upstream
              /\ "grant_started" = "activation_pending" => call[c].op \in granted
      OBVIOUS
    <2> QED BY <2>1, <2>2, <2>3, <2>4, Names, TransitionStep, Zenon
  <1>5. CASE DeferCleanupForReconcile(c)
    <2>1. /\ call[c].pc = "deferCleanup"
          /\ TransitionDetached(c, "cleanup_required", "required", FALSE, TRUE, "idle", "idle")
      BY <1>5 DEF DeferCleanupForReconcile
    <2>2. InUse(c) /\ call[c].pc \notin SideEffects \cup {"crashed"}
      BY <2>1 DEF InUse, SideEffects, StatementOf
    <2>3. Leads(call[c], "cleanup_required", FALSE, "idle") /\ "idle" \in {"idle", "persistFailure"}
      BY <2>1 DEF Leads, Early
    <2>4. CanTransition(c, "cleanup_required", "required") =>
              /\ "cleanup_required" = "not_created" => call[c].op \notin upstream
              /\ "cleanup_required" = "activation_pending" => call[c].op \in granted
      OBVIOUS
    <2> QED BY <2>1, <2>2, <2>3, <2>4, Names, TransitionStep, Zenon
  <1>6. CASE RecordActivationPending(c)
    <2>1. /\ call[c].pc = "recordPending"
          /\ TransitionDetached(c, "activation_pending", "none", FALSE, FALSE, "activate", "idle")
      BY <1>6 DEF RecordActivationPending
    <2>2. InUse(c) /\ call[c].pc \notin SideEffects \cup {"crashed"}
      BY <2>1 DEF InUse, SideEffects, StatementOf
    <2>3. /\ Leads(call[c], "activation_pending", FALSE, "activate")
          /\ "idle" \in {"idle", "persistFailure"}
      BY <2>1 DEF Leads, Early
    <2>4. CanTransition(c, "activation_pending", "none") =>
              /\ "activation_pending" = "not_created" => call[c].op \notin upstream
              /\ "activation_pending" = "activation_pending" => call[c].op \in granted
      BY <2>1, <2>2, RecordsAreTrue DEF CanTransition, ValidProvisioningTransition
    <2> QED BY <2>1, <2>2, <2>3, <2>4, Names, TransitionStep, Zenon
  <1>7. CASE RecordCreateUncertain(c)
    <2>1. /\ call[c].pc = "markUncertain"
          /\ TransitionDetached(c, "create_uncertain", "required", FALSE, FALSE, "cleanupMark", "idle")
      BY <1>7 DEF RecordCreateUncertain
    <2>2. InUse(c) /\ call[c].pc \notin SideEffects \cup {"crashed"}
      BY <2>1 DEF InUse, SideEffects, StatementOf
    <2>3. /\ Leads(call[c], "create_uncertain", FALSE, "cleanupMark")
          /\ "idle" \in {"idle", "persistFailure"}
      BY <2>1 DEF Leads, Early
    <2>4. CanTransition(c, "create_uncertain", "required") =>
              /\ "create_uncertain" = "not_created" => call[c].op \notin upstream
              /\ "create_uncertain" = "activation_pending" => call[c].op \in granted
      OBVIOUS
    <2> QED BY <2>1, <2>2, <2>3, <2>4, Names, TransitionStep, Zenon
  <1>8. CASE CleanupMark(c)
    <2>1. /\ call[c].pc = "cleanupMark"
          /\ TransitionDetached(c, "cleanup_required", "required", FALSE, FALSE, "cleanupStart", "idle")
      BY <1>8 DEF CleanupMark
    <2>2. InUse(c) /\ call[c].pc \notin SideEffects \cup {"crashed"}
      BY <2>1 DEF InUse, SideEffects, StatementOf
    <2>3. /\ Leads(call[c], "cleanup_required", FALSE, "cleanupStart")
          /\ "idle" \in {"idle", "persistFailure"}
      BY <2>1 DEF Leads, Early
    <2>4. CanTransition(c, "cleanup_required", "required") =>
              /\ "cleanup_required" = "not_created" => call[c].op \notin upstream
              /\ "cleanup_required" = "activation_pending" => call[c].op \in granted
      OBVIOUS
    <2> QED BY <2>1, <2>2, <2>3, <2>4, Names, TransitionStep, Zenon
  <1>9. CASE CleanupStart(c)
    <2>1. /\ call[c].pc = "cleanupStart"
          /\ TransitionDetached(c, "cleanup_in_progress", "in_progress", TRUE, FALSE, "dropRenew", "idle")
      BY <1>9 DEF CleanupStart
    <2>2. InUse(c) /\ call[c].pc \notin SideEffects \cup {"crashed"}
      BY <2>1 DEF InUse, SideEffects, StatementOf
    <2>3. /\ Leads(call[c], "cleanup_in_progress", TRUE, "dropRenew")
          /\ "idle" \in {"idle", "persistFailure"}
      BY <2>1 DEF Leads, Early
    <2>4. CanTransition(c, "cleanup_in_progress", "in_progress") =>
              /\ "cleanup_in_progress" = "not_created" => call[c].op \notin upstream
              /\ "cleanup_in_progress" = "activation_pending" => call[c].op \in granted
      OBVIOUS
    <2> QED BY <2>1, <2>2, <2>3, <2>4, Names, TransitionStep, Zenon
  <1>10. CASE PersistCleanupFailure(c)
    <2>1. /\ call[c].pc = "persistFailure"
          /\ TransitionDetached(c, "cleanup_required", "failed", FALSE, TRUE, "idle", "idle")
      BY <1>10 DEF PersistCleanupFailure
    <2>2. InUse(c) /\ call[c].pc \notin SideEffects \cup {"crashed"}
      BY <2>1 DEF InUse, SideEffects, StatementOf
    <2>3. Leads(call[c], "cleanup_required", FALSE, "idle") /\ "idle" \in {"idle", "persistFailure"}
      BY <2>1 DEF Leads, Early
    <2>4. CanTransition(c, "cleanup_required", "failed") =>
              /\ "cleanup_required" = "not_created" => call[c].op \notin upstream
              /\ "cleanup_required" = "activation_pending" => call[c].op \in granted
      OBVIOUS
    <2> QED BY <2>1, <2>2, <2>3, <2>4, Names, TransitionStep, Zenon
  <1>11. CASE ReleaseActivationForReconcile(c)
    <2>1. /\ call[c].pc = "releaseActivation"
          /\ TransitionDetached(c, "activation_pending", "none", TRUE, TRUE, "idle", "idle")
      BY <1>11 DEF ReleaseActivationForReconcile
    <2>2. InUse(c) /\ call[c].pc \notin SideEffects \cup {"crashed"}
      BY <2>1 DEF InUse, SideEffects, StatementOf
    <2>3. /\ Leads(call[c], "activation_pending", TRUE, "idle")
          /\ "idle" \in {"idle", "persistFailure"}
      BY <2>1 DEF Leads, Early
    <2>4. CanTransition(c, "activation_pending", "none") =>
              /\ "activation_pending" = "not_created" => call[c].op \notin upstream
              /\ "activation_pending" = "activation_pending" => call[c].op \in granted
      BY <2>1, <2>2, RecordsAreTrue DEF CanTransition, ValidProvisioningTransition
    <2> QED BY <2>1, <2>2, <2>3, <2>4, Names, TransitionStep, Zenon
  <1>12. CASE FinalizeReserved(c)
    <2>1. /\ call[c].pc = "finalizeReserved"
          /\ TransitionDetached(c, "not_created", "none", FALSE, TRUE, "idle", "idle")
      BY <1>12 DEF FinalizeReserved
    <2>2. InUse(c) /\ call[c].pc \notin SideEffects \cup {"crashed"}
      BY <2>1 DEF InUse, SideEffects, StatementOf
    <2>3. Leads(call[c], "not_created", FALSE, "idle") /\ "idle" \in {"idle", "persistFailure"}
      BY <2>1 DEF Leads, Early
    <2>4. CanTransition(c, "not_created", "none") =>
              /\ "not_created" = "not_created" => call[c].op \notin upstream
              /\ "not_created" = "activation_pending" => call[c].op \in granted
      BY <2>1, <2>2, RecordsAreTrue DEF CanTransition, ValidProvisioningTransition
    <2> QED BY <2>1, <2>2, <2>3, <2>4, Names, TransitionStep, Zenon
  <1>13. CASE DeferDropUncertain(c)
    <2>1. /\ call[c].pc = "deferUncertain"
          /\ TransitionDetached(c, "drop_uncertain", "required", FALSE, TRUE, "idle", "idle")
      BY <1>13 DEF DeferDropUncertain
    <2>2. InUse(c) /\ call[c].pc \notin SideEffects \cup {"crashed"}
      BY <2>1 DEF InUse, SideEffects, StatementOf
    <2>3. Leads(call[c], "drop_uncertain", FALSE, "idle") /\ "idle" \in {"idle", "persistFailure"}
      BY <2>1 DEF Leads, Early
    <2>4. CanTransition(c, "drop_uncertain", "required") =>
              /\ "drop_uncertain" = "not_created" => call[c].op \notin upstream
              /\ "drop_uncertain" = "activation_pending" => call[c].op \in granted
      OBVIOUS
    <2> QED BY <2>1, <2>2, <2>3, <2>4, Names, TransitionStep, Zenon
  <1> QED BY <1>1, <1>2, <1>3, <1>4, <1>5, <1>6, <1>7, <1>8, <1>9, <1>10, <1>11, <1>12, <1>13

\* finalizeNotCreated records not_created only after the user is gone.
LEMMA FinalizeSound ==
    ASSUME SagaInv, TypeInv', NEW c \in Calls, Finalize(c)
    PROVE  SagaInv'
  <1> DEFINE fail == IF call[c].reconciles THEN "persistFailure" ELSE "idle"
  <1>1. /\ call[c].pc = "finalize"
        /\ TransitionDetached(c, "not_created", "none", FALSE, TRUE, "idle", fail)
    BY DEF Finalize
  <1>2. InUse(c) /\ call[c].pc \notin SideEffects \cup {"crashed"}
    BY <1>1 DEF InUse, SideEffects, StatementOf
  <1>3. /\ Leads(call[c], "not_created", FALSE, "idle")
        /\ fail \in {"idle", "persistFailure"} /\ fail \in PCs
    BY Names DEF Leads, Early
  <1>4. CanTransition(c, "not_created", "none") =>
              /\ "not_created" = "not_created" => call[c].op \notin upstream
              /\ "not_created" = "activation_pending" => call[c].op \in granted
    BY <1>1, <1>2, RecordsAreTrue
  <1> HIDE DEF fail
  <1> QED BY <1>1, <1>2, <1>3, <1>4, Names, TransitionStep, Zenon

\* reconcileCleanup takes the cleanup over, or stops.
LEMMA ReconcileCleanupSound ==
    ASSUME SagaInv, TypeInv', NEW c \in Calls, ReconcileCleanup(c)
    PROVE  SagaInv'
  <1>1. InUse(c) /\ call[c].pc \notin SideEffects \cup {"crashed"}
    BY DEF ReconcileCleanup, InUse, SideEffects, StatementOf
  <1>2. CASE GoTo(c, "persistFailure") /\ UNCHANGED <<row, accounts, upstream, granted>>
    <2>1. MayMove(call[c], "persistFailure")
      BY DEF MayMove, FreePCs
    <2> QED BY <1>1, <1>2, <2>1, Names, GoToStep
  <1>3. CASE TransitionDetached(c, "cleanup_in_progress", "in_progress", TRUE, FALSE,
                                "dropRenew", "idle")
    <2>1. /\ Leads(call[c], "cleanup_in_progress", TRUE, "dropRenew")
          /\ "idle" \in {"idle", "persistFailure"}
      BY DEF Leads
    <2>2. CanTransition(c, "cleanup_in_progress", "in_progress") =>
              /\ "cleanup_in_progress" = "not_created" => call[c].op \notin upstream
              /\ "cleanup_in_progress" = "activation_pending" => call[c].op \in granted
      OBVIOUS
    <2> QED BY <1>1, <1>3, <2>1, <2>2, Names, TransitionStep, Zenon
  <1> QED BY <1>2, <1>3 DEF ReconcileCleanup

\* runDeprovision records drop_started before it drops, or stops.
LEMMA RunDeprovisionSound ==
    ASSUME SagaInv, TypeInv', NEW c \in Calls, RunDeprovision(c)
    PROVE  SagaInv'
  <1>1. InUse(c) /\ call[c].pc = "deprovision" /\ call[c].pc \notin SideEffects \cup {"crashed"}
    BY DEF RunDeprovision, InUse, SideEffects, StatementOf
  <1>2. CASE TransitionDetached(c, "drop_started", "in_progress", TRUE, FALSE,
                                "deprovRenew", "idle")
    <2>1. /\ Leads(call[c], "drop_started", TRUE, "deprovRenew")
          /\ "idle" \in {"idle", "persistFailure"}
      BY DEF Leads
    <2>2. CanTransition(c, "drop_started", "in_progress") =>
              /\ "drop_started" = "not_created" => call[c].op \notin upstream
              /\ "drop_started" = "activation_pending" => call[c].op \in granted
      OBVIOUS
    <2> QED BY <1>1, <1>2, <2>1, <2>2, Names, TransitionStep, Zenon
  <1>3. CASE /\ UNCHANGED <<row, accounts, upstream, granted>>
             /\ \/ GoTo(c, "idle") \/ GoTo(c, "deferUncertain")
                \/ call[c].fence.stage = "drop_started" /\ GoTo(c, "deprovRenew")
    <2>1. MayMove(call[c], "deferUncertain") /\ "deferUncertain" \in PCs
      BY DEF MayMove, FreePCs, PCs
    <2>2. call[c].fence.stage = "drop_started" => MayMove(call[c], "deprovRenew")
      BY <1>1 DEF MayMove
    <2> QED BY <1>1, <1>3, <2>1, <2>2, Names, GoToStep
  <1> QED BY <1>2, <1>3 DEF RunDeprovision

\* The call whose lease was renewed for its side effect.
Renews(x, y, ok, s) ==
    /\ y.pc = ok /\ y.fence = Fence(s) /\ y.budget = SideEffectTimeout(LeaseDuration)
    /\ y.sent = x.sent /\ y.done = x.done /\ y.op = x.op

\* The side effect that each renewal is for.
RenewsFor(pc, ok) ==
    <<pc, ok>> \in {<<"createRenew", "create">>, <<"grantRenew", "grant">>,
                    <<"dropRenew", "drop">>, <<"deprovRenew", "deprovDrop">>}

\* What the renewal of a lease leaves the call with.
LEMMA RenewsSound ==
    ASSUME NEW x \in CallRecords, NEW y \in CallRecords, NEW r \in Rows, NEW s \in Rows,
           NEW up, NEW gr, NEW ok,
           CallSound(x, r, up, gr), x.fence.stage = r.stage, RenewsFor(x.pc, ok),
           x.sent = "none", ~x.done, Renews(x, y, ok, s),
           s.stage = r.stage, r.rev < s.rev, s.left = LeaseDuration
    PROVE  /\ CallSound(y, s, up, gr)
           /\ Shape(y)
           /\ Creating(y) => Creating(x)
  <1> USE DEF Renews
  <1>1. \/ x.pc = "createRenew" /\ ok = "create"
        \/ x.pc = "grantRenew" /\ ok = "grant"
        \/ x.pc = "dropRenew" /\ ok = "drop"
        \/ x.pc = "deprovRenew" /\ ok = "deprovDrop"
    BY DEF RenewsFor
  <1>2. At(y) = ok /\ At(x) = x.pc /\ Shape(y)
    BY <1>1 DEF At, Shape
  <1>3. /\ Creating(y) => ok = "create"
        /\ x.pc = "createRenew" => Creating(x)
    BY <1>1, <1>2 DEF Creating
  <1>4. FenceBehind(y, s)
    <2>1. y.fence.rev = s.rev /\ s.rev \in Nat
      BY DEF Fence, Rows
    <2> QED BY <2>1 DEF CallSound, FenceBehind
  <1>5. CreateSound(y, s, up)
    <2>1. CanCreate(y) => s.stage = "create_started" /\ s.left > y.budget
      <3>1. LeaseDuration > SideEffectTimeout(LeaseDuration)
        <4>1. LeaseDuration \in Nat
          BY DurationAssumption
        <4>2. SideEffectTimeout(LeaseDuration) \in Nat
          BY <4>1, SideEffectTimeoutNat
        <4> QED BY <4>1, <4>2, SideEffectTimeoutBound
      <3> QED BY <1>1, <3>1 DEF CallSound, CreateSound, CanCreate
    <2> QED BY <1>1, <1>2, <1>3, <2>1 DEF CallSound, CreateSound, ReadsCreateStarted
  <1>6. GrantSound(y, s, gr)
    BY <1>1, <1>2 DEF CallSound, GrantSound
  <1>7. DropSound(y, s, up)
    BY <1>1, <1>2 DEF CallSound, DropSound
  <1> QED BY <1>1, <1>2, <1>3, <1>4, <1>5, <1>6, <1>7 DEF CallSound

\* renewForSideEffect: the lease outlives the budget of the statement.
LEMMA RenewStep ==
    ASSUME SagaInv, TypeInv', NEW c \in Calls, InUse(c),
           NEW ok \in PCs, NEW fail \in PCs, RenewForSideEffect(c, ok, fail),
           RenewsFor(call[c].pc, ok), fail = "idle" \/ MayMove(call[c], fail)
    PROVE  SagaInv'
  <1> DEFINE x == call[c]
             o == x.op
             s == Renewed(row[o])
  <1>1. /\ x \in CallRecords /\ o \in Ops /\ row[o] \in Rows
        /\ CallSound(x, row[o], upstream, granted)
        /\ RowSound(o, row[o], accounts, upstream, granted)
        /\ FenceHolds(c) => x.fence.stage = row[o].stage
    BY KnownOfCall
  <1>2. x.sent = "none" /\ ~x.done
    <2>1. x.pc \notin SideEffects \cup {"crashed"}
      BY DEF RenewsFor, SideEffects, StatementOf
    <2> QED BY <2>1 DEF SagaInv, Shape
  <1>3. /\ s \in Rows /\ s.stage = row[o].stage /\ row[o].rev < s.rev /\ row[o].rev <= s.rev
        /\ s.left = LeaseDuration
    BY <1>1, RowUpdates, RowFields
  <1>4. UNCHANGED <<accounts, upstream, granted>>
    BY DEF RenewForSideEffect
  <1>5. RowSound(o, s, accounts', upstream, granted) /\ StageStep(row[o].stage, s.stage)
    BY <1>1, <1>3, <1>4 DEF RowSound, StageStep
  <1>6. CASE UNCHANGED row /\ GoTo(c, fail)
    BY <1>4, <1>6, GoToStep
  <1>7. CASE FenceHolds(c) /\ row' = [row EXCEPT ![o] = s] /\ GoTo(c, fail)
    <2> HIDE DEF s
    <2> QED BY <1>3, <1>4, <1>5, <1>7, HolderMoves
  <1>8. CASE /\ FenceHolds(c) /\ row' = [row EXCEPT ![o] = s]
             /\ call' = [call EXCEPT ![c].pc = ok, ![c].fence = Fence(s),
                                     ![c].budget = SideEffectTimeout(LeaseDuration)]
    <2> DEFINE y == [x EXCEPT !.pc = ok, !.fence = Fence(s),
                              !.budget = SideEffectTimeout(LeaseDuration)]
    <2>1. y \in CallRecords
      <3>1. SideEffectTimeout(LeaseDuration) \in Nat
        <4>1. LeaseDuration \in Nat
          BY DurationAssumption
        <4> QED BY <4>1, SideEffectTimeoutNat
      <3>2. Fence(s) \in Fences
        BY <1>3, RowUpdates
      <3> HIDE DEF s
      <3> QED BY <1>1, <3>1, <3>2 DEF CallRecords
    <2>2. Renews(x, y, ok, s)
      <3> HIDE DEF s
      <3> QED BY <1>1 DEF Renews, CallRecords
    <2>3. /\ call' = [call EXCEPT ![c] = y] /\ FenceHolds(c)
          /\ row' = [row EXCEPT ![o] = s] /\ x.fence.stage = row[o].stage
          /\ RenewsFor(x.pc, ok)
      BY <1>1, <1>8
    <2> HIDE <1>8 DEF y, s
    <2>4. CallSound(y, s, upstream, granted) /\ Shape(y) /\ (Creating(y) => Creating(x))
      <3> HIDE DEF x, o
      <3> QED BY <1>1, <1>2, <1>3, <2>1, <2>2, <2>3, RenewsSound
    <2>5. y.op = o
      BY <2>2 DEF Renews
    <2>6. HolderStep(c, y, s)
      BY <1>3, <1>4, <1>5, <2>3, <2>4, <2>5 DEF HolderStep
    <2> QED BY <1>3, <2>1, <2>6, HolderStepSound
  <1> QED BY <1>6, <1>7, <1>8 DEF RenewForSideEffect

\* The four renewals, each with what its statement relies on.
LEMMA RenewalsSound ==
    ASSUME SagaInv, TypeInv', NEW c \in Calls,
           CreateRenew(c) \/ GrantRenew(c) \/ DropRenew(c) \/ DeprovisionRenew(c)
    PROVE  SagaInv'
  <1>1. CASE CreateRenew(c)
    BY <1>1, RenewStep DEF CreateRenew, PCs, InUse, RenewsFor
  <1>2. CASE GrantRenew(c)
    <2>1. MayMove(call[c], "deferCleanup")
      BY DEF MayMove, FreePCs
    <2> QED BY <1>2, <2>1, RenewStep DEF GrantRenew, PCs, InUse, RenewsFor
  <1>3. CASE DropRenew(c)
    BY <1>3, RenewStep DEF DropRenew, PCs, InUse, RenewsFor
  <1>4. CASE DeprovisionRenew(c)
    <2>1. MayMove(call[c], "deferUncertain")
      BY DEF MayMove, FreePCs
    <2> QED BY <1>4, <2>1, RenewStep DEF DeprovisionRenew, PCs, InUse, RenewsFor
  <1> QED BY <1>1, <1>2, <1>3, <1>4

\* The ends of a side effect, a cancelled request and a restart.
LEMMA MovesSound ==
    ASSUME SagaInv, TypeInv', NEW c \in Calls,
           \/ SideEffectExpired(c) \/ StatementRefused(c) \/ StatementSucceeds(c)
           \/ StatementUncertain(c) \/ Restart(c) \/ ProvisionCancelled(c)
    PROVE  SagaInv'
  <1> DEFINE x == call[c]
  <1>1. InUse(c)
    BY DEF SideEffectExpired, StatementRefused, StatementSucceeds, StatementUncertain,
           Restart, ProvisionCancelled, SideEffects, StatementOf, InUse
  <1>2. UNCHANGED <<row, accounts, upstream, granted>>
    BY DEF SideEffectExpired, StatementRefused, StatementSucceeds, StatementUncertain,
           Restart, ProvisionCancelled
  <1>3. Shape(x)
    BY DEF SagaInv
  <1>4. \E pc \in PCs : GoTo(c, pc) /\ (pc = "idle" \/ MayMove(x, pc))
    <2>1. CASE SideEffectExpired(c)
      BY <2>1 DEF SideEffectExpired, SideEffects, StatementOf, AfterDeadline, PCs, MayMove, FreePCs
    <2>2. CASE StatementRefused(c) /\ x.pc = "create"
      <3>1. MayMove(x, "discard") /\ GoTo(c, "discard") /\ "discard" \in PCs
        BY <2>2 DEF StatementRefused, MayMove, Creating, At, PCs
      <3> QED BY <3>1
    <2>3. CASE StatementRefused(c) /\ x.pc # "create"
      BY <2>3 DEF StatementRefused, SideEffects, StatementOf, AfterUncertain, PCs, MayMove, FreePCs
    <2>4. CASE StatementSucceeds(c)
      BY <2>4 DEF StatementSucceeds, SideEffects, StatementOf, AfterSuccess, PCs, MayMove, FreePCs
    <2>5. CASE StatementUncertain(c)
      BY <2>5 DEF StatementUncertain, SideEffects, StatementOf, AfterUncertain, PCs, MayMove, FreePCs
    <2>6. CASE Restart(c)
      BY <2>6 DEF Restart, PCs
    <2>7. CASE ProvisionCancelled(c)
      <3>1. Creating(x) /\ ~x.done
        BY <2>7, <1>3 DEF ProvisionCancelled, Creating, At, Shape, SideEffects, StatementOf
      <3>2. MayMove(x, "discard") /\ GoTo(c, "discard") /\ "discard" \in PCs
        BY <2>7, <3>1 DEF ProvisionCancelled, MayMove, PCs
      <3> QED BY <3>2
    <2> QED BY <2>1, <2>2, <2>3, <2>4, <2>5, <2>6, <2>7
  <1> QED BY <1>1, <1>2, <1>4, GoToStep

\* While a call waits for its SELECT, nobody counts on the row but itself.
LEMMA ReadBackAlone ==
    ASSUME SagaInv, NEW c \in Calls, call[c].pc = "readback",
           NEW d \in Calls, d # c, InUse(d), call[d].op = call[c].op
    PROVE  ~Exclusive(call[d])
  <1>1. InUse(c)
    BY DEF InUse
  <1> SUFFICES ASSUME Exclusive(call[d]) PROVE FALSE
    OBVIOUS
  <1>2. row[call[c].op].stage = "create_started"
    BY KnownOfCall DEF Exclusive, CallSound, CreateSound
  <1>3. call[c].next = "createRenew"
    BY <1>1, <1>2, KnownOfCall DEF CallSound, CreateSound, Early
  <1>4. Creating(call[c]) /\ Creating(call[d])
    BY <1>3 DEF Creating, At, Exclusive, CanCreate, ReadsCreateStarted
  <1>5. Apart(call[c], call[d], row[call[c].op])
    BY <1>1 DEF SagaInv
  <1> QED BY <1>4, <1>5 DEF Apart

\* The call goes on with the row it read.
Adopts(x, y, r) ==
    /\ y.pc = x.next /\ y.fence = Fence(r) /\ y.sent = "none" /\ ~y.done /\ y.op = x.op

\* The call goes on with the fence that the SELECT returned.
LEMMA AdoptsSound ==
    ASSUME NEW x \in CallRecords, NEW y \in CallRecords, NEW r \in Rows, NEW up, NEW gr,
           CallSound(x, r, up, gr), Shape(x), x.pc = "readback", x.rb > 0, x.next # "idle",
           ~x.done, Adopts(x, y, r)
    PROVE  /\ CallSound(y, r, up, gr)
           /\ Shape(y)
           /\ Creating(y) => Creating(x)
           /\ ~Exclusive(y)
  <1> USE DEF Adopts
  <1>1. x.next \in {"createRenew", "recordGrantStarted", "grantRenew", "activate",
                    "cleanupMark", "cleanupStart", "dropRenew", "deprovRenew"}
    BY DEF Shape
  <1>2. At(x) = x.next /\ At(y) = x.next /\ Shape(y) /\ ~Exclusive(y)
    BY <1>1 DEF At, Shape, Exclusive, CanCreate, ReadsCreateStarted
  <1>3. /\ Creating(y) => x.next = "createRenew"
        /\ x.next = "createRenew" => Creating(x)
    BY <1>1, <1>2 DEF Creating
  <1>4. y.fence.stage = r.stage /\ y.fence.rev = r.rev /\ r.rev \in Nat
    BY DEF Fence, Rows
  <1>5. FenceBehind(y, r)
    BY <1>4 DEF CallSound, FenceBehind
  <1>6. CreateSound(y, r, up)
    BY <1>1, <1>2, <1>3, <1>4 DEF CallSound, CreateSound, ReadsCreateStarted, Exclusive
  <1>7. GrantSound(y, r, gr)
    BY <1>1, <1>2, <1>4 DEF CallSound, GrantSound
  <1>8. DropSound(y, r, up)
    BY <1>1, <1>2, <1>4 DEF CallSound, DropSound
  <1> QED BY <1>2, <1>3, <1>5, <1>6, <1>7, <1>8 DEF CallSound

\* The SELECT after an UPDATE: found as expected, changed by another, or lost.
LEMMA ReadBackSound ==
    ASSUME SagaInv, TypeInv', NEW c \in Calls, ReadBack(c)
    PROVE  SagaInv'
  <1> DEFINE x == call[c]
             o == x.op
  <1>1. InUse(c) /\ x.pc = "readback" /\ UNCHANGED <<row, accounts, upstream, granted>>
    BY DEF ReadBack, InUse
  <1>2. /\ x \in CallRecords /\ o \in Ops /\ row[o] \in Rows
        /\ CallSound(x, row[o], upstream, granted)
        /\ RowSound(o, row[o], accounts, upstream, granted)
    BY <1>1, KnownOfCall
  <1>3. Shape(x) /\ ~x.done
    BY <1>1 DEF SagaInv, Shape, SideEffects, StatementOf
  <1>4. CASE GoTo(c, "idle")
    BY <1>1, <1>4, Names, GoToStep
  <1>5. CASE GoTo(c, x.fail)
    <2>1. x.fail \in PCs /\ (x.fail = "idle" \/ MayMove(x, x.fail))
      BY <1>1, <1>2, <1>3 DEF CallRecords, Shape, MayMove, FreePCs
    <2> QED BY <1>1, <1>5, <2>1, GoToStep
  <1>6. CASE x.rb > 0 /\ x.next # "idle" /\ GoToWith(c, x.next, row[o])
    <2> DEFINE y == [x EXCEPT !.pc = x.next, !.next = "idle", !.fail = "idle", !.rb = 0,
                              !.fence = Fence(row[o]), !.sent = "none", !.done = FALSE]
    <2>1. y \in CallRecords
      <3>1. "idle" \in PCs /\ "none" \in Statements /\ 0 \in Nat /\ FALSE \in BOOLEAN
        BY DEF PCs, Statements
      <3>2. Fence(row[o]) \in Fences /\ x.next \in PCs
        BY <1>2, RowUpdates DEF CallRecords
      <3> QED BY <1>2, <3>1, <3>2 DEF CallRecords
    <2>2. Adopts(x, y, row[o])
      <3>1. y.pc = x.next /\ y.fence = Fence(row[o]) /\ y.sent = "none" /\ y.op = x.op
        BY <1>2 DEF CallRecords
      <3>2. y.done = FALSE
        BY <1>2 DEF CallRecords
      <3> HIDE DEF y
      <3> QED BY <3>1, <3>2 DEF Adopts
    <2>3. call' = [call EXCEPT ![c] = y] /\ row' = [row EXCEPT ![o] = row[o]]
      BY <1>1, <1>2, <1>6 DEF GoToWith, SagaInv, TypeInv, TypeOK
    <2> HIDE DEF y
    <2>4. /\ CallSound(y, row[o], upstream, granted) /\ Shape(y) /\ (Creating(y) => Creating(x))
          /\ ~Exclusive(y) /\ y.op = o
      <3>1. y.op = o
        BY <2>2 DEF Adopts
      <3> QED BY <1>1, <1>2, <1>3, <1>6, <2>1, <2>2, <3>1, AdoptsSound
    <2>5. ASSUME NEW d \in Calls \ {c}, InUse(d), call[d].op = o
          PROVE  Apart(y, call[d], row[o]) /\ Apart(call[d], y, row[o])
      <3>1. ~Exclusive(call[d])
        BY <1>1, <2>5, ReadBackAlone
      <3>2. ~(Creating(x) /\ Creating(call[d]))
        BY <1>1, <2>5 DEF SagaInv, Apart
      <3> QED BY <2>4, <3>1, <3>2 DEF Apart
    <2>6. row[o].rev <= row[o].rev /\ StageStep(row[o].stage, row[o].stage)
      BY <1>2 DEF StageStep, Rows
    <2>7. CallStep(c, o, y, row[o])
      BY <1>1, <1>2, <2>3, <2>4, <2>5, <2>6 DEF CallStep
    <2> HIDE DEF o
    <2> QED BY <1>2, <2>1, <2>7, CallStepSound
  <1> QED BY <1>4, <1>5, <1>6 DEF ReadBack

\* The activation commits only an operation that holds its grants.
LEMMA ActivateSound ==
    ASSUME SagaInv, TypeInv', NEW c \in Calls, ActivateDetached(c)
    PROVE  SagaInv'
  <1> DEFINE x == call[c]
             o == x.op
             s == Activated(row[o])
             again == IF x.pc = "activate" THEN "activateRetry" ELSE "releaseActivation"
  <1>1. InUse(c) /\ UNCHANGED <<upstream, granted>>
    BY DEF ActivateDetached, InUse
  <1>2. /\ o \in Ops /\ row[o] \in Rows
        /\ RowSound(o, row[o], accounts, upstream, granted)
        /\ FenceHolds(c) => x.fence.stage = row[o].stage
    BY <1>1, KnownOfCall
  <1>3. again \in PCs /\ MayMove(x, again)
    BY DEF ActivateDetached, PCs, MayMove
  <1>4. CASE UNCHANGED <<row, accounts>> /\ GoTo(c, again)
    BY <1>1, <1>3, <1>4, GoToStep
  <1>5. CASE /\ CanActivate(c) /\ row' = [row EXCEPT ![o] = s] /\ accounts' = accounts \cup {o}
             /\ GoTo(c, "idle") \/ GoTo(c, again)
    <2>1. s \in Rows /\ s.stage = "active_managed" /\ row[o].rev <= s.rev
      BY <1>2, RowUpdates, RowFields
    <2>2. FenceHolds(c) /\ row[o].stage = "activation_pending"
      BY <1>2, <1>5 DEF CanActivate
    <2> HIDE DEF s
    <2>3. RowSound(o, s, accounts', upstream, granted) /\ StageStep(row[o].stage, s.stage)
      BY <1>2, <1>5, <2>1, <2>2 DEF RowSound, StageStep
    <2>4. \A p \in Ops \ {o} : p \in accounts' <=> p \in accounts
      BY <1>5
    <2>5. PICK pc \in {"idle", again} : GoTo(c, pc)
      BY <1>5
    <2>6. pc \in PCs /\ (pc = "idle" \/ MayMove(x, pc))
      BY <1>3, <2>5, Names
    <2> HIDE DEF again
    <2> QED BY <1>1, <1>5, <2>1, <2>2, <2>3, <2>4, <2>5, <2>6, HolderMoves
  <1> QED BY <1>4, <1>5 DEF ActivateDetached

\* The account row goes only when the user is gone.
LEMMA CompleteSound ==
    ASSUME SagaInv, TypeInv', NEW c \in Calls, CompleteDatabaseDeprovision(c)
    PROVE  SagaInv'
  <1> DEFINE x == call[c]
             o == x.op
             s == [row[o] EXCEPT !.stage = "deleted", !.left = 0]
  <1>1. InUse(c) /\ x.pc = "complete" /\ UNCHANGED <<upstream, granted>>
    BY DEF CompleteDatabaseDeprovision, InUse
  <1>2. /\ o \in Ops /\ row[o] \in Rows
        /\ CallSound(x, row[o], upstream, granted)
        /\ FenceHolds(c) => x.fence.stage = row[o].stage
    BY <1>1, KnownOfCall
  <1>3. "deferUncertain" \in PCs /\ MayMove(x, "deferUncertain")
    BY DEF PCs, MayMove, FreePCs
  <1>4. CASE UNCHANGED <<row, accounts>> /\ GoTo(c, "deferUncertain")
    BY <1>1, <1>3, <1>4, GoToStep
  <1>5. CASE /\ x.fence.stage = "drop_started" /\ FenceHolds(c)
             /\ row' = [row EXCEPT ![o] = s] /\ accounts' = accounts \ {o}
             /\ GoTo(c, "idle") \/ GoTo(c, "deferUncertain")
    <2>1. s \in Rows /\ s.stage = "deleted" /\ row[o].rev <= s.rev
      <3>1. "deleted" \in Stages /\ 0 \in Nat
        BY DEF Stages
      <3>2. row[o] \in Rows
        BY <1>2
      <3>3. s \in Rows /\ s.stage = "deleted" /\ s.rev = row[o].rev
        BY <3>1, <3>2 DEF Rows
      <3>4. row[o].rev <= row[o].rev
        BY <3>2 DEF Rows
      <3> QED BY <3>3, <3>4
    <2> HIDE DEF s
    <2>2. StageStep(row[o].stage, s.stage)
      BY <1>2, <1>5, <2>1 DEF StageStep
    <2>3. RowSound(o, s, accounts', upstream, granted)
      <3>1. o \notin upstream
        BY <1>1, <1>2 DEF CallSound, DropSound
      <3>2. "deleted" \notin {"active_managed"} \cup DeprovisionStages
        BY DEF DeprovisionStages
      <3> QED BY <1>5, <2>1, <3>1, <3>2 DEF RowSound
    <2>4. \A p \in Ops \ {o} : p \in accounts' <=> p \in accounts
      BY <1>5
    <2>5. PICK pc \in {"idle", "deferUncertain"} : GoTo(c, pc)
      BY <1>5
    <2>6. pc \in PCs /\ (pc = "idle" \/ MayMove(x, pc))
      BY <1>3, <2>5, Names
    <2> QED BY <1>1, <1>5, <2>1, <2>2, <2>3, <2>4, <2>5, <2>6, HolderMoves
  <1> QED BY <1>4, <1>5 DEF CompleteDatabaseDeprovision

\* A claimed row is taken up at the step its stage calls for.
LEMMA ClaimSound ==
    ASSUME SagaInv, TypeInv', NEW c \in Calls, ClaimForReconcile(c)
    PROVE  SagaInv'
  <1> DEFINE x == call[c]
             o == x.op
             s == Claimed(row[o])
             pc == Dispatch(row[o].stage)
  <1>1. InUse(c) /\ x.pc = "claim" /\ UNCHANGED <<accounts, upstream, granted>>
    BY DEF ClaimForReconcile, InUse
  <1>2. /\ x \in CallRecords /\ o \in Ops /\ row[o] \in Rows
        /\ CallSound(x, row[o], upstream, granted)
        /\ RowSound(o, row[o], accounts, upstream, granted)
    BY <1>1, KnownOfCall
  <1>3. x.sent = "none" /\ ~x.done
    BY <1>1 DEF SagaInv, Shape, SideEffects, StatementOf
  <1>4. s \in Rows /\ s.stage = row[o].stage /\ s.rev = row[o].rev + 1 /\ row[o].rev <= s.rev
    BY <1>2, RowUpdates, RowFields
  <1>5. RowSound(o, s, accounts', upstream, granted) /\ StageStep(row[o].stage, s.stage)
    BY <1>1, <1>2, <1>4 DEF RowSound, StageStep
  <1>6. CASE UNCHANGED row /\ GoTo(c, "idle")
    BY <1>1, <1>6, Names, GoToStep
  <1>7. CASE FenceHolds(c) /\ row' = [row EXCEPT ![o] = s] /\ GoTo(c, "idle")
    <2> HIDE DEF s
    <2> QED BY <1>1, <1>4, <1>5, <1>7, Names, HolderMoves
  <1>8. CASE /\ FenceHolds(c) /\ row' = [row EXCEPT ![o] = s]
             /\ call' = [call EXCEPT ![c].pc = pc, ![c].fence = Fence(s), ![c].own = s.token]
    <2> DEFINE y == [x EXCEPT !.pc = pc, !.fence = Fence(s), !.own = s.token]
    <2>1. y \in CallRecords
      <3>1. Fence(s) \in Fences /\ s.token \in Nat
        BY <1>4, RowUpdates DEF Rows
      <3>2. pc \in PCs
        BY DEF Dispatch, PCs
      <3> HIDE DEF s, pc
      <3> QED BY <1>2, <3>1, <3>2 DEF CallRecords
    <2>2. y.pc = pc /\ y.fence = Fence(s) /\ y.sent = x.sent /\ y.done = x.done /\ y.op = o
      <3> HIDE DEF s, pc
      <3> QED BY <1>2 DEF CallRecords
    <2>3. call' = [call EXCEPT ![c] = y] /\ row' = [row EXCEPT ![o] = s] /\ FenceHolds(c)
      BY <1>8
    <2> HIDE <1>8 DEF y
    <2>4. /\ pc \in {"finalizeReserved", "activate", "deprovision", "reconcileCleanup", "idle"}
          /\ pc = "finalizeReserved" => row[o].stage = "reserved"
          /\ pc = "activate" => row[o].stage = "activation_pending"
      BY DEF Dispatch
    <2> HIDE DEF pc
    <2>5. At(y) = pc /\ ~Creating(y) /\ ~Exclusive(y) /\ Shape(y)
      BY <1>3, <2>2, <2>4 DEF At, Creating, Exclusive, CanCreate, ReadsCreateStarted, Shape
    <2>6. CallSound(y, s, upstream, granted)
      <3>1. y.fence.stage = s.stage /\ y.fence.rev = s.rev /\ s.rev \in Nat /\ s.stage # "absent"
        BY <1>2, <1>4, <2>2 DEF Fence, Rows, CallSound, FenceBehind
      <3> HIDE DEF s
      <3>2. FenceBehind(y, s)
        BY <3>1 DEF FenceBehind
      <3>3. CreateSound(y, s, upstream)
        BY <1>4, <2>2, <2>4, <2>5, <3>1 DEF CreateSound, Exclusive
      <3>4. GrantSound(y, s, granted)
        BY <1>4, <2>2, <2>4, <2>5, <3>1 DEF GrantSound, Committed
      <3>5. DropSound(y, s, upstream)
        BY <1>4, <2>2, <2>4, <2>5, <3>1 DEF DropSound, Dropping
      <3> QED BY <3>2, <3>3, <3>4, <3>5 DEF CallSound
    <2> HIDE DEF s
    <2>7. HolderStep(c, y, s)
      BY <1>1, <1>4, <1>5, <2>2, <2>3, <2>5, <2>6 DEF HolderStep
    <2> QED BY <1>4, <2>1, <2>7, HolderStepSound
  <1> QED BY <1>6, <1>7, <1>8 DEF ClaimForReconcile

\* The record of a call that takes up an operation.
Starts(y, pc, o, r) ==
    /\ y.pc = pc /\ y.op = o /\ y.fence = Fence(r) /\ y.sent = "none" /\ ~y.done

\* The fields of a call that has just started.
LEMMA StartFields ==
    ASSUME NEW c \in Calls, NEW o \in Ops, NEW r \in Rows, NEW own \in Nat,
           NEW pc \in PCs, NEW rec \in BOOLEAN, StartCall(c, pc, o, r, own, rec)
    PROVE  \E y \in CallRecords : call' = [call EXCEPT ![c] = y] /\ Starts(y, pc, o, r)
  <1> DEFINE y == [NoCall EXCEPT !.pc = pc, !.reconciles = rec, !.op = o,
                                 !.fence = Fence(r), !.own = own]
  <1>1. Fence(r) \in Fences
    BY RowUpdates
  <1>2. y \in CallRecords
    BY <1>1, NoCallType DEF CallRecords
  <1>3. y.pc = pc /\ y.op = o /\ y.fence = Fence(r) /\ y.sent = "none"
    BY NoCallType DEF CallRecords
  <1>4. y.done = FALSE
    BY DEF NoCall
  <1>5. call' = [call EXCEPT ![c] = y]
    BY DEF StartCall
  <1> HIDE DEF y
  <1> QED BY <1>2, <1>3, <1>4, <1>5 DEF Starts

\* A started call is right when it relies on the row it was given.
LEMMA StartsSound ==
    ASSUME NEW y \in CallRecords, NEW o, NEW r \in Rows, NEW up, NEW gr, NEW pc,
           Starts(y, pc, o, r), pc \in {"reserved", "claim", "deprovision"},
           pc = "reserved" => o \notin up,
           r.stage # "absent"
    PROVE  /\ CallSound(y, r, up, gr)
           /\ Shape(y)
           /\ Creating(y) => pc = "reserved"
           /\ ~Exclusive(y)
  <1> USE DEF Starts
  <1>1. At(y) = pc /\ Shape(y) /\ ~Exclusive(y) /\ (Creating(y) => pc = "reserved")
    BY DEF At, Shape, Exclusive, CanCreate, ReadsCreateStarted, Creating
  <1>2. y.fence.stage = r.stage /\ y.fence.rev = r.rev /\ r.rev \in Nat
    BY DEF Fence, Rows
  <1>3. FenceBehind(y, r)
    BY <1>2 DEF FenceBehind
  <1>4. CreateSound(y, r, up)
    BY <1>1 DEF CreateSound, Exclusive
  <1>5. GrantSound(y, r, gr)
    BY <1>1 DEF GrantSound
  <1>6. DropSound(y, r, up)
    BY <1>1, <1>2 DEF DropSound, Dropping
  <1> QED BY <1>1, <1>3, <1>4, <1>5, <1>6 DEF CallSound

\* The row is inserted or taken up while no call counts on it.
LEMMA StartStep ==
    ASSUME SagaInv, TypeInv', NEW c \in Calls, NEW o \in Ops, NEW s \in Rows, NEW pc \in PCs,
           NEW own \in Nat, NEW rec \in BOOLEAN,
           ~InUse(c), StartCall(c, pc, o, s, own, rec) \/ UNCHANGED call,
           row' = [row EXCEPT ![o] = s], UNCHANGED <<accounts, upstream, granted>>,
           row[o].stage = "absent" \/ StageStep(row[o].stage, s.stage),
           row[o].rev <= s.rev, s.stage # "absent",
           RowSound(o, s, accounts, upstream, granted),
           pc \in {"reserved", "claim", "deprovision"},
           pc = "reserved" => o \notin upstream,
           \A d \in Calls : InUse(d) /\ call[d].op = o =>
              pc # "reserved" /\ ~Exclusive(call[d])
    PROVE  SagaInv'
  <1>0. call[c] \in CallRecords /\ call[c].pc = "idle" /\ Shape(call[c])
    BY DEF SagaInv, TypeInv, TypeOK, InUse
  <1>1. CASE UNCHANGED call
    <2>1. call' = [call EXCEPT ![c] = call[c]]
      BY <1>1 DEF SagaInv, TypeInv, TypeOK
    <2>2. CallStep(c, o, call[c], s)
      BY <1>0, <2>1 DEF CallStep
    <2> QED BY <1>0, <2>2, CallStepSound
  <1>2. CASE StartCall(c, pc, o, s, own, rec)
    <2>1. PICK y \in CallRecords : call' = [call EXCEPT ![c] = y] /\ Starts(y, pc, o, s)
      BY <1>2, StartFields
    <2>2. /\ CallSound(y, s, upstream, granted) /\ Shape(y)
          /\ Creating(y) => pc = "reserved"
          /\ ~Exclusive(y)
      BY <2>1, StartsSound
    <2>3. y.op = o
      BY <2>1 DEF Starts
    <2>4. CallStep(c, o, y, s)
      BY <2>1, <2>2, <2>3 DEF CallStep, Apart
    <2> QED BY <2>4, CallStepSound
  <1> QED BY <1>1, <1>2

\* Provision reserves a row that no call works on.
LEMMA ProvisionReserveSound ==
    ASSUME SagaInv, TypeInv', NEW c \in Calls, NEW o \in Ops, ProvisionReserve(c, o)
    PROVE  SagaInv'
  <1>1. row[o].stage = "absent" /\ row[o].rev = 0 /\ RowSound(o, row[o], accounts, upstream, granted)
    BY DEF ProvisionReserve, AbsentRow, SagaInv
  <1>2. /\ ReservedRow \in Rows /\ ReservedRow.stage = "reserved" /\ row[o].rev <= ReservedRow.rev
        /\ ReservedRow.token \in Nat
    <2>1. ReservedRow \in Rows
      BY RowUpdates DEF SagaInv, TypeInv, TypeOK
    <2> QED BY <1>1, <2>1 DEF ReservedRow
  <1>3. RowSound(o, ReservedRow, accounts, upstream, granted) /\ o \notin upstream
    <2>1. o \notin upstream /\ o \notin accounts
      BY <1>1 DEF RowSound, DeprovisionStages
    <2> QED BY <1>2, <2>1 DEF RowSound, DeprovisionStages
  <1>4. \A d \in Calls : ~(InUse(d) /\ call[d].op = o)
    BY <1>1, KnownOfCall DEF CallSound, FenceBehind
  <1>5. /\ ~InUse(c) /\ row' = [row EXCEPT ![o] = ReservedRow] /\ UNCHANGED <<accounts, upstream, granted>>
        /\ \/ StartCall(c, "reserved", o, ReservedRow, ReservedRow.token, FALSE)
           \/ UNCHANGED call
    BY DEF ProvisionReserve, InUse
  <1>6. "reserved" \in PCs /\ FALSE \in BOOLEAN
    BY DEF PCs
  <1> QED BY <1>1, <1>2, <1>3, <1>4, <1>5, <1>6, StartStep

\* A reconciler that lists an operation relies on nothing but its fence.
LEMMA ListExecutableSound ==
    ASSUME SagaInv, TypeInv', NEW c \in Calls, NEW o \in Ops, ListExecutable(c, o)
    PROVE  SagaInv'
  <1>1. row[o] \in Rows /\ RowSound(o, row[o], accounts, upstream, granted)
    BY DEF SagaInv, TypeInv, TypeOK
  <1>2. row[o].stage # "absent" /\ row[o].rev <= row[o].rev /\ StageStep(row[o].stage, row[o].stage)
    <2>1. row[o].stage # "absent"
      BY DEF ListExecutable, Executable, CleanupStages, DeprovisionStages
    <2> QED BY <1>1, <2>1 DEF StageStep, Rows
  <1>3. ASSUME NEW d \in Calls, InUse(d), call[d].op = o
        PROVE  ~Exclusive(call[d])
    <2>1. CallSound(call[d], row[o], upstream, granted) /\ call[d] \in CallRecords
      BY <1>3, KnownOfCall
    <2>2. row[o].left = 0 /\ (row[o].stage = "create_started" => row[o].age >= StaleAfter)
      BY DEF ListExecutable, Executable, ExpiredOrUnsetLease
    <2>3. call[d].budget \in Nat /\ call[d].rb \in Nat /\ row[o].age \in Nat
      BY <1>1, <2>1 DEF CallRecords, Rows
    <2>4. ~CanCreate(call[d])
      BY <2>1, <2>2, <2>3 DEF CallSound, CreateSound
    <2>5. ~ReadsCreateStarted(call[d])
      <3> SUFFICES ASSUME ReadsCreateStarted(call[d]) PROVE FALSE
        OBVIOUS
      <3>1. call[d].rb > 0 /\ row[o].age + call[d].rb <= CleanupTimeout /\ row[o].age >= StaleAfter
        BY <2>1, <2>2 DEF CallSound, CreateSound, ReadsCreateStarted
      <3>2. CleanupTimeout \in Nat /\ StaleAfter \in Nat /\ StaleAfter >= CleanupTimeout
        BY DurationAssumption, StaleAfterAssumption
      <3> QED BY <2>3, <3>1, <3>2
    <2> QED BY <2>4, <2>5 DEF Exclusive
  <1>4. /\ ~InUse(c) /\ row' = [row EXCEPT ![o] = row[o]] /\ UNCHANGED <<accounts, upstream, granted>>
        /\ StartCall(c, "claim", o, row[o], 0, TRUE)
    BY DEF ListExecutable, InUse, SagaInv, TypeInv, TypeOK
  <1>5. "claim" \in PCs /\ TRUE \in BOOLEAN /\ 0 \in Nat
    BY DEF PCs
  <1> QED BY <1>1, <1>2, <1>3, <1>4, <1>5, StartStep

\* Deprovision claims the row of an active account.
LEMMA BeginSound ==
    ASSUME SagaInv, TypeInv', NEW c \in Calls, NEW o \in Ops, BeginDatabaseDeprovision(c, o)
    PROVE  SagaInv'
  <1> DEFINE s == [Claimed(row[o]) EXCEPT !.stage = "deprovision_requested"]
  <1>1. /\ row[o] \in Rows /\ RowSound(o, row[o], accounts, upstream, granted)
        /\ row[o].stage = "active_managed" /\ o \in accounts
    BY DEF SagaInv, TypeInv, TypeOK, BeginDatabaseDeprovision
  <1>2. /\ s \in Rows /\ s.stage = "deprovision_requested" /\ row[o].rev <= s.rev /\ s.token \in Nat
    <2>1. Claimed(row[o]) \in Rows /\ Claimed(row[o]).rev = row[o].rev + 1 /\ row[o].rev \in Nat
      BY <1>1, RowUpdates, RowFields
    <2>2. "deprovision_requested" \in Stages
      BY DEF Stages, ActiveStages, DeprovisionStages
    <2>3. s \in Rows /\ s.stage = "deprovision_requested" /\ s.rev = Claimed(row[o]).rev
      BY <2>1, <2>2 DEF Rows
    <2> HIDE DEF s
    <2> QED BY <2>1, <2>3 DEF Rows
  <1>3. /\ ~InUse(c) /\ row' = [row EXCEPT ![o] = s] /\ UNCHANGED <<accounts, upstream, granted>>
        /\ StartCall(c, "deprovision", o, s, s.token, FALSE) \/ UNCHANGED call
    BY DEF BeginDatabaseDeprovision, InUse
  <1> HIDE DEF s
  <1>4. RowSound(o, s, accounts, upstream, granted) /\ StageStep(row[o].stage, s.stage)
    BY <1>1, <1>2 DEF RowSound, StageStep, DeprovisionStages
  <1>5. \A d \in Calls : InUse(d) /\ call[d].op = o => ~Exclusive(call[d])
    BY <1>1, KnownOfCall DEF CallSound, CreateSound, Exclusive
  <1>6. "deprovision" \in PCs /\ FALSE \in BOOLEAN /\ s.stage # "absent"
    BY <1>2 DEF PCs
  <1> QED BY <1>1, <1>2, <1>3, <1>4, <1>5, <1>6, StartStep

\* A step that leaves the rows and the calls' fences as they are.
LEMMA QuietStep ==
    ASSUME SagaInv, TypeInv', NEW c \in Calls, InUse(c), NEW y \in CallRecords,
           call' = [call EXCEPT ![c] = y], UNCHANGED <<row, accounts, upstream, granted>>,
           y.op = call[c].op, y.fence = call[c].fence, Shape(y),
           CallSound(y, row[call[c].op], upstream, granted),
           Creating(y) => Creating(call[c]), Exclusive(y) => Exclusive(call[c])
    PROVE  SagaInv'
  <1> DEFINE x == call[c]
             o == x.op
  <1>1. /\ o \in Ops /\ row[o] \in Rows
        /\ RowSound(o, row[o], accounts, upstream, granted)
    BY KnownOfCall
  <1>2. ASSUME NEW d \in Calls \ {c}, InUse(d), call[d].op = o
        PROVE  Apart(y, call[d], row[o]) /\ Apart(call[d], y, row[o])
    <2>1. Apart(x, call[d], row[o]) /\ Apart(call[d], x, row[o])
      BY <1>2 DEF SagaInv
    <2> QED BY <2>1 DEF Apart
  <1>3. /\ row' = [row EXCEPT ![o] = row[o]] /\ row[o].rev <= row[o].rev
        /\ StageStep(row[o].stage, row[o].stage)
    BY <1>1 DEF SagaInv, TypeInv, TypeOK, StageStep, Rows
  <1>4. CallStep(c, o, y, row[o])
    BY <1>1, <1>2, <1>3 DEF CallStep
  <1> HIDE DEF o
  <1> QED BY <1>1, <1>4, CallStepSound

\* Sending a statement changes nothing on the server yet.
LEMMA SendStatementSound ==
    ASSUME SagaInv, TypeInv', NEW c \in Calls, SendStatement(c)
    PROVE  SagaInv'
  <1> DEFINE x == call[c]
             y == [x EXCEPT !.sent = StatementOf[x.pc]]
  <1>1. InUse(c) /\ x.pc \in SideEffects /\ UNCHANGED <<row, accounts, upstream, granted>>
    BY DEF SendStatement, InUse, SideEffects, StatementOf
  <1>2. x \in CallRecords /\ CallSound(x, row[x.op], upstream, granted)
    BY <1>1, KnownOfCall
  <1>3. y \in CallRecords
    <2>1. StatementOf[x.pc] \in Statements
      BY <1>1 DEF SideEffects, StatementOf, Statements
    <2> QED BY <1>2, <2>1 DEF CallRecords
  <1>4. /\ y.pc = x.pc /\ y.next = x.next /\ y.fence = x.fence /\ y.op = x.op /\ y.rb = x.rb
        /\ y.budget = x.budget /\ y.done = x.done /\ y.sent = StatementOf[x.pc]
    BY <1>2 DEF CallRecords
  <1>5. call' = [call EXCEPT ![c] = y]
    BY DEF SendStatement
  <1>6. x.pc \notin {"crashed", "readback"} /\ StatementOf[x.pc] # "none"
    BY <1>1 DEF SideEffects, StatementOf
  <1> HIDE DEF y
  <1>7. /\ At(y) = At(x) /\ (Creating(y) <=> Creating(x)) /\ (CanCreate(y) <=> CanCreate(x))
        /\ ReadsCreateStarted(y) <=> ReadsCreateStarted(x)
        /\ Shape(y)
    BY <1>1, <1>4, <1>6 DEF At, Creating, CanCreate, ReadsCreateStarted, Shape
  <1>8. CallSound(y, row[x.op], upstream, granted)
    BY <1>2, <1>4, <1>6, <1>7 DEF CallSound, FenceBehind, CreateSound, GrantSound, DropSound
  <1> QED BY <1>1, <1>3, <1>4, <1>5, <1>7, <1>8, QuietStep DEF Exclusive

\* After a crash only the statement that was sent can still run.
LEMMA CrashSound ==
    ASSUME SagaInv, TypeInv', NEW c \in Calls, Crash(c)
    PROVE  SagaInv'
  <1> DEFINE x == call[c]
             y == [x EXCEPT !.pc = "crashed"]
  <1>1. InUse(c) /\ UNCHANGED <<row, accounts, upstream, granted>>
    BY DEF Crash, Running, InUse
  <1>2. x \in CallRecords /\ CallSound(x, row[x.op], upstream, granted)
    BY <1>1, KnownOfCall
  <1>3. CASE ~InFlight(c)
    <2>1. GoTo(c, "idle")
      BY <1>3 DEF Crash, GoTo
    <2> QED BY <1>1, <2>1, Names, GoToStep
  <1>4. CASE InFlight(c)
    <2>1. y \in CallRecords
      BY <1>2 DEF CallRecords, PCs
    <2>2. /\ y.pc = "crashed" /\ y.fence = x.fence /\ y.op = x.op
          /\ y.budget = x.budget /\ y.done = x.done /\ y.sent = x.sent
      BY <1>2 DEF CallRecords
    <2>3. call' = [call EXCEPT ![c] = y]
      BY <1>4 DEF Crash
    <2>4. /\ x.pc \in SideEffects /\ x.sent = StatementOf[x.pc] /\ x.sent # "none" /\ ~x.done
      BY <1>4 DEF Crash, Running, InFlight, SagaInv, Shape
    <2>5. /\ x.sent = "create" => x.pc = "create"
          /\ x.sent = "drop" => x.pc \in {"drop", "deprovDrop"}
      BY <2>4 DEF SideEffects, StatementOf
    <2> HIDE DEF y
    <2>6. /\ At(y) = "crashed"
          /\ Creating(y) => x.pc = "create"
          /\ x.pc = "create" => Creating(x)
          /\ CanCreate(y) => CanCreate(x)
          /\ ~ReadsCreateStarted(y)
          /\ Shape(y)
      BY <2>2, <2>4, <2>5 DEF At, Creating, CanCreate, ReadsCreateStarted, Shape
    <2>7. FenceBehind(y, row[x.op]) /\ CreateSound(y, row[x.op], upstream)
      BY <1>2, <2>2, <2>4, <2>6 DEF CallSound, FenceBehind, CreateSound
    <2>8. GrantSound(y, row[x.op], granted)
      BY <2>2, <2>6 DEF GrantSound
    <2>9. DropSound(y, row[x.op], upstream)
      BY <1>2, <2>2, <2>5, <2>6 DEF CallSound, DropSound, At
    <2>10. CallSound(y, row[x.op], upstream, granted)
      BY <2>7, <2>8, <2>9 DEF CallSound
    <2> QED BY <1>1, <2>1, <2>2, <2>3, <2>6, <2>10, QuietStep DEF Exclusive
  <1> QED BY <1>3, <1>4

\* What the server does concerns no call that did not ask for it.
LEMMA UsersChange ==
    ASSUME NEW z \in CallRecords, NEW r \in Rows, NEW up, NEW gr, NEW up2, NEW gr2,
           CallSound(z, r, up, gr),
           z.op \in up2 => z.op \in up \/ (r.stage = "create_started" /\ ~Creating(z)),
           z.op \in gr => z.op \in gr2 \/ r.stage # "grant_started"
    PROVE  CallSound(z, r, up2, gr2)
  <1>1. CreateSound(z, r, up2)
    BY DEF CallSound, CreateSound
  <1>2. GrantSound(z, r, gr2)
    BY DEF CallSound, GrantSound
  <1>3. DropSound(z, r, up2)
    <2>1. "create_started" \notin CleaningUp \cup Dropping
      BY DEF CleaningUp, Dropping
    <2> QED BY <2>1 DEF CallSound, DropSound, At
  <1> QED BY <1>1, <1>2, <1>3 DEF CallSound

\* What the server executes is what the recorded stage allows.
LEMMA UpstreamExecutesSound ==
    ASSUME SagaInv, TypeInv', NEW c \in Calls, UpstreamExecutes(c)
    PROVE  SagaInv'
  <1> DEFINE x == call[c]
             o == x.op
             y == [x EXCEPT !.done = TRUE]
  <1>1. UNCHANGED <<row, accounts>> /\ InFlight(c)
    BY DEF UpstreamExecutes
  <1>2. Shape(x) /\ x.sent # "none" /\ ~x.done /\ x.budget > 0
    BY <1>1 DEF SagaInv, InFlight
  <1>3. /\ x.pc \in SideEffects \cup {"crashed"}
        /\ x.pc \in SideEffects => x.sent = StatementOf[x.pc]
        /\ InUse(c)
    BY <1>2 DEF Shape, InUse, SideEffects, StatementOf
  <1>4. /\ x \in CallRecords /\ o \in Ops /\ row[o] \in Rows
        /\ CallSound(x, row[o], upstream, granted)
        /\ RowSound(o, row[o], accounts, upstream, granted)
    BY <1>3, KnownOfCall
  <1>5. /\ x.pc = "create" => x.sent = "create"
        /\ x.pc = "grant" => x.sent = "grant"
        /\ x.pc \in {"drop", "deprovDrop"} => x.sent = "drop"
        /\ x.sent = "create" => x.pc \in {"create", "crashed"}
        /\ x.sent = "drop" => x.pc \in {"drop", "deprovDrop", "crashed"}
        /\ x.pc \in {"create", "grant", "drop", "deprovDrop", "crashed"}
        /\ x.sent \in {"create", "grant", "drop"}
    BY <1>2, <1>3, <1>4 DEF SideEffects, StatementOf, CallRecords, Statements
  <1>6. x.sent = "create" => Creating(x) /\ row[o].stage = "create_started"
    BY <1>2, <1>4, <1>5 DEF CallSound, CreateSound, CanCreate, Creating, At
  <1>7. x.sent = "drop" => row[o].stage \in CleaningUp \cup Dropping
    BY <1>4, <1>5 DEF CallSound, DropSound, At
  <1>8. /\ \A p \in Ops \ {o} : (p \in upstream' <=> p \in upstream) /\ (p \in granted' <=> p \in granted)
        /\ o \in upstream' => o \in upstream \/ x.sent = "create"
        /\ o \in granted => o \in granted' \/ x.sent = "drop"
        /\ x.sent = "grant" => o \in granted'
        /\ x.sent = "drop" => o \notin upstream'
    BY <1>5 DEF UpstreamExecutes
  <1>9. y \in CallRecords /\ call' = [call EXCEPT ![c] = y]
    <2>1. y \in CallRecords
      BY <1>4 DEF CallRecords
    <2> QED BY <2>1 DEF UpstreamExecutes
  <1>10. /\ y.pc = x.pc /\ y.next = x.next /\ y.fail = x.fail /\ y.fence = x.fence /\ y.op = x.op
         /\ y.budget = x.budget /\ y.rb = x.rb /\ y.sent = x.sent
    BY <1>4 DEF CallRecords
  <1>11. y.done = TRUE
    BY <1>4 DEF CallRecords
  <1> HIDE DEF y
  <1>12. /\ call'[c] = y /\ \A d \in Calls \ {c} : call'[d] = call[d]
         /\ \A d \in Calls : InUse(d)' <=> InUse(d)
    BY <1>9, <1>10 DEF SagaInv, TypeInv, TypeOK, InUse
  <1>13. /\ At(y) = At(x) /\ (Creating(y) <=> Creating(x)) /\ (CanCreate(y) <=> CanCreate(x))
         /\ ReadsCreateStarted(y) <=> ReadsCreateStarted(x)
         /\ Shape(y)
    BY <1>2, <1>10, <1>11 DEF At, Creating, CanCreate, ReadsCreateStarted, Shape
  <1>14. CallSound(y, row[o], upstream', granted')
    <2>1. FenceBehind(y, row[o]) /\ CreateSound(y, row[o], upstream')
      BY <1>4, <1>10, <1>11, <1>13 DEF CallSound, FenceBehind, CreateSound
    <2>2. GrantSound(y, row[o], granted')
      BY <1>4, <1>5, <1>8, <1>10, <1>13 DEF CallSound, GrantSound
    <2>3. DropSound(y, row[o], upstream')
      BY <1>4, <1>5, <1>8, <1>10, <1>13 DEF CallSound, DropSound
    <2> QED BY <2>1, <2>2, <2>3 DEF CallSound
  <1>15. ASSUME NEW d \in Calls, InUse(d), d # c
         PROVE  CallSound(call[d], row[call[d].op], upstream', granted')
    <2>1. /\ call[d] \in CallRecords /\ call[d].op \in Ops /\ row[call[d].op] \in Rows
          /\ CallSound(call[d], row[call[d].op], upstream, granted)
      BY <1>15, KnownOfCall
    <2>2. call[d].op = o => ~(Creating(x) /\ Creating(call[d]))
      BY <1>3, <1>15 DEF SagaInv, Apart
    <2>3. "grant_started" \notin CleaningUp \cup Dropping
      BY DEF CleaningUp, Dropping
    <2>4. /\ call[d].op \in upstream' =>
                call[d].op \in upstream \/ (row[call[d].op].stage = "create_started" /\ ~Creating(call[d]))
          /\ call[d].op \in granted =>
                call[d].op \in granted' \/ row[call[d].op].stage # "grant_started"
      BY <1>6, <1>7, <1>8, <2>1, <2>2, <2>3
    <2> QED BY <2>1, <2>4, UsersChange
  <1>16. ASSUME NEW p \in Ops
         PROVE  RowSound(p, row[p], accounts, upstream', granted')
    <2>1. RowSound(p, row[p], accounts, upstream, granted)
      BY DEF SagaInv
    <2>2. CASE p # o
      BY <1>8, <2>1, <2>2 DEF RowSound
    <2>3. CASE p = o
      <3>1. /\ row[o].stage \in {"absent", "reserved", "not_created", "deleted"} => x.sent # "create"
            /\ row[o].stage \in {"activation_pending", "active_managed", "deprovision_requested"} =>
                  x.sent # "drop"
        BY <1>6, <1>7 DEF CleaningUp, Dropping
      <3> QED BY <1>8, <2>1, <2>3, <3>1 DEF RowSound
    <2> QED BY <2>2, <2>3
  <1>17. ASSUME NEW d \in Calls, NEW e \in Calls, d # e, InUse(d), InUse(e),
                call'[d].op = call'[e].op
         PROVE  Apart(call'[d], call'[e], row[call'[d].op])
    <2>1. call[d].op = call[e].op /\ call'[d].op = call[d].op
      BY <1>10, <1>12, <1>17
    <2>2. Apart(call[d], call[e], row[call[d].op])
      BY <1>17, <2>1 DEF SagaInv
    <2>3. /\ Creating(call'[d]) <=> Creating(call[d])
          /\ Creating(call'[e]) <=> Creating(call[e])
          /\ Exclusive(call'[d]) <=> Exclusive(call[d])
          /\ call'[e].fence = call[e].fence
      BY <1>10, <1>12, <1>13, <1>17 DEF Exclusive
    <2> QED BY <2>1, <2>2, <2>3 DEF Apart
  <1>18. \A d \in Calls : Shape(call'[d])
    BY <1>12, <1>13 DEF SagaInv
  <1>19. ASSUME NEW d \in Calls, InUse(d)
         PROVE  CallSound(call'[d], row[call'[d].op], upstream', granted')
    BY <1>10, <1>12, <1>14, <1>15, <1>19
  <1> QED BY <1>1, <1>12, <1>16, <1>17, <1>18, <1>19 DEF SagaInv

\* Time takes the budget of a statement before the lease it was sent under.
LEMMA TickSound ==
    ASSUME SagaInv, TypeInv', Tick
    PROVE  SagaInv'
  <1>1. UNCHANGED <<accounts, upstream, granted>>
    BY DEF Tick
  <1>2. ASSUME NEW p \in Ops
        PROVE  /\ row'[p].stage = row[p].stage /\ row'[p].rev = row[p].rev
               /\ Fence(row'[p]) = Fence(row[p])
               /\ row'[p].left = Less(row[p].left)
               /\ row'[p].age <= row[p].age + 1
               /\ row[p].left \in Nat /\ row[p].age \in Nat /\ row'[p].age \in Nat
    <2>1. row[p] \in Rows
      BY DEF SagaInv, TypeInv, TypeOK
    <2>2. row'[p] = [row[p] EXCEPT !.left = Less(@),
                 !.age = IF row[p].stage \in {"absent", "deleted"} \/ @ >= StaleAfter THEN @ ELSE @ + 1]
      BY DEF Tick
    <2>3. /\ row'[p].stage = row[p].stage /\ row'[p].rev = row[p].rev
          /\ row'[p].cleanup = row[p].cleanup /\ row'[p].token = row[p].token
          /\ row'[p].left = Less(row[p].left)
      BY <2>1, <2>2 DEF Rows
    <2>4. row'[p].age = row[p].age \/ row'[p].age = row[p].age + 1
      BY <2>1, <2>2 DEF Rows
    <2>5. row[p].left \in Nat /\ row[p].age \in Nat
      BY <2>1 DEF Rows
    <2> HIDE <2>2
    <2>6. row'[p].age <= row[p].age + 1 /\ row'[p].age \in Nat
      BY <2>4, <2>5
    <2> QED BY <2>3, <2>5, <2>6 DEF Fence
  <1>3. ASSUME NEW d \in Calls
        PROVE  /\ call[d] \in CallRecords
               /\ call'[d].pc = call[d].pc /\ call'[d].next = call[d].next /\ call'[d].fail = call[d].fail
               /\ call'[d].fence = call[d].fence /\ call'[d].op = call[d].op
               /\ call'[d].sent = call[d].sent /\ call'[d].done = call[d].done
               /\ call'[d].budget = Less(call[d].budget) /\ call'[d].rb = Less(call[d].rb)
               /\ call[d].budget \in Nat /\ call[d].rb \in Nat
    <2>1. call[d] \in CallRecords
      BY DEF SagaInv, TypeInv, TypeOK
    <2>2. call'[d] = [call[d] EXCEPT !.budget = Less(@), !.rb = Less(@)]
      BY DEF Tick
    <2>3. /\ call'[d].pc = call[d].pc /\ call'[d].next = call[d].next /\ call'[d].fail = call[d].fail
          /\ call'[d].fence = call[d].fence /\ call'[d].op = call[d].op
          /\ call'[d].sent = call[d].sent
          /\ call'[d].budget = Less(call[d].budget) /\ call'[d].rb = Less(call[d].rb)
      BY <2>1, <2>2 DEF CallRecords
    <2>4. call'[d].done = call[d].done
      BY <2>1, <2>2 DEF CallRecords
    <2>5. call[d].budget \in Nat /\ call[d].rb \in Nat
      BY <2>1 DEF CallRecords
    <2> QED BY <2>1, <2>3, <2>4, <2>5
  <1>4. ASSUME NEW d \in Calls
        PROVE  /\ At(call'[d]) = At(call[d])
               /\ Creating(call'[d]) <=> Creating(call[d])
               /\ CanCreate(call'[d]) => CanCreate(call[d]) /\ call'[d].budget = call[d].budget - 1
               /\ ReadsCreateStarted(call'[d]) =>
                     ReadsCreateStarted(call[d]) /\ call'[d].rb = call[d].rb - 1
               /\ Shape(call'[d])
    <2>1. /\ call'[d].budget > 0 => call[d].budget > 0 /\ call'[d].budget = call[d].budget - 1
          /\ call'[d].rb > 0 => call[d].rb > 0 /\ call'[d].rb = call[d].rb - 1
      BY <1>3 DEF Less
    <2>2. Shape(call[d])
      BY DEF SagaInv
    <2> QED BY <1>3, <2>1, <2>2 DEF At, Creating, CanCreate, ReadsCreateStarted, Shape
  <1>5. ASSUME NEW d \in Calls, InUse(d)
        PROVE  CallSound(call'[d], row'[call[d].op], upstream, granted)
    <2> DEFINE x == call[d]
               y == call'[d]
               r == row[x.op]
               s == row'[x.op]
    <2>1. x.op \in Ops /\ CallSound(x, r, upstream, granted)
      BY <1>5, KnownOfCall
    <2>2. /\ s.stage = r.stage /\ s.rev = r.rev /\ Fence(s) = Fence(r)
          /\ s.left = Less(r.left) /\ s.age <= r.age + 1
          /\ r.left \in Nat /\ r.age \in Nat /\ s.age \in Nat
      BY <1>2, <2>1
    <2>3. /\ y.pc = x.pc /\ y.next = x.next /\ y.fence = x.fence /\ y.op = x.op
          /\ y.sent = x.sent /\ y.done = x.done
          /\ At(y) = At(x) /\ (Creating(y) <=> Creating(x))
          /\ x.budget \in Nat /\ x.rb \in Nat
      BY <1>3, <1>4
    <2>4. ReadsCreateStarted(y) => s.stage = "create_started" /\ s.age + y.rb <= CleanupTimeout
      <3> SUFFICES ASSUME ReadsCreateStarted(y)
                   PROVE  s.stage = "create_started" /\ s.age + y.rb <= CleanupTimeout
        OBVIOUS
      <3>1. ReadsCreateStarted(x) /\ y.rb = x.rb - 1
        BY <1>4
      <3>2. r.stage = "create_started" /\ r.age + x.rb <= CleanupTimeout /\ x.rb > 0
        BY <2>1, <3>1 DEF CallSound, CreateSound, ReadsCreateStarted
      <3>3. CleanupTimeout \in Nat
        BY DurationAssumption
      <3> HIDE DEF x, y, r, s
      <3> QED BY <2>2, <2>3, <3>1, <3>2, <3>3
    <2>5. CanCreate(y) => s.stage = "create_started" /\ y.fence = Fence(s) /\ s.left > y.budget
      <3> SUFFICES ASSUME CanCreate(y)
                   PROVE  s.stage = "create_started" /\ y.fence = Fence(s) /\ s.left > y.budget
        OBVIOUS
      <3>1. CanCreate(x) /\ y.budget = x.budget - 1
        BY <1>4
      <3>2. r.stage = "create_started" /\ x.fence = Fence(r) /\ r.left > x.budget /\ x.budget > 0
        BY <2>1, <3>1 DEF CallSound, CreateSound, CanCreate
      <3> HIDE DEF x, y, r, s
      <3>3. s.left > y.budget
        BY <2>2, <2>3, <3>1, <3>2 DEF Less
      <3> QED BY <2>2, <2>3, <3>2, <3>3
    <2> HIDE DEF x, y, r, s
    <2>6. FenceBehind(y, s)
      BY <2>1, <2>2, <2>3 DEF CallSound, FenceBehind
    <2>7. CreateSound(y, s, upstream)
      BY <2>1, <2>2, <2>3, <2>4, <2>5 DEF CallSound, CreateSound
    <2>8. GrantSound(y, s, granted)
      BY <2>1, <2>2, <2>3 DEF CallSound, GrantSound
    <2>9. DropSound(y, s, upstream)
      BY <2>1, <2>2, <2>3 DEF CallSound, DropSound
    <2>10. CallSound(y, s, upstream, granted)
      BY <2>6, <2>7, <2>8, <2>9 DEF CallSound
    <2> QED BY <2>10 DEF x, y, s
  <1>6. ASSUME NEW p \in Ops
        PROVE  RowSound(p, row'[p], accounts', upstream', granted')
    <2>1. RowSound(p, row[p], accounts, upstream, granted)
      BY DEF SagaInv
    <2> QED BY <1>1, <1>2, <2>1 DEF RowSound
  <1>7. ASSUME NEW d \in Calls, NEW e \in Calls, d # e, InUse(d), InUse(e),
               call[d].op = call[e].op
        PROVE  Apart(call'[d], call'[e], row'[call[d].op])
    <2>1. Apart(call[d], call[e], row[call[d].op]) /\ call[d].op \in Ops
      BY <1>7, KnownOfCall DEF SagaInv
    <2>2. Exclusive(call'[d]) => Exclusive(call[d])
      BY <1>4 DEF Exclusive
    <2> QED BY <1>2, <1>3, <1>4, <2>1, <2>2 DEF Apart
  <1>8. \A d \in Calls : (InUse(d)' <=> InUse(d)) /\ call'[d].op = call[d].op
    BY <1>3 DEF InUse
  <1> QED BY <1>1, <1>4, <1>5, <1>6, <1>7, <1>8 DEF SagaInv

\* Every step of a running call keeps the invariant.
LEMMA StepSound ==
    ASSUME SagaInv, TypeInv', NEW c \in Calls, Step(c)
    PROVE  SagaInv'
  BY MovesSound, ReadBackSound, RecordedTransitionsSound, RenewalsSound, FinalizeSound,
     ReconcileCleanupSound, RunDeprovisionSound, ActivateSound, CompleteSound, ClaimSound,
     SendStatementSound, Zenon
  DEF Step

\* SagaInv is inductive.
LEMMA SagaInvariant == Spec => []SagaInv
  <1>1. Init => SagaInv
    <2> SUFFICES ASSUME Init PROVE SagaInv
      OBVIOUS
    <2>1. TypeInv
      BY TypeInit
    <2>2. \A c \in Calls : Shape(call[c]) /\ ~InUse(c)
      BY DEF Init, Shape, InUse, NoCall
    <2>3. \A o \in Ops : RowSound(o, row[o], accounts, upstream, granted)
      BY DEF Init, AbsentRow, RowSound, DeprovisionStages
    <2> QED BY <2>1, <2>2, <2>3 DEF SagaInv
  <1>2. SagaInv /\ [Next]_vars => SagaInv'
    <2> SUFFICES ASSUME SagaInv, [Next]_vars PROVE SagaInv'
      OBVIOUS
    <2>0. TypeInv'
      BY TypeKept DEF SagaInv
    <2>1. CASE \E c \in Calls, o \in Ops : \/ ProvisionReserve(c, o)
                                         \/ ListExecutable(c, o)
                                         \/ BeginDatabaseDeprovision(c, o)
      BY <2>0, <2>1, ProvisionReserveSound, ListExecutableSound, BeginSound
    <2>2. CASE \E c \in Calls : Step(c)
      BY <2>0, <2>2, StepSound
    <2>3. CASE \E c \in Calls : ProvisionCancelled(c) \/ UpstreamExecutes(c) \/ Crash(c)
      BY <2>0, <2>3, MovesSound, UpstreamExecutesSound, CrashSound
    <2>4. CASE Tick
      BY <2>0, <2>4, TickSound
    <2>5. CASE UNCHANGED vars
      BY <2>0, <2>5 DEF vars, SagaInv, InUse
    <2> QED BY <2>1, <2>2, <2>3, <2>4, <2>5 DEF Next
  <1> QED BY <1>1, <1>2, PTL DEF Spec

(***************************************************************************)
(* No MySQL user is left behind, every managed account has its user and    *)
(* grants, and a CREATE reaches the server only under the lease it was     *)
(* sent under, whatever calls overlap, crash, time out or lose replies     *)
(* (DatabaseProvisioningService over the fenced rows of DBStore).          *)
(***************************************************************************)
THEOREM AccountsCorrect == Spec => []AccountsAccountedFor
  <1>1. SagaInv => AccountsAccountedFor
    <2> SUFFICES ASSUME SagaInv PROVE AccountsAccountedFor
      OBVIOUS
    <2>1. NoOrphan /\ ManagedAccountUsable
      BY DEF SagaInv, RowSound, NoOrphan, ManagedAccountUsable
    <2>2. CreateUnderLease
      <3> SUFFICES ASSUME NEW c \in Calls, InFlight(c), call[c].sent = "create"
                   PROVE  FenceHolds(c) /\ row[call[c].op].left > call[c].budget
        BY DEF CreateUnderLease
      <3>1. Shape(call[c])
        BY DEF SagaInv
      <3>2. CanCreate(call[c]) /\ InUse(c)
        BY <3>1 DEF Shape, SideEffects, StatementOf, InFlight, CanCreate, InUse
      <3> QED BY <3>2, KnownOfCall DEF CallSound, CreateSound, FenceHolds
    <2> QED BY <2>1, <2>2 DEF AccountsAccountedFor
  <1> QED BY <1>1, SagaInvariant, PTL

-----------------------------------------------------------------------------
(* The saga implements AccountLifecycle. *)

\* At most one row changes its stage, along a step that the store allows.
StageMove(a, b) == StageStep(a, b) \/ (a = "absent" /\ b = "reserved")

RowsMove ==
    \/ \A p \in Ops : row'[p].stage = row[p].stage
    \/ \E o \in Ops : /\ \A p \in Ops \ {o} : row'[p].stage = row[p].stage
                      /\ StageMove(row[o].stage, row'[o].stage)

\* The update that a recorded transition makes, if any.
Records(c) ==
    \/ UNCHANGED row
    \/ \E to \in Stages, cl \in CleanupStatuses, at, re \in BOOLEAN :
          /\ CanTransition(c, to, cl)
          /\ row' = [row EXCEPT ![call[c].op] = Transitioned(@, to, cl, at, re)]

\* The update of one row along an allowed step.
LEMMA RowUpdateMoves ==
    ASSUME SagaInv, NEW o \in Ops, NEW s, row' = [row EXCEPT ![o] = s],
           StageMove(row[o].stage, s.stage)
    PROVE  RowsMove
  <1>1. row'[o] = s /\ \A p \in Ops \ {o} : row'[p] = row[p]
    BY DEF SagaInv, TypeInv, TypeOK
  <1> QED BY <1>1 DEF RowsMove

\* A recorded transition is an allowed step.
LEMMA RecordsMoves ==
    ASSUME SagaInv, NEW c \in Calls, InUse(c), Records(c)
    PROVE  RowsMove
  <1>1. CASE UNCHANGED row
    BY <1>1 DEF RowsMove
  <1>2. CASE \E to \in Stages, cl \in CleanupStatuses, at, re \in BOOLEAN :
                /\ CanTransition(c, to, cl)
                /\ row' = [row EXCEPT ![call[c].op] = Transitioned(@, to, cl, at, re)]
    <2>1. PICK to \in Stages, cl \in CleanupStatuses, at \in BOOLEAN, re \in BOOLEAN :
                /\ CanTransition(c, to, cl)
                /\ row' = [row EXCEPT ![call[c].op] = Transitioned(@, to, cl, at, re)]
      BY <1>2
    <2> DEFINE o == call[c].op
               s == Transitioned(row[o], to, cl, at, re)
    <2>2. o \in Ops /\ row[o] \in Rows /\ (FenceHolds(c) => call[c].fence.stage = row[o].stage)
      BY KnownOfCall
    <2>3. row' = [row EXCEPT ![o] = s] /\ s.stage = to
      BY <2>1, <2>2 DEF Transitioned
    <2>4. ValidProvisioningTransition(row[o].stage, to, cl)
      BY <2>1, <2>2 DEF CanTransition
    <2>5. StageMove(row[o].stage, s.stage)
      <3> HIDE DEF s
      <3> QED BY <2>3, <2>4 DEF StageMove, StageStep
    <2> HIDE DEF s, o
    <2> QED BY <2>2, <2>3, <2>5, RowUpdateMoves
  <1> QED BY <1>1, <1>2 DEF Records

\* Recorded transitions are the only changes of most steps.
LEMMA TransitionRecords ==
    ASSUME NEW c \in Calls, NEW to \in Stages, NEW cl \in CleanupStatuses,
           NEW at \in BOOLEAN, NEW re \in BOOLEAN, NEW ok, NEW fail,
           TransitionDetached(c, to, cl, at, re, ok, fail)
    PROVE  Records(c) /\ UNCHANGED upstream
  BY DEF TransitionDetached, Records

\* The steps that record a transition and touch nothing upstream.
LEMMA StepsRecord ==
    ASSUME NEW c \in Calls,
           \/ DiscardNotCreated(c)
           \/ RecordCreateStarted(c)
           \/ RecordCreated(c)
           \/ RecordGrantStarted(c)
           \/ DeferCleanupForReconcile(c)
           \/ RecordActivationPending(c)
           \/ RecordCreateUncertain(c)
           \/ CleanupMark(c)
           \/ CleanupStart(c)
           \/ PersistCleanupFailure(c)
           \/ ReleaseActivationForReconcile(c)
           \/ FinalizeReserved(c)
           \/ DeferDropUncertain(c)
           \/ Finalize(c)
           \/ ReconcileCleanup(c)
           \/ RunDeprovision(c)
    PROVE  InUse(c) /\ Records(c) /\ UNCHANGED upstream
  <1>1. CASE DiscardNotCreated(c)
    <2>1. InUse(c)
      BY <1>1 DEF DiscardNotCreated, InUse
    <2> QED BY <1>1, <2>1, Names, TransitionRecords, Zenon DEF DiscardNotCreated
  <1>2. CASE RecordCreateStarted(c)
    <2>1. InUse(c)
      BY <1>2 DEF RecordCreateStarted, InUse
    <2> QED BY <1>2, <2>1, Names, TransitionRecords, Zenon DEF RecordCreateStarted
  <1>3. CASE RecordCreated(c)
    <2>1. InUse(c)
      BY <1>3 DEF RecordCreated, InUse
    <2> QED BY <1>3, <2>1, Names, TransitionRecords, Zenon DEF RecordCreated
  <1>4. CASE RecordGrantStarted(c)
    <2>1. InUse(c)
      BY <1>4 DEF RecordGrantStarted, InUse
    <2> QED BY <1>4, <2>1, Names, TransitionRecords, Zenon DEF RecordGrantStarted
  <1>5. CASE DeferCleanupForReconcile(c)
    <2>1. InUse(c)
      BY <1>5 DEF DeferCleanupForReconcile, InUse
    <2> QED BY <1>5, <2>1, Names, TransitionRecords, Zenon DEF DeferCleanupForReconcile
  <1>6. CASE RecordActivationPending(c)
    <2>1. InUse(c)
      BY <1>6 DEF RecordActivationPending, InUse
    <2> QED BY <1>6, <2>1, Names, TransitionRecords, Zenon DEF RecordActivationPending
  <1>7. CASE RecordCreateUncertain(c)
    <2>1. InUse(c)
      BY <1>7 DEF RecordCreateUncertain, InUse
    <2> QED BY <1>7, <2>1, Names, TransitionRecords, Zenon DEF RecordCreateUncertain
  <1>8. CASE CleanupMark(c)
    <2>1. InUse(c)
      BY <1>8 DEF CleanupMark, InUse
    <2> QED BY <1>8, <2>1, Names, TransitionRecords, Zenon DEF CleanupMark
  <1>9. CASE CleanupStart(c)
    <2>1. InUse(c)
      BY <1>9 DEF CleanupStart, InUse
    <2> QED BY <1>9, <2>1, Names, TransitionRecords, Zenon DEF CleanupStart
  <1>10. CASE PersistCleanupFailure(c)
    <2>1. InUse(c)
      BY <1>10 DEF PersistCleanupFailure, InUse
    <2> QED BY <1>10, <2>1, Names, TransitionRecords, Zenon DEF PersistCleanupFailure
  <1>11. CASE ReleaseActivationForReconcile(c)
    <2>1. InUse(c)
      BY <1>11 DEF ReleaseActivationForReconcile, InUse
    <2> QED BY <1>11, <2>1, Names, TransitionRecords, Zenon DEF ReleaseActivationForReconcile
  <1>12. CASE FinalizeReserved(c)
    <2>1. InUse(c)
      BY <1>12 DEF FinalizeReserved, InUse
    <2> QED BY <1>12, <2>1, Names, TransitionRecords, Zenon DEF FinalizeReserved
  <1>13. CASE DeferDropUncertain(c)
    <2>1. InUse(c)
      BY <1>13 DEF DeferDropUncertain, InUse
    <2> QED BY <1>13, <2>1, Names, TransitionRecords, Zenon DEF DeferDropUncertain
  <1>14. CASE Finalize(c)
    <2>1. InUse(c)
      BY <1>14 DEF Finalize, InUse
    <2> QED BY <1>14, <2>1, Names, TransitionRecords, Zenon DEF Finalize
  <1>15. CASE ReconcileCleanup(c)
    <2>1. InUse(c)
      BY <1>15 DEF ReconcileCleanup, InUse
    <2>2. CASE TransitionDetached(c, "cleanup_in_progress", "in_progress", TRUE, FALSE,
                                  "dropRenew", "idle")
      BY <2>1, <2>2, Names, TransitionRecords, Zenon
    <2>3. CASE UNCHANGED <<row, upstream>>
      BY <2>1, <2>3 DEF Records
    <2> QED BY <1>15, <2>2, <2>3 DEF ReconcileCleanup
  <1>16. CASE RunDeprovision(c)
    <2>1. InUse(c)
      BY <1>16 DEF RunDeprovision, InUse
    <2>2. CASE TransitionDetached(c, "drop_started", "in_progress", TRUE, FALSE,
                                  "deprovRenew", "idle")
      BY <2>1, <2>2, Names, TransitionRecords, Zenon
    <2>3. CASE UNCHANGED <<row, upstream>>
      BY <2>1, <2>3 DEF Records
    <2> QED BY <1>16, <2>2, <2>3 DEF RunDeprovision
  <1> QED BY <1>1, <1>2, <1>3, <1>4, <1>5, <1>6, <1>7, <1>8,
             <1>9, <1>10, <1>11, <1>12, <1>13, <1>14, <1>15, <1>16

\* A lease update keeps the stage.
LEMMA LeaseMoves ==
    ASSUME SagaInv, NEW o \in Ops, NEW s, row' = [row EXCEPT ![o] = s],
           s.stage = row[o].stage
    PROVE  RowsMove
  BY RowUpdateMoves DEF StageMove, StageStep

\* The other steps of the store: leases, claims, the activation, the deletion.
LEMMA OtherStepsMove ==
    ASSUME SagaInv, NEW c \in Calls,
           \/ CreateRenew(c) \/ GrantRenew(c) \/ DropRenew(c) \/ DeprovisionRenew(c)
           \/ ClaimForReconcile(c) \/ ActivateDetached(c) \/ CompleteDatabaseDeprovision(c)
    PROVE  RowsMove /\ UNCHANGED upstream
  <1> DEFINE o == call[c].op
  <1>1. InUse(c)
    BY DEF CreateRenew, GrantRenew, DropRenew, DeprovisionRenew, ClaimForReconcile,
           ActivateDetached, CompleteDatabaseDeprovision, InUse
  <1>2. o \in Ops /\ row[o] \in Rows /\ (FenceHolds(c) => call[c].fence.stage = row[o].stage)
    BY <1>1, KnownOfCall
  <1>3. Renewed(row[o]).stage = row[o].stage /\ Claimed(row[o]).stage = row[o].stage
        /\ Activated(row[o]).stage = "active_managed"
    BY <1>2, RowFields
  <1>4. CASE UNCHANGED <<row, upstream>>
    BY <1>4 DEF RowsMove
  <1>5. CASE UNCHANGED upstream /\ \/ row' = [row EXCEPT ![o] = Renewed(row[o])]
                                   \/ row' = [row EXCEPT ![o] = Claimed(row[o])]
    BY <1>2, <1>3, <1>5, LeaseMoves
  <1>6. CASE ActivateDetached(c)
    <2>1. CASE CanActivate(c) /\ row' = [row EXCEPT ![o] = Activated(row[o])]
      <3>1. StageMove(row[o].stage, Activated(row[o]).stage)
        BY <1>2, <1>3, <2>1 DEF CanActivate, StageMove, StageStep
      <3> QED BY <1>2, <1>6, <2>1, <3>1, RowUpdateMoves DEF ActivateDetached
    <2> QED BY <1>4, <1>6, <2>1 DEF ActivateDetached
  <1>7. CASE CompleteDatabaseDeprovision(c)
    <2> DEFINE s == [row[o] EXCEPT !.stage = "deleted", !.left = 0]
    <2>1. CASE /\ call[c].fence.stage = "drop_started" /\ FenceHolds(c)
               /\ row' = [row EXCEPT ![o] = s]
      <3>1. s.stage = "deleted"
        BY <1>2 DEF Rows
      <3>2. row' = [row EXCEPT ![o] = s]
        BY <2>1
      <3> HIDE DEF s
      <3>3. StageMove(row[o].stage, s.stage)
        BY <1>2, <2>1, <3>1 DEF StageMove, StageStep
      <3>4. RowsMove
        BY <1>2, <3>2, <3>3, RowUpdateMoves
      <3> QED BY <1>7, <3>4 DEF CompleteDatabaseDeprovision
    <2> QED BY <1>4, <1>7, <2>1 DEF CompleteDatabaseDeprovision
  <1>8. CASE CreateRenew(c) \/ GrantRenew(c) \/ DropRenew(c) \/ DeprovisionRenew(c)
    BY <1>4, <1>5, <1>8 DEF CreateRenew, GrantRenew, DropRenew, DeprovisionRenew, RenewForSideEffect
  <1>9. CASE ClaimForReconcile(c)
    BY <1>4, <1>5, <1>9 DEF ClaimForReconcile
  <1> QED BY <1>6, <1>7, <1>8, <1>9

\* Every step moves at most one row, or is the server executing a statement.
LEMMA NextMoves ==
    ASSUME SagaInv, [Next]_vars
    PROVE  \/ RowsMove /\ UNCHANGED upstream
           \/ \E c \in Calls : UpstreamExecutes(c)
  <1>1. CASE \E c \in Calls, o \in Ops : ProvisionReserve(c, o)
    <2>1. PICK c \in Calls, o \in Ops : ProvisionReserve(c, o)
      BY <1>1
    <2>2. /\ row' = [row EXCEPT ![o] = ReservedRow] /\ UNCHANGED upstream
          /\ StageMove(row[o].stage, ReservedRow.stage)
      BY <2>1 DEF ProvisionReserve, AbsentRow, ReservedRow, StageMove
    <2> QED BY <2>2, RowUpdateMoves
  <1>2. CASE \E c \in Calls, o \in Ops : BeginDatabaseDeprovision(c, o)
    <2>1. PICK c \in Calls, o \in Ops : BeginDatabaseDeprovision(c, o)
      BY <1>2
    <2> DEFINE s == [Claimed(row[o]) EXCEPT !.stage = "deprovision_requested"]
    <2>2. s.stage = "deprovision_requested"
      <3>1. Claimed(row[o]) \in Rows
        BY RowUpdates DEF SagaInv, TypeInv, TypeOK
      <3> QED BY <3>1 DEF Rows
    <2>3. row' = [row EXCEPT ![o] = s] /\ UNCHANGED upstream /\ row[o].stage = "active_managed"
      BY <2>1 DEF BeginDatabaseDeprovision
    <2> HIDE DEF s
    <2>4. StageMove(row[o].stage, s.stage)
      BY <2>2, <2>3 DEF StageMove, StageStep
    <2> QED BY <2>3, <2>4, RowUpdateMoves
  <1>3. CASE UNCHANGED <<row, upstream>>
    BY <1>3 DEF RowsMove
  <1>4. CASE \E c \in Calls : Step(c)
    <2>1. PICK c \in Calls : Step(c)
      BY <1>4
    <2>2. CASE \/ ReadBack(c) \/ SideEffectExpired(c) \/ SendStatement(c) \/ StatementSucceeds(c)
               \/ StatementUncertain(c) \/ StatementRefused(c) \/ Restart(c)
      BY <1>3, <2>2 DEF ReadBack, SideEffectExpired, SendStatement, StatementSucceeds,
                        StatementUncertain, StatementRefused, Restart
    <2>3. CASE \/ CreateRenew(c) \/ GrantRenew(c) \/ DropRenew(c) \/ DeprovisionRenew(c)
               \/ ClaimForReconcile(c) \/ ActivateDetached(c) \/ CompleteDatabaseDeprovision(c)
      BY <2>3, OtherStepsMove
    <2>4. CASE
               \/ DiscardNotCreated(c)
               \/ RecordCreateStarted(c)
               \/ RecordCreated(c)
               \/ RecordGrantStarted(c)
               \/ DeferCleanupForReconcile(c)
               \/ RecordActivationPending(c)
               \/ RecordCreateUncertain(c)
               \/ CleanupMark(c)
               \/ CleanupStart(c)
               \/ PersistCleanupFailure(c)
               \/ ReleaseActivationForReconcile(c)
               \/ FinalizeReserved(c)
               \/ DeferDropUncertain(c)
               \/ Finalize(c)
               \/ ReconcileCleanup(c)
               \/ RunDeprovision(c)
      BY <2>4, StepsRecord, RecordsMoves
    <2> QED BY <2>1, <2>2, <2>3, <2>4 DEF Step
  <1>5. CASE Tick
    <2>1. \A p \in Ops : row'[p].stage = row[p].stage
      BY <1>5 DEF Tick, SagaInv, TypeInv, TypeOK, Rows
    <2> QED BY <1>5, <2>1 DEF Tick, RowsMove
  <1>6. CASE \/ \E c \in Calls, o \in Ops : ListExecutable(c, o)
             \/ \E c \in Calls : ProvisionCancelled(c) \/ Crash(c)
             \/ UNCHANGED vars
    BY <1>3, <1>6 DEF ListExecutable, ProvisionCancelled, Crash, vars
  <1> QED BY <1>1, <1>2, <1>4, <1>5, <1>6 DEF Next

Phase == [o \in Ops |-> PhaseOf(row[o].stage)]

\* The phase that each stage stands for.
LEMMA PhaseOfStage ==
    /\ PhaseOf("absent") = "none" /\ PhaseOf("activation_pending") = "committed"
    /\ PhaseOf("not_created") = "failed" /\ PhaseOf("active_managed") = "active"
    /\ PhaseOf("deleted") = "removed"
    /\ \A s \in DeprovisionStages : PhaseOf(s) = "removing"
    /\ \A s \in CleanupStages \cup {"reserved"} : PhaseOf(s) = "pending"
  BY DEF PhaseOf, DeprovisionStages, CleanupStages

\* Every step between stages keeps the phase or is one of the lifecycle's moves.
LEMMA PhaseMoves ==
    ASSUME NEW a \in Stages, NEW b \in Stages, StageMove(a, b)
    PROVE  \/ PhaseOf(a) = PhaseOf(b)
           \/ a = "absent" /\ b = "reserved"
           \/ PhaseOf(a) = "pending" /\ b = "not_created"
           \/ PhaseOf(a) = "pending" /\ b = "activation_pending"
           \/ a = "activation_pending" /\ b = "active_managed"
           \/ a = "active_managed" /\ b = "deprovision_requested"
           \/ a = "drop_started" /\ b = "deleted"
  <1>1. CASE \E cl \in CleanupStatuses : ValidProvisioningTransition(a, b, cl)
    <2>1. \/ a \in CleanupStages \cup {"reserved"} /\ b \in CleanupStages \cup {"reserved"}
          \/ a = b
          \/ a \in CleanupStages \cup {"reserved"} /\ b \in {"not_created", "activation_pending"}
          \/ a \in DeprovisionStages /\ b \in DeprovisionStages
      BY <1>1 DEF ValidProvisioningTransition, CleanupStages, DeprovisionStages
    <2> QED BY <2>1, PhaseOfStage
  <1> QED BY <1>1 DEF StageMove, StageStep

\* A move of one row is a move of the lifecycle, or none.
LEMMA RowsMoveImplement ==
    ASSUME SagaInv, SagaInv', RowsMove, UNCHANGED upstream
    PROVE  Lifecycle!Next \/ UNCHANGED Lifecycle!vars
  <1>1. \A p \in Ops : row[p].stage \in Stages /\ row'[p].stage \in Stages
    BY DEF SagaInv, TypeInv, TypeOK, Rows
  <1>2. CASE \A p \in Ops : PhaseOf(row'[p].stage) = PhaseOf(row[p].stage)
    BY <1>2 DEF Lifecycle!vars
  <1>3. CASE \E o \in Ops : /\ \A p \in Ops \ {o} : row'[p].stage = row[p].stage
                            /\ StageMove(row[o].stage, row'[o].stage)
                            /\ PhaseOf(row'[o].stage) # PhaseOf(row[o].stage)
    <2>1. PICK o \in Ops : /\ \A p \in Ops \ {o} : row'[p].stage = row[p].stage
                           /\ StageMove(row[o].stage, row'[o].stage)
                           /\ PhaseOf(row'[o].stage) # PhaseOf(row[o].stage)
      BY <1>3
    <2> DEFINE a == row[o].stage
               b == row'[o].stage
    <2>2. Phase' = [Phase EXCEPT ![o] = PhaseOf(b)] /\ Phase[o] = PhaseOf(a)
      <3>1. \A p \in Ops \ {o} : PhaseOf(row'[p].stage) = PhaseOf(row[p].stage)
        BY <2>1
      <3>2. /\ Phase' = [p \in Ops |-> PhaseOf(row'[p].stage)]
            /\ \A p \in Ops : Phase[p] = PhaseOf(row[p].stage)
            /\ [Phase EXCEPT ![o] = PhaseOf(b)] =
                   [p \in Ops |-> IF p = o THEN PhaseOf(b) ELSE Phase[p]]
        BY DEF Phase
      <3> QED BY <3>1, <3>2
    <2>3. /\ b \in {"not_created", "deleted"} => o \notin upstream
          /\ b \in {"activation_pending", "active_managed"} => o \in upstream
      BY DEF SagaInv, RowSound, TypeInv, TypeOK
    <2> HIDE DEF a, b
    <2>4. \/ a = "absent" /\ b = "reserved"
          \/ PhaseOf(a) = "pending" /\ b = "not_created"
          \/ PhaseOf(a) = "pending" /\ b = "activation_pending"
          \/ a = "activation_pending" /\ b = "active_managed"
          \/ a = "active_managed" /\ b = "deprovision_requested"
          \/ a = "drop_started" /\ b = "deleted"
      BY <1>1, <2>1, PhaseMoves DEF a, b
    <2>5. \/ PhaseOf(a) = "none" /\ PhaseOf(b) = "pending"
          \/ PhaseOf(a) = "pending" /\ PhaseOf(b) = "failed" /\ o \notin upstream
          \/ PhaseOf(a) = "pending" /\ PhaseOf(b) = "committed" /\ o \in upstream
          \/ PhaseOf(a) = "committed" /\ PhaseOf(b) = "active" /\ o \in upstream
          \/ PhaseOf(a) = "active" /\ PhaseOf(b) = "removing"
          \/ PhaseOf(a) = "removing" /\ PhaseOf(b) = "removed" /\ o \notin upstream
      BY <2>3, <2>4, PhaseOfStage DEF DeprovisionStages
    <2> QED BY <2>2, <2>5 DEF Phase, Lifecycle!Next, Lifecycle!Start, Lifecycle!Fail,
                Lifecycle!Commit, Lifecycle!Activate, Lifecycle!RequestRemoval,
                Lifecycle!Remove, Lifecycle!Move
  <1> QED BY <1>2, <1>3 DEF RowsMove

\* What the server does is a creation or a removal that the lifecycle allows, or nothing.
LEMMA UpstreamImplements ==
    ASSUME SagaInv, NEW c \in Calls, UpstreamExecutes(c)
    PROVE  Lifecycle!Next \/ UNCHANGED Lifecycle!vars
  <1> DEFINE x == call[c]
             o == x.op
  <1>1. UNCHANGED row /\ InFlight(c)
    BY DEF UpstreamExecutes
  <1>2. Shape(x) /\ x.sent # "none" /\ ~x.done /\ x.budget > 0
    BY <1>1 DEF SagaInv, InFlight
  <1>3. /\ x.pc \in SideEffects \cup {"crashed"}
        /\ x.pc \in SideEffects => x.sent = StatementOf[x.pc]
        /\ InUse(c)
    BY <1>2 DEF Shape, InUse, SideEffects, StatementOf
  <1>4. /\ x \in CallRecords /\ o \in Ops
        /\ CallSound(x, row[o], upstream, granted)
        /\ RowSound(o, row[o], accounts, upstream, granted)
    BY <1>3, KnownOfCall
  <1>5. /\ x.sent = "create" => x.pc \in {"create", "crashed"}
        /\ x.sent = "drop" => x.pc \in {"drop", "deprovDrop", "crashed"}
        /\ x.sent \in {"create", "grant", "drop"}
    BY <1>2, <1>3, <1>4 DEF SideEffects, StatementOf, CallRecords, Statements
  <1>6. x.sent = "create" => row[o].stage = "create_started"
    BY <1>2, <1>4, <1>5 DEF CallSound, CreateSound, CanCreate
  <1>7. x.sent = "drop" => row[o].stage \in CleaningUp \cup Dropping
    BY <1>4, <1>5 DEF CallSound, DropSound, At
  <1>8. /\ x.sent = "create" => upstream' = upstream \cup {o}
        /\ x.sent = "grant" => upstream' = upstream
        /\ x.sent = "drop" => upstream' = upstream \ {o}
    BY <1>5 DEF UpstreamExecutes
  <1>9. Phase' = Phase /\ Phase[o] = PhaseOf(row[o].stage)
    BY <1>1, <1>4 DEF Phase
  <1> HIDE DEF o, x
  <1>10. CASE x.sent = "create"
    <2>1. Phase[o] = "pending"
      BY <1>6, <1>9, <1>10, PhaseOfStage DEF CleanupStages
    <2> QED BY <1>4, <1>8, <1>9, <1>10, <2>1 DEF Phase, Lifecycle!Next, Lifecycle!CreateUser
  <1>11. CASE x.sent = "drop" /\ row[o].stage \in {"not_created", "deleted"}
    <2>1. upstream' = upstream
      BY <1>4, <1>8, <1>11 DEF RowSound
    <2> QED BY <1>9, <2>1 DEF Phase, Lifecycle!vars
  <1>12. CASE x.sent = "drop" /\ row[o].stage \notin {"not_created", "deleted"}
    <2>1. Phase[o] \in {"pending", "removing"}
      BY <1>7, <1>9, <1>12, PhaseOfStage DEF CleaningUp, Dropping, CleanupStages, DeprovisionStages
    <2> QED BY <1>4, <1>8, <1>9, <1>12, <2>1 DEF Phase, Lifecycle!Next, Lifecycle!DropUser
  <1>13. CASE x.sent = "grant"
    BY <1>8, <1>9, <1>13 DEF Phase, Lifecycle!vars
  <1> QED BY <1>5, <1>10, <1>11, <1>12, <1>13

(***************************************************************************)
(* The saga implements AccountLifecycle, for any number of operations and  *)
(* calls, of faults, and for all the durations that the service accepts:   *)
(* the recorded stages, leases, retries and recoveries of                  *)
(* DatabaseProvisioningService only ever move an account, and the MySQL    *)
(* user with it, along the promised lifecycle.                             *)
(***************************************************************************)
THEOREM LifecycleImplemented == Spec => ImplementsLifecycle
  <1>1. Init => Lifecycle!Init
    <2>1. AbsentRow.stage = "absent"
      BY DEF AbsentRow
    <2> QED BY <2>1, PhaseOfStage DEF Init, Lifecycle!Init
  <1>2. SagaInv /\ SagaInv' /\ [Next]_vars => [Lifecycle!Next]_(Lifecycle!vars)
    BY NextMoves, RowsMoveImplement, UpstreamImplements
  <1> QED BY <1>1, <1>2, SagaInvariant, PTL DEF Spec, ImplementsLifecycle, Lifecycle!Spec
=============================================================================
