------------------------- MODULE DatabaseProvisioning -------------------------
(***************************************************************************)
(* The saga that creates, grants, activates and drops managed MySQL        *)
(* accounts: service.DatabaseProvisioningService (Provision, Deprovision,  *)
(* Reconcile) over the fenced, leased rows of                              *)
(* store.DBStore, with the upstream MySQL server as its environment.       *)
(*                                                                         *)
(* A row of database_provisioning_operations is row[o].  Every update of a *)
(* row is a compare-and-set on its fence (stage, cleanup status, revision, *)
(* lease token) and on the validity of its lease, and it bumps the         *)
(* revision.  A running call c keeps the copy of the fence that its last   *)
(* store call returned.  Time passes in Ticks; a lease, a side-effect      *)
(* deadline and a detached context are counted in the ticks left to them.  *)
(***************************************************************************)
EXTENDS Integers, FiniteSets

CONSTANTS
    Ops,            \* operation identities (jmo_<token>), each owns one MySQL user
    NoOp,           \* the operation of a call slot that is not in use
    Calls,          \* slots for concurrently running service calls
    LeaseDuration,  \* DatabaseProvisioningOptions.LeaseDuration, in ticks
    CleanupTimeout, \* DatabaseProvisioningOptions.CleanupTimeout, in ticks
    StaleAfter,     \* DatabaseProvisioningOptions.ReconcileStaleAfter, in ticks
    MaxFaults       \* bound: crashes, errors, lost replies and pauses together

\* NewDatabaseProvisioningService replaces any other LeaseDuration by 3 * CleanupTimeout.
ASSUME DurationAssumption ==
    /\ CleanupTimeout \in Nat \ {0}
    /\ LeaseDuration \in Nat
    /\ LeaseDuration > CleanupTimeout
    /\ StaleAfter \in Nat \ {0}
    /\ MaxFaults \in Nat

\* database_provisioning_runtime.go deploys 30 seconds against 10.
ASSUME StaleAfterAssumption == StaleAfter >= CleanupTimeout

ASSUME NoOpAssumption == NoOp \notin Ops

VARIABLES
    row,      \* [Ops -> Row]: the table database_provisioning_operations
    accounts, \* operations with an active managed row in database_accounts
    upstream, \* operations whose MySQL user exists on the server
    granted,  \* operations whose MySQL user holds all its grants
    call,     \* [Calls -> Call]: the running calls
    faults    \* faults still available to the environment

vars == <<row, accounts, upstream, granted, call, faults>>

-----------------------------------------------------------------------------
CleanupStages == {"create_started", "create_uncertain", "upstream_created",
                  "grant_started", "cleanup_required", "cleanup_in_progress"}
DeprovisionStages == {"deprovision_requested", "drop_started", "drop_uncertain"}
ActiveStages == CleanupStages \cup DeprovisionStages \cup
    {"reserved", "activation_pending", "not_created", "active_managed"}
\* "absent": no row yet; "deleted": active_marker is NULL, no query sees the row.
Stages == ActiveStages \cup {"absent", "deleted"}
CleanupStatuses == {"none", "required", "in_progress", "failed"}

Fences == [stage : Stages, cleanup : CleanupStatuses, rev : Nat, token : Nat]
Rows == [stage : Stages, cleanup : CleanupStatuses, rev : Nat, token : Nat,
         left : Nat, age : Nat]

PCs == {"idle", "claim", "readback", "crashed",
        "reserved", "discard", "createRenew", "create", "markUncertain",
        "recordCreated", "recordGrantStarted", "grantRenew", "grant",
        "deferCleanup", "recordPending", "activate", "activateRetry",
        "releaseActivation", "cleanupMark", "cleanupStart", "dropRenew",
        "drop", "finalize", "persistFailure", "finalizeReserved",
        "reconcileCleanup", "deprovision", "deprovRenew", "deprovDrop",
        "complete", "deferUncertain"}
Statements == {"none", "create", "grant", "drop"}

\* reconciles: Reconcile reacts to a failed finalisation, Provision does not.
\* own is a history variable: the lease token the store granted to this call.
CallRecords == [pc : PCs, next : PCs, fail : PCs, reconciles : BOOLEAN,
                op : Ops \cup {NoOp}, fence : Fences, own : Nat,
                budget : Nat, rb : Nat, sent : Statements, done : BOOLEAN]

Fence(r) == [stage |-> r.stage, cleanup |-> r.cleanup, rev |-> r.rev, token |-> r.token]

AbsentRow == [stage |-> "absent", cleanup |-> "none", rev |-> 0, token |-> 0,
              left |-> 0, age |-> 0]

NoCall == [pc |-> "idle", next |-> "idle", fail |-> "idle", reconciles |-> FALSE,
           op |-> NoOp, fence |-> Fence(AbsentRow), own |-> 0, budget |-> 0,
           rb |-> 0, sent |-> "none", done |-> FALSE]

Init ==
    /\ row = [o \in Ops |-> AbsentRow]
    /\ accounts = {}
    /\ upstream = {}
    /\ granted = {}
    /\ call = [c \in Calls |-> NoCall]
    /\ faults = MaxFaults

-----------------------------------------------------------------------------
(* Helpers shared by the actions. *)

\* The environment spends one fault.
Fault == faults > 0 /\ faults' = faults - 1
NoFault == UNCHANGED faults

\* The call returns when it goes to "idle".
GoTo(c, pc) == call' = [call EXCEPT ![c] =
    IF pc = "idle" THEN NoCall
    ELSE [call[c] EXCEPT !.pc = pc, !.next = "idle", !.fail = "idle", !.rb = 0,
                         !.sent = "none", !.done = FALSE]]

\* A free slot starts to work on o with the row the store returned.
StartCall(c, pc, o, r, own, reconciles) == call' = [call EXCEPT ![c] =
    [NoCall EXCEPT !.pc = pc, !.reconciles = reconciles, !.op = o,
                   !.fence = Fence(r), !.own = own]]

\* The call goes on with the row the store returned.
GoToWith(c, pc, r) == call' = [call EXCEPT ![c] =
    [call[c] EXCEPT !.pc = pc, !.next = "idle", !.fail = "idle", !.rb = 0,
                    !.fence = Fence(r), !.sent = "none", !.done = FALSE]]

ValidLease(r) == r.left > 0
ExpiredOrUnsetLease(r) == r.left = 0

\* provisioningFenceCondition on the row of the call's operation.
FenceHolds(c) == Fence(row[call[c].op]) = call[c].fence

ValidProvisioningTransition(from, to, cleanup) ==
    \/ to = "create_started" /\ from = "reserved" /\ cleanup = "none"
    \/ to = "upstream_created" /\ from = "create_started" /\ cleanup = "none"
    \/ to = "create_uncertain" /\ from = "create_started" /\ cleanup = "required"
    \/ to = "grant_started" /\ from = "upstream_created" /\ cleanup = "none"
    \/ to = "activation_pending" /\ from \in {"grant_started", "activation_pending"}
       /\ cleanup = "none"
    \/ to = "not_created" /\ cleanup = "none"
       /\ from \in {"reserved", "create_started", "cleanup_in_progress", "not_created"}
    \/ to = "drop_started" /\ from \in {"deprovision_requested", "drop_uncertain"}
       /\ cleanup = "in_progress"
    \/ to = "drop_uncertain" /\ from = "drop_started" /\ cleanup = "required"
    \/ to = "cleanup_required" /\ from \in CleanupStages
       /\ cleanup \in {"required", "failed"}
    \/ to = "cleanup_in_progress" /\ from \in CleanupStages /\ cleanup = "in_progress"

CanTransition(c, to, cleanup) ==
    /\ ValidProvisioningTransition(call[c].fence.stage, to, cleanup)
    /\ FenceHolds(c)
    /\ ValidLease(row[call[c].op])

\* Mutant of Transitioned: the cleanup column receives the stage.
TransitionedOneColumn(r, to, cleanup, attempt, release) ==
    [r EXCEPT !.stage = to, !.cleanup = to, !.rev = r.rev + 1]

Transitioned(r, to, cleanup, attempt, release) ==
    [stage |-> to, cleanup |-> cleanup, rev |-> r.rev + 1,
     token |-> IF release THEN 0 ELSE r.token,
     left |-> IF release THEN 0 ELSE r.left,
     age |-> IF attempt THEN 0 ELSE r.age]

(***************************************************************************)
(* transitionDetached: an UPDATE guarded by fence and lease, then, outside *)
(* any transaction, a SELECT of the same row (action ReadBack).  A call    *)
(* that ignores the answer returns at once.                                *)
(***************************************************************************)
TransitionDetached(c, to, cleanup, attempt, release, ok, fail) ==
    LET o == call[c].op IN
    /\ \/ /\ CanTransition(c, to, cleanup)
          /\ row' = [row EXCEPT ![o] = Transitioned(@, to, cleanup, attempt, release)]
          /\ IF ok = "idle" /\ fail = "idle"
               THEN GoTo(c, "idle")
               ELSE call' = [call EXCEPT ![c].pc = "readback", ![c].next = ok,
                                         ![c].fail = fail, ![c].rb = CleanupTimeout]
          /\ NoFault
       \/ /\ IF CanTransition(c, to, cleanup) THEN Fault ELSE NoFault
          /\ GoTo(c, fail)
          /\ UNCHANGED row
    /\ UNCHANGED <<accounts, upstream, granted>>

\* The SELECT after the UPDATE, under the detached context's CleanupTimeout.
ReadBack(c) ==
    /\ call[c].pc = "readback"
    /\ \/ /\ call[c].rb > 0
          /\ row[call[c].op].stage # "deleted"
          /\ IF call[c].next = "idle" THEN GoTo(c, "idle")
             ELSE GoToWith(c, call[c].next, row[call[c].op])
          /\ NoFault
       \/ /\ IF call[c].rb > 0 /\ row[call[c].op].stage # "deleted"
               THEN Fault ELSE NoFault
          /\ GoTo(c, call[c].fail)
    /\ UNCHANGED <<row, accounts, upstream, granted>>

\* Mutant of SideEffectTimeout: no margin is kept for recording the result.
SideEffectTimeoutNoMargin(remaining) == remaining

\* sideEffectTimeout: how long a side effect may run, 0 when it may not start.
SideEffectTimeout(remaining) ==
    LET margin == IF CleanupTimeout >= remaining THEN remaining \div 4
                  ELSE CleanupTimeout
        timeout == remaining - margin
        capped == IF timeout >= LeaseDuration THEN LeaseDuration - 1 ELSE timeout
    IN IF remaining <= 1 \/ margin <= 0 \/ capped <= 0 THEN 0 ELSE capped

Renewed(r) == [r EXCEPT !.left = LeaseDuration, !.rev = r.rev + 1]

\* renewForSideEffect: renew the lease in one transaction, then derive the deadline.
RenewForSideEffect(c, ok, fail) ==
    LET o == call[c].op
        can == FenceHolds(c) /\ ValidLease(row[o])
    IN
    /\ \/ /\ can
          /\ row' = [row EXCEPT ![o] = Renewed(@)]
          /\ \/ /\ SideEffectTimeout(LeaseDuration) > 0
                /\ call' = [call EXCEPT ![c].pc = ok, ![c].fence = Fence(Renewed(row[o])),
                                        ![c].budget = SideEffectTimeout(LeaseDuration)]
                /\ NoFault
             \/ /\ IF SideEffectTimeout(LeaseDuration) > 0 THEN Fault ELSE NoFault
                /\ GoTo(c, fail)
       \/ /\ IF can THEN Fault ELSE NoFault
          /\ GoTo(c, fail)
          /\ UNCHANGED row
    /\ UNCHANGED <<accounts, upstream, granted>>

-----------------------------------------------------------------------------
(* Provision. *)

\* The operation row is inserted together with its first lease.
ReservedRow == [stage |-> "reserved", cleanup |-> "none", rev |-> 1, token |-> 1,
                left |-> LeaseDuration, age |-> 0]

\* The insert may commit although its caller sees an error.
ProvisionReserve(c, o) ==
    /\ call[c].pc = "idle"
    /\ row[o] = AbsentRow
    /\ row' = [row EXCEPT ![o] = ReservedRow]
    /\ \/ NoFault /\ StartCall(c, "reserved", o, ReservedRow, ReservedRow.token, FALSE)
       \/ Fault /\ UNCHANGED call
    /\ UNCHANGED <<accounts, upstream, granted>>

\* The request's context is cancelled right after the row was created.
ProvisionCancelled(c) ==
    /\ call[c].pc = "reserved"
    /\ Fault
    /\ GoTo(c, "discard")
    /\ UNCHANGED <<row, accounts, upstream, granted>>

DiscardNotCreated(c) ==
    /\ call[c].pc = "discard"
    /\ TransitionDetached(c, "not_created", "none", FALSE, TRUE, "idle", "idle")

RecordCreateStarted(c) ==
    /\ call[c].pc = "reserved"
    /\ TransitionDetached(c, "create_started", "none", TRUE, FALSE, "createRenew", "idle")

CreateRenew(c) ==
    /\ call[c].pc = "createRenew"
    /\ RenewForSideEffect(c, "create", "idle")

RecordCreated(c) ==
    /\ call[c].pc = "recordCreated"
    /\ TransitionDetached(c, "upstream_created", "none", FALSE, FALSE,
                          "recordGrantStarted", "idle")

RecordGrantStarted(c) ==
    /\ call[c].pc = "recordGrantStarted"
    /\ TransitionDetached(c, "grant_started", "none", FALSE, FALSE, "grantRenew", "idle")

GrantRenew(c) ==
    /\ call[c].pc = "grantRenew"
    /\ RenewForSideEffect(c, "grant", "deferCleanup")

DeferCleanupForReconcile(c) ==
    /\ call[c].pc = "deferCleanup"
    /\ TransitionDetached(c, "cleanup_required", "required", FALSE, TRUE, "idle", "idle")

RecordActivationPending(c) ==
    /\ call[c].pc = "recordPending"
    /\ TransitionDetached(c, "activation_pending", "none", FALSE, FALSE, "activate", "idle")

\* cleanupUncertainCreate
RecordCreateUncertain(c) ==
    /\ call[c].pc = "markUncertain"
    /\ TransitionDetached(c, "create_uncertain", "required", FALSE, FALSE,
                          "cleanupMark", "idle")

\* cleanupOperation: three recorded steps around the DROP.
CleanupMark(c) ==
    /\ call[c].pc = "cleanupMark"
    /\ TransitionDetached(c, "cleanup_required", "required", FALSE, FALSE,
                          "cleanupStart", "idle")

CleanupStart(c) ==
    /\ call[c].pc = "cleanupStart"
    /\ TransitionDetached(c, "cleanup_in_progress", "in_progress", TRUE, FALSE,
                          "dropRenew", "idle")

DropRenew(c) ==
    /\ call[c].pc = "dropRenew"
    /\ RenewForSideEffect(c, "drop", "idle")

Finalize(c) ==
    /\ call[c].pc = "finalize"
    /\ TransitionDetached(c, "not_created", "none", FALSE, TRUE, "idle",
                          IF call[c].reconciles THEN "persistFailure" ELSE "idle")

PersistCleanupFailure(c) ==
    /\ call[c].pc = "persistFailure"
    /\ TransitionDetached(c, "cleanup_required", "failed", FALSE, TRUE, "idle", "idle")

\* ActivateDatabaseProvisioningOperation: account row and stage in one transaction.
CanActivate(c) ==
    /\ call[c].fence.stage = "activation_pending"
    /\ call[c].fence.cleanup = "none"
    /\ FenceHolds(c)
    /\ ValidLease(row[call[c].op])

Activated(r) == [r EXCEPT !.stage = "active_managed", !.rev = r.rev + 1, !.token = 0, !.left = 0]

\* Two attempts with the same fence: the first may commit although it reports an error.
ActivateDetached(c) ==
    LET o == call[c].op
        again == IF call[c].pc = "activate" THEN "activateRetry" ELSE "releaseActivation"
    IN
    /\ call[c].pc \in {"activate", "activateRetry"}
    /\ \/ /\ CanActivate(c)
          /\ row' = [row EXCEPT ![o] = Activated(@)]
          /\ accounts' = accounts \cup {o}
          /\ \/ NoFault /\ GoTo(c, "idle")
             \/ Fault /\ GoTo(c, again)
       \/ /\ IF CanActivate(c) THEN Fault ELSE NoFault
          /\ GoTo(c, again)
          /\ UNCHANGED <<row, accounts>>
    /\ UNCHANGED <<upstream, granted>>

ReleaseActivationForReconcile(c) ==
    /\ call[c].pc = "releaseActivation"
    /\ TransitionDetached(c, "activation_pending", "none", TRUE, TRUE, "idle", "idle")

-----------------------------------------------------------------------------
(* The upstream MySQL server and the statements sent to it (external). *)

StatementOf == [create |-> "create", grant |-> "grant", drop |-> "drop", deprovDrop |-> "drop"]
AfterSuccess == [create |-> "recordCreated", grant |-> "recordPending",
                 drop |-> "finalize", deprovDrop |-> "complete"]
LostDropIsDone == [create |-> "markUncertain", grant |-> "cleanupMark",
                   drop |-> "persistFailure", deprovDrop |-> "complete"]

AfterUncertain == [create |-> "markUncertain", grant |-> "cleanupMark",
                   drop |-> "persistFailure", deprovDrop |-> "deferUncertain"]
AfterDeadline == [create |-> "idle", grant |-> "deferCleanup",
                  drop |-> "idle", deprovDrop |-> "deferUncertain"]
SideEffects == DOMAIN StatementOf

\* The side-effect context is already over: the statement is never sent.
SideEffectExpired(c) ==
    /\ call[c].pc \in SideEffects
    /\ call[c].sent = "none"
    /\ call[c].budget = 0
    /\ NoFault
    /\ GoTo(c, AfterDeadline[call[c].pc])
    /\ UNCHANGED <<row, accounts, upstream, granted>>

SendStatement(c) ==
    /\ call[c].pc \in SideEffects
    /\ call[c].sent = "none"
    /\ call[c].budget > 0
    /\ call' = [call EXCEPT ![c].sent = StatementOf[call[c].pc]]
    /\ UNCHANGED <<row, accounts, upstream, granted, faults>>

\* The connection fails or times out before the statement is sent, or the server
\* rejects the statement: always a GRANT to a user that does not exist.
StatementRefused(c) ==
    /\ call[c].pc \in SideEffects
    /\ ~call[c].done
    /\ call[c].budget > 0 \/ call[c].sent = "none"
    /\ IF \/ call[c].budget = 0
          \/ call[c].sent = "grant" /\ call[c].op \notin upstream
         THEN NoFault ELSE Fault
    /\ GoTo(c, IF call[c].pc = "create" THEN "discard" ELSE AfterUncertain[call[c].pc])
    /\ UNCHANGED <<row, accounts, upstream, granted>>

\* A statement is in flight while its deadline lasts, also when its sender crashed.
InFlight(c) == call[c].sent # "none" /\ ~call[c].done /\ call[c].budget > 0

UpstreamExecutes(c) ==
    LET o == call[c].op IN
    /\ InFlight(c)
    /\ call[c].sent = "grant" => o \in upstream
    /\ upstream' = CASE call[c].sent = "create" -> upstream \cup {o}
                     [] call[c].sent = "grant" -> upstream
                     [] call[c].sent = "drop" -> upstream \ {o}
    /\ granted' = CASE call[c].sent = "create" -> granted
                    [] call[c].sent = "grant" -> granted \cup {o}
                    [] call[c].sent = "drop" -> granted \ {o}
    /\ call' = [call EXCEPT ![c].done = TRUE]
    /\ UNCHANGED <<row, accounts, faults>>

StatementSucceeds(c) ==
    /\ call[c].pc \in SideEffects
    /\ call[c].done
    /\ NoFault
    /\ GoTo(c, AfterSuccess[call[c].pc])
    /\ UNCHANGED <<row, accounts, upstream, granted>>

\* No answer: the reply is lost, or the deadline passes.
StatementUncertain(c) ==
    /\ call[c].pc \in SideEffects
    /\ call[c].sent # "none"
    /\ IF call[c].budget > 0 THEN Fault ELSE NoFault
    /\ GoTo(c, AfterUncertain[call[c].pc])
    /\ UNCHANGED <<row, accounts, upstream, granted>>

-----------------------------------------------------------------------------
(* Reconcile: list, then claim each candidate under a new lease token. *)

\* Mutant of Executable: the list of recoverable stages misses create_uncertain.
ExecutableMissesUncertain(r) ==
    /\ ExpiredOrUnsetLease(r)
    /\ \/ r.stage = "activation_pending"
       \/ /\ r.stage \in ({"reserved"} \cup CleanupStages \cup DeprovisionStages)
                           \ {"create_uncertain"}
          /\ r.age >= StaleAfter

Executable(r) ==
    /\ ExpiredOrUnsetLease(r)
    /\ \/ r.stage = "activation_pending"
       \/ /\ r.stage \in {"reserved"} \cup CleanupStages \cup DeprovisionStages
          /\ r.age >= StaleAfter

ListExecutable(c, o) ==
    /\ call[c].pc = "idle"
    /\ Executable(row[o])
    /\ StartCall(c, "claim", o, row[o], 0, TRUE)
    /\ UNCHANGED <<row, accounts, upstream, granted, faults>>

Dispatch(stage) ==
    CASE stage = "reserved" -> "finalizeReserved"
      [] stage = "activation_pending" -> "activate"
      [] stage \in DeprovisionStages -> "deprovision"
      [] stage \in CleanupStages -> "reconcileCleanup"
      [] OTHER -> "idle"

\* Lease tokens are random strings; the revision of the claim is as fresh.
Claimed(r) == [r EXCEPT !.rev = r.rev + 1, !.token = r.rev + 1, !.left = LeaseDuration]

ClaimForReconcile(c) ==
    LET o == call[c].op
        can == FenceHolds(c) /\ ExpiredOrUnsetLease(row[o])
    IN
    /\ call[c].pc = "claim"
    /\ \/ /\ can
          /\ row' = [row EXCEPT ![o] = Claimed(@)]
          /\ \/ /\ call' = [call EXCEPT ![c].pc = Dispatch(row[o].stage),
                                        ![c].fence = Fence(Claimed(row[o])),
                                        ![c].own = Claimed(row[o]).token]
                /\ NoFault
             \/ Fault /\ GoTo(c, "idle")
       \/ /\ IF can THEN Fault ELSE NoFault
          /\ GoTo(c, "idle")
          /\ UNCHANGED row
    /\ UNCHANGED <<accounts, upstream, granted>>

FinalizeReserved(c) ==
    /\ call[c].pc = "finalizeReserved"
    /\ TransitionDetached(c, "not_created", "none", FALSE, TRUE, "idle", "idle")

\* The administrator or the audit intent may be unavailable before the cleanup starts.
ReconcileCleanup(c) ==
    /\ call[c].pc = "reconcileCleanup"
    /\ \/ /\ Fault
          /\ GoTo(c, "persistFailure")
          /\ UNCHANGED <<row, accounts, upstream, granted>>
       \/ TransitionDetached(c, "cleanup_in_progress", "in_progress", TRUE, FALSE,
                             "dropRenew", "idle")

-----------------------------------------------------------------------------
(* Deprovision. *)

BeginDatabaseDeprovision(c, o) ==
    LET new == [Claimed(row[o]) EXCEPT !.stage = "deprovision_requested"] IN
    /\ call[c].pc = "idle"
    /\ o \in accounts
    /\ row[o].stage = "active_managed"
    /\ row[o].cleanup = "none"
    /\ ExpiredOrUnsetLease(row[o])
    /\ row' = [row EXCEPT ![o] = new]
    /\ \/ NoFault /\ StartCall(c, "deprovision", o, new, new.token, FALSE)
       \/ Fault /\ UNCHANGED call
    /\ UNCHANGED <<accounts, upstream, granted>>

\* runDeprovision up to the recorded intent to DROP.
RunDeprovision(c) ==
    /\ call[c].pc = "deprovision"
    /\ \/ /\ \/ call[c].op \notin accounts /\ NoFault
             \/ Fault
          /\ GoTo(c, "idle")
          /\ UNCHANGED <<row, accounts, upstream, granted>>
       \/ /\ call[c].op \in accounts
          /\ Fault
          /\ GoTo(c, "deferUncertain")
          /\ UNCHANGED <<row, accounts, upstream, granted>>
       \/ /\ call[c].op \in accounts
          /\ call[c].fence.stage # "drop_started"
          /\ TransitionDetached(c, "drop_started", "in_progress", TRUE, FALSE,
                                "deprovRenew", "idle")
       \/ /\ call[c].op \in accounts
          /\ call[c].fence.stage = "drop_started"
          /\ NoFault
          /\ GoTo(c, IF call[c].fence.cleanup = "in_progress" THEN "deprovRenew" ELSE "idle")
          /\ UNCHANGED <<row, accounts, upstream, granted>>

DeprovisionRenew(c) ==
    /\ call[c].pc = "deprovRenew"
    /\ RenewForSideEffect(c, "deprovDrop", "deferUncertain")

\* CompleteDatabaseDeprovision: account and operation are soft-deleted together.
CompleteDatabaseDeprovision(c) ==
    LET o == call[c].op
        can == /\ call[c].fence.stage = "drop_started"
               /\ call[c].fence.cleanup = "in_progress"
               /\ FenceHolds(c)
               /\ ValidLease(row[o])
               /\ o \in accounts
    IN
    /\ call[c].pc = "complete"
    /\ \/ /\ can
          /\ row' = [row EXCEPT ![o] = [row[o] EXCEPT !.stage = "deleted", !.left = 0]]
          /\ accounts' = accounts \ {o}
          /\ \/ NoFault /\ GoTo(c, "idle")
             \/ Fault /\ GoTo(c, "deferUncertain")
       \/ /\ IF can THEN Fault ELSE NoFault
          /\ GoTo(c, "deferUncertain")
          /\ UNCHANGED <<row, accounts>>
    /\ UNCHANGED <<upstream, granted>>

DeferDropUncertain(c) ==
    /\ call[c].pc = "deferUncertain"
    /\ TransitionDetached(c, "drop_uncertain", "required", FALSE, TRUE, "idle", "idle")

-----------------------------------------------------------------------------
(* Crashes and time. *)

Running(c) == call[c].pc \notin {"idle", "crashed"}

\* The process dies; a statement it sent may still reach the server.
Crash(c) ==
    /\ Running(c)
    /\ Fault
    /\ call' = [call EXCEPT ![c] = IF InFlight(c) THEN [@ EXCEPT !.pc = "crashed"] ELSE NoCall]
    /\ UNCHANGED <<row, accounts, upstream, granted>>

Restart(c) ==
    /\ call[c].pc = "crashed"
    /\ ~InFlight(c)
    /\ NoFault
    /\ GoTo(c, "idle")
    /\ UNCHANGED <<row, accounts, upstream, granted>>

Less(n) == IF n = 0 THEN 0 ELSE n - 1

\* A running call reaches its lease expiry, its side-effect deadline or its detached
\* context's timeout only because it, the network or the server was slow.
DelaysCall == \E c \in Calls :
    /\ Running(c)
    /\ \/ row[call[c].op].left = 1 /\ row[call[c].op].token = call[c].fence.token
       \/ call[c].pc \in SideEffects /\ call[c].budget = 1
       \/ call[c].pc = "readback" /\ call[c].rb = 1

Tick ==
    /\ IF DelaysCall THEN Fault ELSE NoFault
    /\ row' = [o \in Ops |-> [row[o] EXCEPT !.left = Less(@),
                 !.age = IF row[o].stage \in {"absent", "deleted"} \/ @ >= StaleAfter THEN @ ELSE @ + 1]]
    /\ call' = [c \in Calls |-> [call[c] EXCEPT !.budget = Less(@), !.rb = Less(@)]]
    /\ UNCHANGED <<accounts, upstream, granted>>

-----------------------------------------------------------------------------
\* The steps of a call that is running.
Step(c) ==
    \/ ReadBack(c) \/ DiscardNotCreated(c) \/ RecordCreateStarted(c) \/ CreateRenew(c)
    \/ RecordCreated(c) \/ RecordGrantStarted(c) \/ GrantRenew(c)
    \/ DeferCleanupForReconcile(c) \/ RecordActivationPending(c)
    \/ RecordCreateUncertain(c) \/ CleanupMark(c) \/ CleanupStart(c) \/ DropRenew(c)
    \/ Finalize(c) \/ PersistCleanupFailure(c) \/ ActivateDetached(c)
    \/ ReleaseActivationForReconcile(c) \/ ClaimForReconcile(c) \/ FinalizeReserved(c)
    \/ ReconcileCleanup(c) \/ RunDeprovision(c) \/ DeprovisionRenew(c)
    \/ CompleteDatabaseDeprovision(c) \/ DeferDropUncertain(c)
    \/ SideEffectExpired(c) \/ SendStatement(c) \/ StatementSucceeds(c)
    \/ StatementUncertain(c) \/ StatementRefused(c) \/ Restart(c)

Next ==
    \/ \E c \in Calls, o \in Ops : ProvisionReserve(c, o)
    \/ \E c \in Calls, o \in Ops : ListExecutable(c, o)
    \/ \E c \in Calls, o \in Ops : BeginDatabaseDeprovision(c, o)
    \/ \E c \in Calls : Step(c)
    \/ \E c \in Calls : ProvisionCancelled(c)
    \/ \E c \in Calls : UpstreamExecutes(c)
    \/ \E c \in Calls : Crash(c)
    \/ Tick

Spec == Init /\ [][Next]_vars

(***************************************************************************)
(* Fairness: a running call keeps running, the server answers, time        *)
(* passes, and RunReconciler lists every executable row again and again    *)
(* (a round covers all of them), whatever the other calls do.              *)
(***************************************************************************)
Fairness ==
    /\ WF_vars(Tick)
    /\ \A c \in Calls : WF_vars(Step(c)) /\ WF_vars(UpstreamExecutes(c))
    /\ \A o \in Ops : SF_vars(\E c \in Calls : ListExecutable(c, o))

FairSpec == Spec /\ Fairness
-----------------------------------------------------------------------------
(* Correctness. *)

\* Every variable holds a value of its type.
TypeOK ==
    /\ row \in [Ops -> Rows]
    /\ accounts \in SUBSET Ops
    /\ upstream \in SUBSET Ops
    /\ granted \in SUBSET upstream
    /\ call \in [Calls -> CallRecords]
    /\ faults \in 0 .. MaxFaults

(***************************************************************************)
(* No MySQL user is left behind: once an operation is recorded as          *)
(* not_created or its account is deleted, and before its CREATE is         *)
(* recorded as started, the server has no user of it.  A lost reply, a     *)
(* crash between CREATE and its record, or a late CREATE would break this. *)
(***************************************************************************)
NoOrphan == \A o \in Ops :
    row[o].stage \in {"absent", "reserved", "not_created", "deleted"} => o \notin upstream

(***************************************************************************)
(* The account that users connect with exists exactly while its operation  *)
(* is active or being deprovisioned, and until a DROP is recorded as       *)
(* started its MySQL user exists and holds every grant.                    *)
(***************************************************************************)
ManagedAccountUsable == \A o \in Ops :
    /\ o \in accounts <=> row[o].stage \in {"active_managed"} \cup DeprovisionStages
    /\ row[o].stage \in {"activation_pending", "active_managed", "deprovision_requested"}
          => o \in granted

(***************************************************************************)
(* sideEffectTimeout keeps a CREATE inside the lease it was renewed under: *)
(* while it can still reach the server, no other worker has touched the    *)
(* row, even when the sender crashed.                                      *)
(***************************************************************************)
CreateUnderLease == \A c \in Calls :
    InFlight(c) /\ call[c].sent = "create"
        => FenceHolds(c) /\ row[call[c].op].left > call[c].budget

(***************************************************************************)
(* A worker acts only under a lease token the store granted to it.         *)
(***************************************************************************)
OnlyGrantedLeaseUsed == \A c \in Calls :
    Running(c) /\ call[c].pc # "claim" => call[c].fence.token = call[c].own

\* An operation is settled for good, or serves its account.
Settled(o) == row[o].stage \in {"absent", "not_created", "active_managed", "deleted"}

(***************************************************************************)
(* Whatever crashes and errors happened, the reconciler brings every       *)
(* started operation to an end.                                            *)
(***************************************************************************)
Converges == \A o \in Ops : []<>Settled(o)

(***************************************************************************)
(* The saga implements the lifecycle that AccountLifecycle promises: all   *)
(* the recorded stages, leases, retries and recoveries only ever move an   *)
(* account along it.                                                       *)
(***************************************************************************)
PhaseOf(stage) ==
    CASE stage = "absent" -> "none"
      [] stage = "activation_pending" -> "committed"
      [] stage = "not_created" -> "failed"
      [] stage = "active_managed" -> "active"
      [] stage = "deleted" -> "removed"
      [] stage \in DeprovisionStages -> "removing"
      [] OTHER -> "pending"

Lifecycle == INSTANCE AccountLifecycle
    WITH phase <- [o \in Ops |-> PhaseOf(row[o].stage)], users <- upstream

ImplementsLifecycle == Lifecycle!Spec

(* The three together: no MySQL user without an operation that will remove   *)
(* it, no managed account without its user and grants, no CREATE outside the *)
(* lease it was sent under.                                                  *)
AccountsAccountedFor == NoOrphan /\ ManagedAccountUsable /\ CreateUnderLease
=============================================================================
