--------------------------- MODULE UserManagement ---------------------------
(***************************************************************************)
(* The administrator's user management (internal/service/user.go,          *)
(* internal/store/dbstore_users.go) and the role bindings that hang on a   *)
(* user (the user-role half of internal/service/role.go).  Every operation *)
(* of UserService reads rows in one statement and writes them in a later   *)
(* one, without a transaction or a version check around the pair, and      *)
(* UpdateUser saves every column of the row it read.  Requests of several  *)
(* administrators interleave between the two statements.                   *)
(*                                                                         *)
(* A row keeps the columns the operations decide on.  live stands for      *)
(* active_marker = 1; a soft-deleted row stays in the table with           *)
(* live = FALSE.  Display name, e-mail, hashes and tokens are left out.    *)
(***************************************************************************)
EXTENDS Integers, FiniteSets, Functions

CONSTANTS
    UserIds,      \* identifiers model.NewID can hand out
    Names,        \* user names
    Editors,      \* administrators' requests that can be in progress at once
    Year,         \* the default lifetime, now.AddDate(1, 0, 0)
    MaxTime,      \* bound on the clock
    MaxRequests   \* bound on the number of requests the editors start

ASSUME UserManagementAssumption ==
    Year \in Nat \ {0} /\ MaxTime \in Nat /\ MaxRequests \in Nat

VARIABLES
    now,          \* the clock
    users,        \* users[u]: the row of u in the table users, or NoRow
    bound,        \* the users that have a row in user_roles
    edit,         \* edit[e]: the request editor e is in the middle of
    started       \* how many requests were started

vars == <<now, users, bound, edit, started>>

Never == -1       \* expires_at IS NULL
Unset == -2       \* a field the request leaves out

Times == 0 .. MaxTime + Year

Row == [name : Names, status : {"active", "disabled"}, expires : {Never} \cup Times,
        super : BOOLEAN, live : BOOLEAN]

NoRow == [name |-> "none", status |-> "none", expires |-> Never,
          super |-> FALSE, live |-> FALSE]

Idle == [pc |-> "idle", save |-> {}, user |-> {}, overlap |-> FALSE]

Exists(u) == users[u] # NoRow

(* model.NewID never returns an identifier twice. *)
Fresh(u) == ~Exists(u) /\ \A f \in Editors : u \notin edit[f].user

(* ActiveScope: the row is there and not soft-deleted. *)
Live(u) == Exists(u) /\ users[u].live

(* User.IsExpired *)
IsExpired(row, t) == row.expires # Never /\ row.expires <= t

(* The unique index over (username, active_marker): NULL markers never     *)
(* collide.                                                                *)
NameFree(name, u) == \A v \in UserIds \ {u} : Live(v) => users[v].name # name

Saves == [user : UserIds, row : Row]

(***************************************************************************)
(* A request that has read what it needs: the rows it will save, in any    *)
(* order, or the user it will delete or bind.  overlap is a ghost: a       *)
(* deletion of one of its users committed after the request read the row.  *)
(***************************************************************************)
Pending(pc, save, who) == [pc |-> pc, save |-> save, user |-> who, overlap |-> FALSE]

Begin(e, req) ==
    /\ edit[e] = Idle
    /\ started < MaxRequests
    /\ edit' = [edit EXCEPT ![e] = req]
    /\ started' = started + 1
    /\ UNCHANGED <<now, users, bound>>

(* userExpiry: nothing for a permanent user, a year from now by default,   *)
(* the requested instant if it lies ahead; the empty set is ErrInvalidUser *)
UserExpiry(permanent, requested) ==
    IF permanent THEN {Never}
    ELSE {t \in Times : /\ t = IF requested = Unset THEN now + Year ELSE requested
                        /\ t > now}

(* UserService.Create up to the INSERT: the name is looked up, the expiry  *)
(* computed.                                                               *)
BeginCreate(e, name, permanent, requested) ==
    \E u \in UserIds :
        /\ Fresh(u)
        /\ ~ \E v \in UserIds : Live(v) /\ users[v].name = name
        /\ \E t \in UserExpiry(permanent, requested) :
              LET row == [name |-> name, status |-> "active", expires |-> t,
                          super |-> FALSE, live |-> TRUE]
              IN  Begin(e, Pending("create", {[user |-> u, row |-> row]}, {u}))

MutantCreateUser(e) ==
    /\ edit[e].pc = "create"
    /\ \E s \in edit[e].save : users' = [users EXCEPT ![s.user] = s.row]
    /\ edit' = [edit EXCEPT ![e] = Idle]
    /\ UNCHANGED <<now, bound, started>>

(* CreateUser: the INSERT, or a conflict on the index. *)
CreateUser(e) ==
    /\ edit[e].pc = "create"
    /\ \E s \in edit[e].save :
          users' = IF NameFree(s.row.name, s.user) THEN [users EXCEPT ![s.user] = s.row] ELSE users
    /\ edit' = [edit EXCEPT ![e] = Idle]
    /\ UNCHANGED <<now, bound, started>>

(***************************************************************************)
(* The row UserService.Update wants to save, from the row it read and the  *)
(* fields of the request; the empty set when it refuses.                   *)
(***************************************************************************)
UpdatedExpiry(row, permanent, requested) ==
    CASE permanent = "yes" -> {Never}
      [] permanent = "no" -> UserExpiry(FALSE, requested)
      [] permanent = "unset" -> {IF requested = Unset THEN row.expires ELSE requested}

UpdatedRow(row, permanent, requested, status) ==
    LET Extend(t) == IF status = "active" /\ ~row.super /\ (t = Never \/ t <= now)
                     THEN now + Year ELSE t
        Refused(t) == \/ status \notin {"unset", "active", "disabled"}
                      \/ status = "disabled" /\ row.super
                      \/ t # Never /\ t <= now /\ status # "disabled"
    IN  {[row EXCEPT !.expires = Extend(t),
                     !.status = IF status = "unset" THEN row.status ELSE status] :
            t \in {s \in UpdatedExpiry(row, permanent, requested) : ~Refused(Extend(s))}}

MutantBeginUpdate(e, u, permanent, requested, status) ==
    /\ Exists(u)
    /\ \E row \in UpdatedRow(users[u], permanent, requested, status) :
          Begin(e, Pending("save", {[user |-> u, row |-> [row EXCEPT !.live = TRUE]]}, {u}))

(* UserService.Update up to the save: find, then every field.              *)
BeginUpdate(e, u, permanent, requested, status) ==
    /\ Live(u)
    /\ \E row \in UpdatedRow(users[u], permanent, requested, status) :
          Begin(e, Pending("save", {[user |-> u, row |-> row]}, {u}))

(***************************************************************************)
(* UserService.List and Get: every user read that is past its expiry is    *)
(* disabled (disableExpiredUser) with a save of the row just read.         *)
(***************************************************************************)
ReadExpired(read) ==
    {u \in read : ~users[u].super /\ users[u].status = "active" /\ IsExpired(users[u], now)}

BeginRead(e, read) ==
    /\ \A u \in read : Live(u)
    /\ ReadExpired(read) # {}
    /\ Begin(e, Pending("save",
                        {[user |-> u, row |-> [users[u] EXCEPT !.status = "disabled"]] :
                            u \in ReadExpired(read)},
                        ReadExpired(read)))

(***************************************************************************)
(* UpdateUser: Save writes every column of the row that was read, the      *)
(* active marker included.  A conflict on the index ends the request, and  *)
(* a page of users is saved one by one.                                    *)
(***************************************************************************)
UpdateUser(e) ==
    /\ edit[e].pc = "save"
    /\ \E s \in edit[e].save :
          LET rest == edit[e].save \ {s}
              free == NameFree(s.row.name, s.user)
          IN  /\ users' = IF free THEN [users EXCEPT ![s.user] = s.row] ELSE users
              /\ edit' = [edit EXCEPT ![e] = IF free /\ rest # {}
                                             THEN [@ EXCEPT !.save = rest] ELSE Idle]
    /\ UNCHANGED <<now, bound, started>>

(* UserService.Delete up to the transaction: not oneself (the editors are  *)
(* not among UserIds), found, and no super administrator.                  *)
BeginDelete(e, u) ==
    /\ Live(u)
    /\ ~users[u].super
    /\ Begin(e, Pending("delete", {}, {u}))

(* DeleteUser: one transaction removes the role bindings and soft-deletes  *)
(* the row if it is still active; the ghost marks the requests that hold   *)
(* the row.                                                                *)
DeleteUser(e) ==
    /\ edit[e].pc = "delete"
    /\ \E u \in edit[e].user :
          /\ bound' = bound \ {u}
          /\ users' = [users EXCEPT ![u] = IF @.live
                            THEN [@ EXCEPT !.live = FALSE, !.status = "disabled"] ELSE @]
          /\ edit' = [f \in Editors |->
                         IF f = e THEN Idle
                         ELSE IF u \in edit[f].user THEN [edit[f] EXCEPT !.overlap = TRUE]
                         ELSE edit[f]]
    /\ UNCHANGED <<now, started>>

(* RoleService.CreateUserRole and DeleteUserRole, each a lookup that joins *)
(* the active user and a write that does not.                              *)
BeginBind(e, u) == Live(u) /\ Begin(e, Pending("bind", {}, {u}))
BeginUnbind(e, u) == Live(u) /\ u \in bound /\ Begin(e, Pending("unbind", {}, {u}))

WriteBinding(e) ==
    /\ edit[e].pc \in {"bind", "unbind"}
    /\ bound' = IF edit[e].pc = "bind" THEN bound \cup edit[e].user
                                       ELSE bound \ edit[e].user
    /\ edit' = [edit EXCEPT ![e] = Idle]
    /\ UNCHANGED <<now, users, started>>

(* A statement fails or the client goes away: the request ends where it is. *)
Abandon(e) ==
    /\ edit[e] # Idle
    /\ edit' = [edit EXCEPT ![e] = Idle]
    /\ UNCHANGED <<now, users, bound, started>>

Tick ==
    /\ now < MaxTime
    /\ now' = now + 1
    /\ UNCHANGED <<users, bound, edit, started>>

(* One super administrator (the first set-up) and one ordinary user.       *)
Init ==
    /\ now = 0
    /\ \E admin, u \in UserIds, n, m \in Names, t \in {Never, 1} :
          /\ admin # u /\ n # m
          /\ users = [v \in UserIds |->
                CASE v = admin -> [name |-> n, status |-> "active", expires |-> Never,
                                   super |-> TRUE, live |-> TRUE]
                  [] v = u -> [name |-> m, status |-> "active", expires |-> t,
                               super |-> FALSE, live |-> TRUE]
                  [] OTHER -> NoRow]
          /\ bound \in SUBSET {u}
    /\ edit = [e \in Editors |-> Idle]
    /\ started = 0

BeginRequest(e) ==
    \/ \E n \in Names, p \in BOOLEAN, t \in {Unset} \cup (1 .. MaxTime) : BeginCreate(e, n, p, t)
    \/ \E u \in UserIds :
          \/ \E p \in {"yes", "no", "unset"}, t \in {Unset} \cup (0 .. MaxTime),
                s \in {"active", "disabled", "other", "unset"} : BeginUpdate(e, u, p, t, s)
          \/ BeginDelete(e, u)
          \/ BeginBind(e, u)
          \/ BeginUnbind(e, u)
    \/ \E read \in SUBSET UserIds : BeginRead(e, read)

Next ==
    \/ Tick
    \/ \E e \in Editors :
          \/ BeginRequest(e)
          \/ CreateUser(e)
          \/ UpdateUser(e)
          \/ DeleteUser(e)
          \/ WriteBinding(e)
          \/ Abandon(e)

Spec == Init /\ [][Next]_vars

-----------------------------------------------------------------------------
\* Every variable holds a value of its type.
TypeOK ==
    /\ now \in 0 .. MaxTime
    /\ users \in [UserIds -> Row \cup {NoRow}]
    /\ bound \in SUBSET UserIds
    /\ edit \in [Editors -> [pc : {"idle", "create", "save", "delete", "bind", "unbind"},
                             save : SUBSET Saves, user : SUBSET UserIds, overlap : BOOLEAN]]
    /\ started \in 0 .. MaxRequests

(* Two active users never share a name, whatever order their creations, a  *)
(* deletion that frees a name and a late save of the deleted row commit in *)
(* (idx_users_username_active and the conflict path of UpdateUser).        *)
UniqueLiveName ==
    \A u, v \in UserIds : (Live(u) /\ Live(v) /\ u # v) => users[u].name # users[v].name

(* The super administrator stays active and is never deleted, also when a  *)
(* row that was read before is saved late (the refusals of Update, Delete  *)
(* and disableExpiredUser).                                                *)
SuperAdminStays ==
    \E u \in UserIds : Live(u) /\ users[u].super /\ users[u].status = "active"

(* A soft-deleted user only becomes active again through the save of a     *)
(* request that had read the row before the deletion: an update that       *)
(* starts after the deletion does not find the user.                       *)
OnlyOverlappingSaveRevives ==
    [][\A u \in UserIds : (Exists(u) /\ ~Live(u) /\ users'[u].live) =>
          \E e \in Editors : /\ edit[e].pc = "save" /\ edit[e].overlap
                             /\ u \in edit[e].user]_vars

(* A user that was deleted stays deleted: its tombstone blocks             *)
(* authentication and identity for good.                                   *)
DeletedStaysDeleted ==
    [][\A u \in UserIds : (Exists(u) /\ ~Live(u)) => ~users'[u].live]_vars

(* The user table keeps both of its promises: a name names one live user,    *)
(* and an active super administrator is left.                                *)
DirectorySafe == UniqueLiveName /\ SuperAdminStays
=============================================================================
