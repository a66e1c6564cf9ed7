--------------------------- MODULE AccessControl ---------------------------
(***************************************************************************)
(* Who may do what: roles and permissions, user groups, resource groups,   *)
(* resource grants, and the two ways the code decides a request            *)
(* (internal/rbac, internal/service/authorization.go, role.go,             *)
(* user_group.go, resource_group.go, resource_grant.go, their repositories *)
(* in internal/store and their handlers in internal/server/admin).         *)
(*                                                                         *)
(* Every management request is two moments: the service reads and checks,  *)
(* then the repository writes, in one transaction, what the service made   *)
(* of the rows it had read.  Nothing holds the two together, so another    *)
(* request may write in between.  A request that the checks refuse changes *)
(* nothing and is left out.                                                *)
(*                                                                         *)
(* Rows keep what a decision reads.  live is active_marker = 1; a name is  *)
(* kept only for resource groups, because a resource belongs to a group by *)
(* name.  Roles and user groups are identified by their id, so the check   *)
(* of their names' uniqueness is left out.                                 *)
(***************************************************************************)
EXTENDS Naturals, FiniteSets

CONSTANTS
    Users, SuperAdmins,  \* user ids, and those FindIdentitySubject calls super
    Roles, Perms,        \* ids of roles and permissions
    UserGroups,          \* ids of user groups
    ResGroups,           \* ids of resource groups
    Resources,           \* ids of hosts, accounts, endpoints, ...
    KindOf,              \* KindOf[x]: the resource_type of x
    ParentOf,            \* ParentOf[x]: the host or instance of an account x
    Actions,             \* the actions of the permission catalog
    Names,               \* names of resource groups
    PermRows,            \* what an administrator may write into a permission
    GrantRows,           \* what an administrator may write into a grant
    Editors,             \* requests that can be in progress at once
    MaxOps               \* bound on the number of requests

VARIABLES
    user,      \* user[u]: "active", "disabled", "expired" or "gone" (soft-deleted)
    role,      \* role[r]: [live, status]
    perm,      \* perm[p]: [live, row], row one of PermRows
    userRole,  \* the bindings <<u, r>> of the table user_roles
    lapsed,    \* <<b, clock>>: the query that compares with clock takes b for expired
    rolePerm,  \* the bindings <<r, p>> of the table role_permissions
    ugroup,    \* ugroup[g]: "none", "live" or "dead" (soft-deleted)
    member,    \* the pairs <<g, u>> of user_group_members
    rgroup,    \* rgroup[g]: [live, name, type]
    res,       \* res[x]: [live, group], group a name or NoName
    grant,     \* grant[w]: [state, id], state "none", "live" or "lapsed" (expired)
    req,       \* req[e]: the request in progress, with the rows it read
    ops,       \* how many requests were started
    overlap    \* ghost: a group was written from a row that had changed

tables == <<user, role, perm, userRole, lapsed, rolePerm, ugroup, member,
            rgroup, res, grant>>
vars == <<user, role, perm, userRole, lapsed, rolePerm, ugroup, member, rgroup,
          res, grant, req, ops, overlap>>

NoName == ""
NoPerm == [action |-> "", type |-> "", id |-> "", effect |-> "allow"]
AccountKinds == {"host_account", "database_account"}
Idle == [op |-> "idle"]

-----------------------------------------------------------------------------
(***************************************************************************)
(* What is active.                                                         *)
(***************************************************************************)
LiveUser(u) == user[u] # "gone"

(* IdentityService.FindIdentitySubject: the row is live, its status is     *)
(* active and it has not expired, which does not stop a super              *)
(* administrator.                                                          *)
FindIdentitySubject(u) == user[u] = "active" \/ (user[u] = "expired" /\ u \in SuperAdmins)

(* The expiry of a binding is compared with the time in UTC by the checker *)
(* and, on SQLite, where times are text, with the local time by the        *)
(* console's query.                                                        *)
Clocks == {"utc", "local"}
ActiveResourceExists(x) ==
    /\ res[x].live
    /\ KindOf[x] \in AccountKinds => res[ParentOf[x]].live

(* A resource belongs to a resource group through its own name, an account *)
(* through that of its host or instance.                                   *)
HolderOf(x) == IF KindOf[x] \in AccountKinds THEN ParentOf[x] ELSE x

-----------------------------------------------------------------------------
(***************************************************************************)
(* The single decision: Checker and ResourceGrantChecker.                  *)
(***************************************************************************)
PermissionsForUser(u) ==
    {perm[p].row : p \in {q \in Perms :
        /\ perm[q].live
        /\ LiveUser(u)
        /\ \E r \in Roles : /\ <<r, q>> \in rolePerm
                            /\ <<u, r>> \in userRole
                            /\ <<<<u, r>>, "utc">> \notin lapsed
                            /\ role[r].live
                            /\ role[r].status = "active"}}

ActionMatches(granted, a) == granted = a \/ granted = "*"

IsActionOnly(row) == row.type = "" /\ row.id = ""

(* Checker.groupContainsResource: by the name of the group whatever its    *)
(* type; container endpoints are not looked up.                            *)
PermissionGroupContains(g, x) ==
    /\ rgroup[g].live
    /\ ActiveResourceExists(x)
    /\ KindOf[x] # "container_endpoint"
    /\ res[HolderOf(x)].group = rgroup[g].name

ResourceMatches(row, x) ==
    \/ row.type \in {KindOf[x], "*"} /\ row.id \in {x, "*"}
    \/ row.type = "group" /\ row.id \in ResGroups /\ PermissionGroupContains(row.id, x)

(* HasPermissionContext(user, action, "", "") *)
HasPermission(u, a) ==
    LET rows == {w \in PermissionsForUser(u) : IsActionOnly(w) /\ ActionMatches(w.action, a)}
    IN  /\ \A w \in rows : w.effect # "deny"
        /\ \E w \in rows : w.effect = "allow"

HasDeny(u, a, x) ==
    /\ ActiveResourceExists(x)
    /\ \E w \in PermissionsForUser(u) :
          /\ w.effect = "deny"
          /\ ActionMatches(w.action, a)
          /\ IsActionOnly(w) \/ ResourceMatches(w, x)

(* directGrantsForUser and temporaryGrantsForUser: the grant of a          *)
(* temporary account acts as a direct allow of its user that expires.      *)
DirectGrants(u) ==
    {w \in GrantRows : grant[w].state = "live" /\ w.ptype = "user" /\ w.pid = u /\ LiveUser(u)}

GroupGrants(u) ==
    {w \in GrantRows : /\ grant[w].state = "live"
                       /\ w.ptype = "user_group"
                       /\ ugroup[w.pid] = "live"
                       /\ <<w.pid, u>> \in member
                       /\ LiveUser(u)}

(* ResourceGrantChecker.groupContainsResource: a resource group holds      *)
(* hosts, instances, applications and container endpoints; an account      *)
(* group holds accounts by the account's own group_name.                   *)
GrantGroupContains(g, x, type) ==
    /\ rgroup[g].live
    /\ rgroup[g].type = type
    /\ ActiveResourceExists(x)
    /\ IF type = "account"
         THEN /\ KindOf[x] \in AccountKinds \cup {"platform_account"}
              /\ res[x].group = rgroup[g].name
         ELSE /\ KindOf[x] # "platform_account"
              /\ res[HolderOf(x)].group = rgroup[g].name

MatchesGrant(w, x) ==
    \/ w.type \in {KindOf[x], "*"} /\ w.id \in {x, "*"}
    \/ w.type = "host" /\ KindOf[x] = "host_account" /\ ParentOf[x] = w.id
                       /\ ActiveResourceExists(x)
    \/ w.type = "database_instance" /\ KindOf[x] = "database_account"
                       /\ ParentOf[x] = w.id /\ ActiveResourceExists(x)
    \/ w.type = "group" /\ w.id \in ResGroups /\ GrantGroupContains(w.id, x, "resource")
    \/ w.type = "account_group" /\ w.id \in ResGroups
                                /\ GrantGroupContains(w.id, x, "account")

HasGrant(u, x) ==
    LET rows == {w \in DirectGrants(u) \cup GroupGrants(u) : MatchesGrant(w, x)}
    IN  /\ ActiveResourceExists(x)
        /\ \A w \in rows : w.effect # "deny"
        /\ \E w \in rows : w.effect = "allow"

(* AuthorizationService.Authorize for a concrete resource. *)
Authorize(u, as, x) ==
    LET global == {a \in as : HasPermission(u, a)}
        usable == {a \in global : ~HasDeny(u, a, x)}
    IN  CASE ~FindIdentitySubject(u) -> "invalid_identity"
          [] FindIdentitySubject(u) /\ u \in SuperAdmins -> "super_admin"
          [] FindIdentitySubject(u) /\ u \notin SuperAdmins /\ global = {} -> "action_denied"
          [] FindIdentitySubject(u) /\ u \notin SuperAdmins /\ global # {} /\ usable = {}
                -> "resource_denied"
          [] OTHER -> IF HasGrant(u, x) THEN "allowed" ELSE "resource_denied"

(* AuthorizationService.Authorize without a resource (requirePermission).  *)
AuthorizeAction(u, as) ==
    CASE ~FindIdentitySubject(u) -> "invalid_identity"
      [] FindIdentitySubject(u) /\ u \in SuperAdmins -> "super_admin"
      [] FindIdentitySubject(u) /\ u \notin SuperAdmins /\ \A a \in as : ~HasPermission(u, a)
            -> "action_denied"
      [] OTHER -> "allowed"

Allowed(decision) == decision \in {"allowed", "super_admin"}

-----------------------------------------------------------------------------
(***************************************************************************)
(* The batch decision: loadBatchFacts reads what the requested resources   *)
(* need once, and every decision is taken from those maps.                 *)
(***************************************************************************)
LoadBatchFacts(xs) ==
    [active |-> {x \in xs : ActiveResourceExists(x)},
     permissionOf |-> [x \in xs |-> IF ActiveResourceExists(x)
                                       /\ KindOf[x] # "container_endpoint"
                                      THEN res[HolderOf(x)].group ELSE NoName],
     resourceOf |-> [x \in xs |-> IF ActiveResourceExists(x) /\ KindOf[x] # "platform_account"
                                    THEN res[HolderOf(x)].group ELSE NoName],
     accountOf |-> [x \in xs |-> IF ActiveResourceExists(x)
                                    /\ KindOf[x] \in AccountKinds \cup {"platform_account"}
                                   THEN res[x].group ELSE NoName],
     parentOf |-> [x \in xs |-> IF ActiveResourceExists(x) /\ KindOf[x] \in AccountKinds
                                  THEN ParentOf[x] ELSE NoName]]

BatchPermissionMatches(row, x, facts) ==
    /\ x \in facts.active
    /\ \/ row.type \in {KindOf[x], "*"} /\ row.id \in {x, "*"}
       \/ /\ row.type = "group" /\ row.id \in ResGroups
          /\ rgroup[row.id].live
          /\ rgroup[row.id].name = facts.permissionOf[x]

(* batchFacts.groupMatches: the group is live, of the wanted type, and its *)
(* name is the one the facts hold for x.                                   *)
GroupMatches(g, type, name) ==
    /\ g \in ResGroups
    /\ rgroup[g].live
    /\ rgroup[g].type = type
    /\ rgroup[g].name = name

BatchGrantMatches(w, x, facts) ==
    /\ x \in facts.active
    /\ \/ w.type \in {KindOf[x], "*"} /\ w.id \in {x, "*"}
       \/ w.type = "host" /\ KindOf[x] = "host_account" /\ facts.parentOf[x] = w.id
       \/ w.type = "database_instance" /\ KindOf[x] = "database_account"
                                       /\ facts.parentOf[x] = w.id
       \/ w.type = "group" /\ KindOf[x] # "platform_account"
                           /\ GroupMatches(w.id, "resource", facts.resourceOf[x])
       \/ w.type = "account_group" /\ GroupMatches(w.id, "account", facts.accountOf[x])

(* BatchActionDecisionsContext: per action, whether it is allowed globally *)
(* and whether it is denied on this resource.                              *)
BatchActionDecision(u, as, x, facts) ==
    LET rows == PermissionsForUser(u)
        global(a) == {w \in rows : ActionMatches(w.action, a) /\ IsActionOnly(w)}
        allowed == {a \in as : /\ \E w \in global(a) : w.effect = "allow"
                               /\ \A w \in global(a) : w.effect # "deny"}
        denied(a) == \E w \in rows : /\ ActionMatches(w.action, a)
                                     /\ ~IsActionOnly(w)
                                     /\ w.effect = "deny"
                                     /\ BatchPermissionMatches(w, x, facts)
    IN  [actionAllowed |-> allowed # {},
         allowed |-> x \in facts.active /\ \E a \in allowed : ~denied(a)]

BatchGrant(u, x, facts) ==
    LET rows == {w \in DirectGrants(u) \cup GroupGrants(u) : BatchGrantMatches(w, x, facts)}
    IN  (\E w \in rows : w.effect = "allow") /\ (\A w \in rows : w.effect # "deny")

AuthorizeBatch(u, as, xs) ==
    LET facts == LoadBatchFacts(xs)
    IN  [x \in xs |->
          LET action == BatchActionDecision(u, as, x, facts)
          IN  CASE ~FindIdentitySubject(u) -> "invalid_identity"
                [] FindIdentitySubject(u) /\ u \in SuperAdmins -> "super_admin"
                [] FindIdentitySubject(u) /\ u \notin SuperAdmins /\ ~action.actionAllowed
                     -> "action_denied"
                [] FindIdentitySubject(u) /\ u \notin SuperAdmins /\ action.actionAllowed
                     /\ ~(action.allowed /\ BatchGrant(u, x, facts)) -> "resource_denied"
                [] OTHER -> "allowed"]

-----------------------------------------------------------------------------
(***************************************************************************)
(* What the console shows.                                                 *)
(***************************************************************************)
(* DBStore.EffectiveGlobalPermissions: a query of its own, which also asks *)
(* for the user's status, does not ask for the user's expiry, and compares *)
(* the expiry of a binding with another clock.                             *)
EffectiveGlobalPermissions(u) ==
    {perm[p].row : p \in {q \in Perms :
        /\ perm[q].live
        /\ user[u] \in {"active", "expired"}
        /\ IsActionOnly(perm[q].row)
        /\ perm[q].row.action # ""
        /\ \E r \in Roles : /\ <<r, q>> \in rolePerm
                            /\ <<u, r>> \in userRole
                            /\ <<<<u, r>>, "local">> \notin lapsed
                            /\ role[r].live
                            /\ role[r].status = "active"}}

(* effectiveActions: "*" stands for the whole catalog when nothing is      *)
(* denied.                                                                 *)
EffectiveActions(u) ==
    LET rows == EffectiveGlobalPermissions(u)
        denies == {w.action : w \in {v \in rows : v.effect = "deny"}}
        allows == {w.action : w \in {v \in rows : v.effect # "deny"}}
    IN  IF "*" \in denies THEN {}
        ELSE IF "*" \in allows /\ denies = {} THEN {"*"}
        ELSE ((IF "*" \in allows THEN Actions ELSE {}) \cup (allows \ {"*"})) \ denies

ChildrenOf(h) == {x \in Resources : KindOf[x] \in AccountKinds /\ ParentOf[x] = h}

(* visibleHosts and visibleDatabaseInstancesForActions: the parents listed *)
(* are those visible themselves or with a visible account.                 *)
VisibleParents(u, parents, view, accountView) ==
    LET all == {x \in UNION {ChildrenOf(h) : h \in parents} : ActiveResourceExists(x)}
        own == AuthorizeBatch(u, {view}, parents)
        sub == AuthorizeBatch(u, {accountView}, all)
    IN  {h \in parents : Allowed(own[h]) \/ \E x \in all : ParentOf[x] = h /\ Allowed(sub[x])}

(* hostVisible and databaseInstanceVisible: one parent, one question after *)
(* another.                                                                *)
ParentVisible(u, h, view, accountView) ==
    \/ Allowed(Authorize(u, {view}, h))
    \/ \E x \in ChildrenOf(h) :
          ActiveResourceExists(x) /\ Allowed(Authorize(u, {accountView}, x))

-----------------------------------------------------------------------------
(***************************************************************************)
(* Requests.  Begin is the service up to the repository's write, Write the *)
(* end of the request.                                                     *)
(***************************************************************************)
Begin(e, r) ==
    /\ req[e] = Idle
    /\ ops < MaxOps
    /\ ops' = ops + 1
    /\ req' = [req EXCEPT ![e] = r]
    /\ UNCHANGED <<tables, overlap>>

Write(e, op) ==
    /\ req[e].op = op
    /\ req' = [req EXCEPT ![e] = Idle]
    /\ UNCHANGED ops

-----------------------------------------------------------------------------
(* Roles and permissions: RoleService. *)

BeginCreateRole(e) ==
    \E r \in Roles, s \in {"active", "disabled"} :
       role[r] = [live |-> FALSE, status |-> "none"]
       /\ Begin(e, [op |-> "createRole", id |-> r, status |-> s])

CreateRole(e) ==
    /\ Write(e, "createRole")
    /\ role' = IF role[req[e].id].status = "none"
                 THEN [role EXCEPT ![req[e].id] = [live |-> TRUE, status |-> req[e].status]]
                 ELSE role
    /\ UNCHANGED <<user, perm, userRole, lapsed, rolePerm, ugroup, member, rgroup,
                   res, grant, overlap>>

(* findRole, then a new model.Role is made from the request alone. *)
BeginUpdateRole(e) ==
    \E r \in Roles, s \in {"active", "disabled"} :
       role[r].live /\ Begin(e, [op |-> "updateRole", id |-> r, status |-> s])

(* UpdateRole saves every column of the row roleFromInput made, which has  *)
(* no active_marker: the role is no longer active afterwards.              *)
UpdateRole(e) ==
    /\ Write(e, "updateRole")
    /\ role' = [role EXCEPT ![req[e].id] = [live |-> FALSE, status |-> req[e].status]]
    /\ UNCHANGED <<user, perm, userRole, lapsed, rolePerm, ugroup, member, rgroup,
                   res, grant, overlap>>

BeginDeleteRole(e) ==
    \E r \in Roles : role[r].live /\ Begin(e, [op |-> "deleteRole", id |-> r])

DeleteRole(e) ==
    /\ Write(e, "deleteRole")
    /\ LET r == req[e].id
       IN  /\ rolePerm' = {b \in rolePerm : b[1] # r}
           /\ userRole' = {b \in userRole : b[2] # r}
           /\ lapsed' = {l \in lapsed : l[1][2] # r}
           /\ role' = [role EXCEPT ![r].live = FALSE]
    /\ UNCHANGED <<user, perm, ugroup, member, rgroup, res, grant, overlap>>

BeginCreatePermission(e) ==
    \E p \in Perms, w \in PermRows :
       perm[p].row = NoPerm /\ Begin(e, [op |-> "createPermission", id |-> p, row |-> w])

(* idx_permissions_logic_active: no two live permissions say the same. *)
PermissionFree(w, p) == \A q \in Perms \ {p} : ~(perm[q].live /\ perm[q].row = w)

CreatePermission(e) ==
    /\ Write(e, "createPermission")
    /\ perm' = IF PermissionFree(req[e].row, req[e].id) /\ perm[req[e].id].row = NoPerm
                 THEN [perm EXCEPT ![req[e].id] = [live |-> TRUE, row |-> req[e].row]]
                 ELSE perm
    /\ UNCHANGED <<user, role, userRole, lapsed, rolePerm, ugroup, member, rgroup,
                   res, grant, overlap>>

BeginUpdatePermission(e) ==
    \E p \in Perms, w \in PermRows :
       perm[p].live /\ Begin(e, [op |-> "updatePermission", id |-> p, row |-> w])

(* As UpdateRole: the saved row has no active_marker. *)
UpdatePermission(e) ==
    /\ Write(e, "updatePermission")
    /\ perm' = [perm EXCEPT ![req[e].id] = [live |-> FALSE, row |-> req[e].row]]
    /\ UNCHANGED <<user, role, userRole, lapsed, rolePerm, ugroup, member, rgroup,
                   res, grant, overlap>>

BeginDeletePermission(e) ==
    \E p \in Perms : perm[p].live /\ Begin(e, [op |-> "deletePermission", id |-> p])

DeletePermission(e) ==
    /\ Write(e, "deletePermission")
    /\ rolePerm' = {b \in rolePerm : b[2] # req[e].id}
    /\ perm' = [perm EXCEPT ![req[e].id].live = FALSE]
    /\ UNCHANGED <<user, role, userRole, lapsed, ugroup, member, rgroup, res, grant,
                   overlap>>

BeginCreateUserRole(e) ==
    \E u \in Users, r \in Roles :
       LiveUser(u) /\ role[r].live /\ Begin(e, [op |-> "createUserRole", pair |-> <<u, r>>])

CreateUserRole(e) ==
    /\ Write(e, "createUserRole")
    /\ userRole' = userRole \cup {req[e].pair}
    /\ UNCHANGED <<user, role, perm, lapsed, rolePerm, ugroup, member, rgroup, res,
                   grant, overlap>>

(* FindUserRole joins the live user and the live role. *)
BeginDeleteUserRole(e) ==
    \E b \in userRole :
       LiveUser(b[1]) /\ role[b[2]].live /\ Begin(e, [op |-> "deleteUserRole", pair |-> b])

DeleteUserRole(e) ==
    /\ Write(e, "deleteUserRole")
    /\ userRole' = userRole \ {req[e].pair}
    /\ lapsed' = {l \in lapsed : l[1] # req[e].pair}
    /\ UNCHANGED <<user, role, perm, rolePerm, ugroup, member, rgroup, res, grant,
                   overlap>>

BeginCreateRolePermission(e) ==
    \E r \in Roles, p \in Perms :
       role[r].live /\ perm[p].live
       /\ Begin(e, [op |-> "createRolePermission", pair |-> <<r, p>>])

CreateRolePermission(e) ==
    /\ Write(e, "createRolePermission")
    /\ rolePerm' = rolePerm \cup {req[e].pair}
    /\ UNCHANGED <<user, role, perm, userRole, lapsed, ugroup, member, rgroup, res,
                   grant, overlap>>

BeginDeleteRolePermission(e) ==
    \E b \in rolePerm :
       role[b[1]].live /\ perm[b[2]].live
       /\ Begin(e, [op |-> "deleteRolePermission", pair |-> b])

DeleteRolePermission(e) ==
    /\ Write(e, "deleteRolePermission")
    /\ rolePerm' = rolePerm \ {req[e].pair}
    /\ UNCHANGED <<user, role, perm, userRole, lapsed, ugroup, member, rgroup, res,
                   grant, overlap>>

BeginReplaceActions(e) ==
    \E r \in Roles, as \in SUBSET Actions :
       role[r].live /\ Begin(e, [op |-> "replaceActions", id |-> r, actions |-> as])

ActionAllow(a) == [action |-> a, type |-> "", id |-> "", effect |-> "allow"]

(* replaceRoleActions: under the lock of the role row every binding to an  *)
(* action-only allow goes, and each requested action is bound to the       *)
(* permission that has it, or to a new one.  A role that is no longer      *)
(* live is an error and changes nothing.                                   *)
ReplaceRoleActions(e) ==
    /\ Write(e, "replaceActions")
    /\ LET r == req[e].id
           global == {p \in Perms : /\ perm[p].live /\ IsActionOnly(perm[p].row)
                                    /\ perm[p].row.action # "" /\ perm[p].row.effect = "allow"}
           having(a) == {p \in global : perm[p].row = ActionAllow(a)}
           free == {p \in Perms : perm[p].row = NoPerm}
       IN  IF ~role[r].live
             THEN UNCHANGED <<perm, rolePerm>>
             ELSE \E f \in [req[e].actions -> Perms] :
                    /\ \A a \in req[e].actions :
                          f[a] \in IF having(a) # {} THEN having(a) ELSE free
                    /\ \A a, b \in req[e].actions : f[a] = f[b] => a = b
                    /\ perm' = [p \in Perms |->
                                  IF \E a \in req[e].actions : f[a] = p /\ p \in free
                                    THEN [live |-> TRUE,
                                          row |-> ActionAllow(CHOOSE a \in req[e].actions : f[a] = p)]
                                    ELSE perm[p]]
                    /\ rolePerm' = (rolePerm \ {<<r, p>> : p \in global})
                                     \cup {<<r, f[a]>> : a \in req[e].actions}
    /\ UNCHANGED <<user, role, userRole, lapsed, ugroup, member, rgroup, res, grant,
                   overlap>>

-----------------------------------------------------------------------------
(* User groups: UserGroupService. *)

BeginCreateUserGroup(e) ==
    \E g \in UserGroups :
       ugroup[g] = "none" /\ Begin(e, [op |-> "createUserGroup", id |-> g])

CreateUserGroup(e) ==
    /\ Write(e, "createUserGroup")
    /\ ugroup' = [ugroup EXCEPT ![req[e].id] = "live"]
    /\ UNCHANGED <<user, role, perm, userRole, lapsed, rolePerm, member, rgroup, res,
                   grant, overlap>>

BeginUpdateUserGroup(e) ==
    \E g \in UserGroups : ugroup[g] = "live" /\ Begin(e, [op |-> "updateUserGroup", id |-> g])

(* UpdateUserGroup saves the row as it was read, active_marker included. *)
UpdateUserGroup(e) ==
    /\ Write(e, "updateUserGroup")
    /\ ugroup' = [ugroup EXCEPT ![req[e].id] = "live"]
    /\ UNCHANGED <<user, role, perm, userRole, lapsed, rolePerm, member, rgroup, res,
                   grant, overlap>>

BeginDeleteUserGroup(e) ==
    \E g \in UserGroups : ugroup[g] = "live" /\ Begin(e, [op |-> "deleteUserGroup", id |-> g])

DeleteUserGroup(e) ==
    /\ Write(e, "deleteUserGroup")
    /\ member' = {m \in member : m[1] # req[e].id}
    /\ ugroup' = [ugroup EXCEPT ![req[e].id] = "dead"]
    /\ UNCHANGED <<user, role, perm, userRole, lapsed, rolePerm, rgroup, res, grant,
                   overlap>>

BeginAddMember(e) ==
    \E g \in UserGroups, u \in Users :
       ugroup[g] = "live" /\ LiveUser(u) /\ Begin(e, [op |-> "addMember", pair |-> <<g, u>>])

AddUserGroupMember(e) ==
    /\ Write(e, "addMember")
    /\ member' = member \cup {req[e].pair}
    /\ UNCHANGED <<user, role, perm, userRole, lapsed, rolePerm, ugroup, rgroup, res,
                   grant, overlap>>

BeginRemoveMember(e) ==
    \E g \in UserGroups, u \in Users :
       ugroup[g] = "live" /\ LiveUser(u) /\ Begin(e, [op |-> "removeMember", pair |-> <<g, u>>])

RemoveUserGroupMember(e) ==
    /\ Write(e, "removeMember")
    /\ member' = member \ {req[e].pair}
    /\ UNCHANGED <<user, role, perm, userRole, lapsed, rolePerm, ugroup, rgroup, res,
                   grant, overlap>>

-----------------------------------------------------------------------------
(* Resource groups: ResourceGroupService. *)

NoGroup == [live |-> FALSE, name |-> NoName, type |-> "none"]

(* The group_type whose groups hold resources of kind k. *)
GroupTypeOf(k) ==
    IF k \in AccountKinds \cup {"platform_account"} THEN "account" ELSE "resource"

NameTaken(name, type, g) ==
    \E h \in ResGroups \ {g} : rgroup[h] = [live |-> TRUE, name |-> name, type |-> type]

BeginCreateResourceGroup(e) ==
    \E g \in ResGroups, n \in Names, t \in {"resource", "account"} :
       /\ rgroup[g] = NoGroup
       /\ ~NameTaken(n, t, g)
       /\ Begin(e, [op |-> "createResourceGroup", id |-> g,
                    row |-> [live |-> TRUE, name |-> n, type |-> t]])

(* idx on (name, group_type, active_marker): a name taken since is an error. *)
CreateResourceGroup(e) ==
    /\ Write(e, "createResourceGroup")
    /\ LET g == req[e].id
           row == req[e].row
       IN  rgroup' = IF rgroup[g] = NoGroup /\ ~NameTaken(row.name, row.type, g)
                       THEN [rgroup EXCEPT ![g] = row] ELSE rgroup
    /\ UNCHANGED <<user, role, perm, userRole, lapsed, rolePerm, ugroup, member, res,
                   grant, overlap>>

(* updateGroupedResourcesTx: every live resource that names the group. *)
UpdateGroupedResources(type, old, new) ==
    res' = [x \in Resources |->
              IF res[x].live /\ GroupTypeOf(KindOf[x]) = type /\ res[x].group = old
                THEN [res[x] EXCEPT !.group = new] ELSE res[x]]

(* Update: the row and its name are read here, and the name is checked     *)
(* only when it changes.                                                   *)
BeginUpdateResourceGroup(e) ==
    \E g \in ResGroups, n \in Names :
       /\ rgroup[g].live
       /\ n # rgroup[g].name => ~NameTaken(n, rgroup[g].type, g)
       /\ Begin(e, [op |-> "updateResourceGroup", id |-> g, row |-> rgroup[g], name |-> n])

MutantUpdateResourceGroup(e) ==
    /\ Write(e, "updateResourceGroup")
    /\ LET g == req[e].id
           row == req[e].row
           name == req[e].name
       IN  /\ overlap' = (overlap \/ rgroup[g] # row)
           /\ IF NameTaken(name, row.type, g)
                THEN UNCHANGED <<rgroup, res>>
                ELSE /\ UNCHANGED res
                     /\ rgroup' = [rgroup EXCEPT ![g] = [row EXCEPT !.name = name]]
    /\ UNCHANGED <<user, role, perm, userRole, lapsed, rolePerm, ugroup, member, grant>>

(* UpdateResourceGroup: the resources that have the old name get the new   *)
(* one and the row that was read is saved, in one transaction.             *)
UpdateResourceGroup(e) ==
    /\ Write(e, "updateResourceGroup")
    /\ LET g == req[e].id
           row == req[e].row
           name == req[e].name
       IN  /\ overlap' = (overlap \/ rgroup[g] # row)
           /\ IF NameTaken(name, row.type, g)
                THEN UNCHANGED <<rgroup, res>>
                ELSE /\ IF name # row.name
                          THEN UpdateGroupedResources(row.type, row.name, name)
                          ELSE UNCHANGED res
                     /\ rgroup' = [rgroup EXCEPT ![g] = [row EXCEPT !.name = name]]
    /\ UNCHANGED <<user, role, perm, userRole, lapsed, rolePerm, ugroup, member, grant>>

BeginDeleteResourceGroup(e) ==
    \E g \in ResGroups :
       rgroup[g].live /\ Begin(e, [op |-> "deleteResourceGroup", id |-> g, row |-> rgroup[g]])

Revoked(ids, type) ==
    [w \in GrantRows |-> IF w.type = type /\ w.id \in ids
                           THEN [grant[w] EXCEPT !.state = "none"] ELSE grant[w]]

DeleteResourceGroup(e) ==
    /\ Write(e, "deleteResourceGroup")
    /\ LET g == req[e].id
           row == req[e].row
       IN  /\ overlap' = (overlap \/ rgroup[g] # row)
           /\ UpdateGroupedResources(row.type, row.name, NoName)
           /\ grant' = Revoked({g}, IF row.type = "account" THEN "account_group" ELSE "group")
           /\ rgroup' = [rgroup EXCEPT ![g].live = FALSE]
    /\ UNCHANGED <<user, role, perm, userRole, lapsed, rolePerm, ugroup, member>>

(* ensureResourceGroup and ensureAccountGroup, inside the transaction that *)
(* saves a resource: a name without a live group gets one.                 *)
MutantEnsureGroupByType(name, type) == rgroup' = rgroup

EnsureGroupByType(name, type) ==
    IF name = NoName \/ \E g \in ResGroups :
                           rgroup[g] = [live |-> TRUE, name |-> name, type |-> type]
      THEN rgroup' = rgroup
      ELSE \E g \in ResGroups :
              /\ rgroup[g] = NoGroup
              /\ rgroup' = [rgroup EXCEPT ![g] = [live |-> TRUE, name |-> name, type |-> type]]

(* A resource is saved with another group. *)
AssignGroup(x) ==
    /\ ops < MaxOps
    /\ ops' = ops + 1
    /\ res[x].live
    /\ \E n \in Names \cup {NoName} :
          /\ res' = [res EXCEPT ![x].group = n]
          /\ EnsureGroupByType(n, GroupTypeOf(KindOf[x]))
    /\ UNCHANGED <<user, role, perm, userRole, lapsed, rolePerm, ugroup, member, grant,
                   req, overlap>>

(* A resource is deleted, with its accounts and, through deleteResourceTx, *)
(* every grant on them.                                                    *)
DeleteResource(x) ==
    /\ ops < MaxOps
    /\ ops' = ops + 1
    /\ res[x].live
    /\ LET gone == {x} \cup ChildrenOf(x)
       IN  /\ res' = [y \in Resources |-> IF y \in gone THEN [res[y] EXCEPT !.live = FALSE]
                                          ELSE res[y]]
           /\ grant' = [w \in GrantRows |-> IF \E y \in gone : w.id = y /\ w.type = KindOf[y]
                                              THEN [grant[w] EXCEPT !.state = "none"]
                                              ELSE grant[w]]
    /\ UNCHANGED <<user, role, perm, userRole, lapsed, rolePerm, ugroup, member, rgroup,
                   req, overlap>>

-----------------------------------------------------------------------------
(* Resource grants: ResourceGrantService. *)

PrincipalExists(w) ==
    IF w.ptype = "user" THEN LiveUser(w.pid) ELSE ugroup[w.pid] = "live"

GrantResourceExists(w) ==
    \/ \E x \in Resources : w.id = x /\ w.type = KindOf[x] /\ ActiveResourceExists(x)
    \/ \E g \in ResGroups : /\ w.id = g
                            /\ rgroup[g].live
                            /\ w.type = IF rgroup[g].type = "account" THEN "account_group"
                                                                     ELSE "group"

(* Create, BatchCreate and GrantCreatedResource make the same checks; the  *)
(* actor's own access to the resource is checked on top in the first two.  *)
BeginGrant(e) ==
    \E w \in GrantRows, op \in {"createGrant", "batchGrant", "grantCreated"} :
       /\ PrincipalExists(w) /\ GrantResourceExists(w)
       /\ op = "grantCreated" => /\ w.ptype = "user" /\ w.effect = "allow"
                                 /\ w.type \notin {"group", "account_group"}
       /\ Begin(e, [op |-> op, row |-> w])

InsertGrant(w) == grant' = [grant EXCEPT ![w] = [state |-> "live", id |-> grant[w].id + 1]]

(* idx_rg_logic_active: a row that is still active, expired or not, is a   *)
(* conflict.                                                               *)
CreateResourceGrant(e) ==
    /\ Write(e, "createGrant")
    /\ IF grant[req[e].row].state = "none" THEN InsertGrant(req[e].row) ELSE UNCHANGED grant
    /\ UNCHANGED <<user, role, perm, userRole, lapsed, rolePerm, ugroup, member, rgroup,
                   res, overlap>>

(* BatchUpsertGrants: an active row is soft-deleted and inserted anew. *)
BatchUpsertGrants(e) ==
    /\ Write(e, "batchGrant")
    /\ InsertGrant(req[e].row)
    /\ UNCHANGED <<user, role, perm, userRole, lapsed, rolePerm, ugroup, member, rgroup,
                   res, overlap>>

(* EnsureResourceGrant, under ensureGrantMu: an active row is enough, even *)
(* an expired one.                                                         *)
EnsureResourceGrant(e) ==
    /\ Write(e, "grantCreated")
    /\ IF grant[req[e].row].state = "none" THEN InsertGrant(req[e].row) ELSE UNCHANGED grant
    /\ UNCHANGED <<user, role, perm, userRole, lapsed, rolePerm, ugroup, member, rgroup,
                   res, overlap>>

BeginDeleteGrant(e) ==
    \E w \in GrantRows :
       grant[w].state # "none"
       /\ Begin(e, [op |-> "deleteGrant", row |-> w, rowid |-> grant[w].id])

(* DeleteResourceGrant goes by the id that was read: a row refreshed since *)
(* has another id and stays.                                               *)
DeleteResourceGrant(e) ==
    /\ Write(e, "deleteGrant")
    /\ grant' = IF grant[req[e].row].id = req[e].rowid
                  THEN [grant EXCEPT ![req[e].row].state = "none"] ELSE grant
    /\ UNCHANGED <<user, role, perm, userRole, lapsed, rolePerm, ugroup, member, rgroup,
                   res, overlap>>

-----------------------------------------------------------------------------
(* The clock and the user directory. *)

Tick == ops < MaxOps /\ ops' = ops + 1

(* A binding's expiry passes on both clocks or, while they differ by the   *)
(* offset of the time zone, on one of them.                                *)
RoleBindingLapses ==
    /\ Tick
    /\ \E b \in userRole, on \in SUBSET Clocks \ {{}} :
          /\ ({b} \X on) \cap lapsed = {}
          /\ lapsed' = lapsed \cup ({b} \X on)
    /\ UNCHANGED <<user, role, perm, userRole, rolePerm, ugroup, member, rgroup, res,
                   grant, req, overlap>>

GrantLapses ==
    /\ Tick
    /\ \E w \in GrantRows : /\ grant[w].state = "live"
                            /\ grant' = [grant EXCEPT ![w].state = "lapsed"]
    /\ UNCHANGED <<user, role, perm, userRole, lapsed, rolePerm, ugroup, member, rgroup,
                   res, req, overlap>>

(* UserService and the clock: a live row is disabled, enabled, deleted, or *)
(* expires.                                                                *)
UserChanges ==
    /\ Tick
    /\ \E u \in Users, s \in {"active", "disabled", "expired", "gone"} :
          LiveUser(u) /\ s # user[u] /\ user' = [user EXCEPT ![u] = s]
    /\ UNCHANGED <<role, perm, userRole, lapsed, rolePerm, ugroup, member, rgroup, res,
                   grant, req, overlap>>

-----------------------------------------------------------------------------
(* The handlers: what a request can be, and what it ends with. *)

HandleRBACRoles(e) == BeginCreateRole(e) \/ CreateRole(e)
HandleRBACRole(e) ==
    BeginUpdateRole(e) \/ UpdateRole(e) \/ BeginDeleteRole(e) \/ DeleteRole(e)
HandleRBACPermissions(e) == BeginCreatePermission(e) \/ CreatePermission(e)
HandleRBACPermission(e) ==
    \/ BeginUpdatePermission(e) \/ UpdatePermission(e)
    \/ BeginDeletePermission(e) \/ DeletePermission(e)
HandleRBACUserRoles(e) == BeginCreateUserRole(e) \/ CreateUserRole(e)
HandleRBACUserRole(e) == BeginDeleteUserRole(e) \/ DeleteUserRole(e)
HandleRBACRolePermissions(e) == BeginCreateRolePermission(e) \/ CreateRolePermission(e)
HandleRBACRolePermission(e) == BeginDeleteRolePermission(e) \/ DeleteRolePermission(e)
HandleRBACRoleActions(e) == BeginReplaceActions(e) \/ ReplaceRoleActions(e)
HandleUserGroups(e) ==
    \/ BeginCreateUserGroup(e) \/ CreateUserGroup(e)
    \/ BeginUpdateUserGroup(e) \/ UpdateUserGroup(e)
    \/ BeginDeleteUserGroup(e) \/ DeleteUserGroup(e)
HandleUserGroupMembers(e) ==
    \/ BeginAddMember(e) \/ AddUserGroupMember(e)
    \/ BeginRemoveMember(e) \/ RemoveUserGroupMember(e)
HandleResourceGroups(e) ==
    \/ BeginCreateResourceGroup(e) \/ CreateResourceGroup(e)
    \/ BeginUpdateResourceGroup(e) \/ UpdateResourceGroup(e)
    \/ BeginDeleteResourceGroup(e) \/ DeleteResourceGroup(e)
HandleResourceGrants(e) ==
    \/ BeginGrant(e) \/ CreateResourceGrant(e) \/ BatchUpsertGrants(e)
    \/ EnsureResourceGrant(e) \/ BeginDeleteGrant(e) \/ DeleteResourceGrant(e)

RoleRequests(e) ==
    \/ HandleRBACRoles(e) \/ HandleRBACRole(e)
    \/ HandleRBACPermissions(e) \/ HandleRBACPermission(e)
    \/ HandleRBACUserRoles(e) \/ HandleRBACUserRole(e)
    \/ HandleRBACRolePermissions(e) \/ HandleRBACRolePermission(e)
    \/ HandleRBACRoleActions(e)

GrantRequests(e) ==
    \/ HandleUserGroups(e) \/ HandleUserGroupMembers(e)
    \/ HandleResourceGroups(e) \/ HandleResourceGrants(e)

(* A new installation: users and resources, and nothing granted yet. *)
Init ==
    /\ user = [u \in Users |-> "active"]
    /\ role = [r \in Roles |-> [live |-> FALSE, status |-> "none"]]
    /\ perm = [p \in Perms |-> [live |-> FALSE, row |-> NoPerm]]
    /\ userRole = {} /\ lapsed = {} /\ rolePerm = {}
    /\ ugroup = [g \in UserGroups |-> "none"] /\ member = {}
    /\ rgroup = [g \in ResGroups |-> NoGroup]
    /\ res = [x \in Resources |-> [live |-> TRUE, group |-> NoName]]
    /\ grant = [w \in GrantRows |-> [state |-> "none", id |-> 0]]
    /\ req = [e \in Editors |-> Idle]
    /\ ops = 0 /\ overlap = FALSE

(* The tables hold rows of their columns' types, and bindings, members and  *)
(* lapses refer to rows that were there.                                    *)
TypeOK ==
    /\ user \in [Users -> {"active", "disabled", "expired", "gone"}]
    /\ role \in [Roles -> [live : BOOLEAN, status : {"none", "active", "disabled"}]]
    /\ perm \in [Perms -> [live : BOOLEAN,
                           row : PermRows \cup {NoPerm} \cup {ActionAllow(a) : a \in Actions}]]
    /\ userRole \subseteq Users \X Roles /\ lapsed \subseteq userRole \X Clocks
    /\ rolePerm \subseteq Roles \X Perms
    /\ ugroup \in [UserGroups -> {"none", "live", "dead"}]
    /\ member \subseteq UserGroups \X Users
    /\ rgroup \in [ResGroups -> [live : BOOLEAN, name : Names \cup {NoName},
                                 type : {"none", "resource", "account"}]]
    /\ res \in [Resources -> [live : BOOLEAN, group : Names \cup {NoName}]]
    /\ grant \in [GrantRows -> [state : {"none", "live", "lapsed"}, id : 0 .. MaxOps]]
    /\ DOMAIN req = Editors /\ ops \in 0 .. MaxOps /\ overlap \in BOOLEAN

Next ==
    \/ \E e \in Editors : RoleRequests(e) \/ GrantRequests(e)
    \/ \E x \in Resources : AssignGroup(x) \/ DeleteResource(x)
    \/ RoleBindingLapses \/ GrantLapses \/ UserChanges

Spec == Init /\ [][Next]_vars

-----------------------------------------------------------------------------
(***************************************************************************)
(* Properties.                                                             *)
(***************************************************************************)

(* The batch decision the lists use is the single decision the requests    *)
(* use, reason included, for every user, set of actions and resource, in   *)
(* every state the management requests can produce (AuthorizeBatch and     *)
(* Authorize, BatchActionDecisionsContext and HasPermissionContext).       *)
BatchAgrees ==
    \A u \in Users, as \in SUBSET Actions \ {{}} :
       LET batch == AuthorizeBatch(u, as, Resources)
       IN  \A x \in Resources : batch[x] = Authorize(u, as, x)

(* The two clocks take the same bindings of u for expired. *)
ClocksAgree(u) ==
    \A r \in Roles : <<<<u, r>>, "utc">> \in lapsed <=> <<<<u, r>>, "local">> \in lapsed

(* A host or instance is in the list exactly when it can be opened.  The   *)
(* console shows a user every action the server accepts from him, and an   *)
(* action it shows is accepted unless the user has expired; a binding that *)
(* has expired on one of the clocks only is left out.  The console and the *)
(* server ask with different queries (visibleHosts and hostVisible,        *)
(* EffectiveGlobalActions and Authorize).                                  *)
ConsoleShowsWhatIsAllowed ==
    \A u \in Users :
       /\ u \notin SuperAdmins /\ ClocksAgree(u) =>
             \A a \in Actions :
                LET shown == EffectiveActions(u) \cap {a, "*"} # {}
                    accepted == Allowed(AuthorizeAction(u, {a}))
                IN  /\ accepted => shown
                    /\ shown => accepted \/ user[u] = "expired"
       /\ \A view, accountView \in Actions :
             LET parents == {h \in Resources : ChildrenOf(h) # {}}
             IN  \A h \in parents : res[h].live =>
                    (h \in VisibleParents(u, parents, view, accountView)
                       <=> ParentVisible(u, h, view, accountView))

Stranded(x) ==
    /\ res[x].live
    /\ res[x].group # NoName
    /\ ~NameTaken(res[x].group, GroupTypeOf(KindOf[x]), NoName)

(* A live resource names a group that exists, unless a group was renamed   *)
(* or deleted from a row that had changed since the service read it: the   *)
(* old name UpdateResourceGroup moves is the one read before the           *)
(* transaction.                                                            *)
OnlyOverlapStrands == (\E x \in Resources : Stranded(x)) => overlap

(* A live group of the other type has the group's old name or its new one. *)
SharedName(r) ==
    \E h \in ResGroups : /\ rgroup[h].live
                         /\ rgroup[h].type # r.row.type
                         /\ rgroup[h].name \in {r.row.name, r.name}

(* Renaming a resource group from a row that has not changed since it was  *)
(* read moves the resources with the name (UpdateResourceGroup): no grant  *)
(* begins or ceases to reach a resource, and when no group of the other    *)
(* type has the old name or the new one the decision of every request is   *)
(* the same before and after.                                              *)
RenameKeepsAccess ==
    [][\A e \in Editors :
         (req[e].op = "updateResourceGroup" /\ req'[e] = Idle /\ ~overlap')
            => \A u \in Users, x \in Resources :
                  /\ HasGrant(u, x)' = HasGrant(u, x)
                  /\ ~SharedName(req[e]) =>
                        \A as \in SUBSET Actions : Authorize(u, as, x)' = Authorize(u, as, x)]_vars

(* The same without the condition on names does not hold: a permission     *)
(* that denies by group goes by the name of the group whatever its type    *)
(* (Checker.groupContainsResource), so that renaming one of two groups of  *)
(* one name lifts a deny from the other's resources.                       *)
RenameKeepsDecisions ==
    [][\A e \in Editors :
         (req[e].op = "updateResourceGroup" /\ req'[e] = Idle /\ ~overlap')
            => \A u \in Users, x \in Resources, as \in SUBSET Actions :
                  Authorize(u, as, x)' = Authorize(u, as, x)]_vars

(* An updated role stays active: RoleService.Update changes name,          *)
(* description and status.                                                 *)
UpdatedRoleStaysActive ==
    [][\A e \in Editors :
         (req[e].op = "updateRole" /\ req'[e] = Idle /\ role[req[e].id].live)
            => role'[req[e].id].live]_vars

(* Every way of asking who may do what gives the same answer, and only a     *)
(* group written from a stale row can strand a resource.                     *)
AccessConsistent == BatchAgrees /\ ConsoleShowsWhatIsAllowed /\ OnlyOverlapStrands
=============================================================================
