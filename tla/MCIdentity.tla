----------------------------- MODULE MCIdentity -----------------------------
(*****************************************************************************)
(* Who may do what: the user directory, and the roles, groups and grants     *)
(* that decide.  Users are created, saved, bound and deleted by overlapping  *)
(* requests.  Access is decided on a host with one account, a platform       *)
(* account and a container endpoint; its requests are all about roles and    *)
(* permissions or all about groups and grants, for the two kinds write       *)
(* different tables.                                                         *)
(*****************************************************************************)
EXTENDS UserManagement, TLC, FiniteSets

CONSTANTS
    Users, SuperAdmins, Roles, Perms, UserGroups, ResGroups, Resources, KindOf,
    ParentOf, Actions, PermRows, GrantRows, MaxOps,
    GroupNames

(* A group has a name (validateResourceGroup), identifiers are not           *)
(* empty, an action of the catalog is not the wildcard, a permission allows  *)
(* or denies (permissionFromInput), an account has a host or an instance.    *)
ASSUME AccessAssumption ==
    /\ "" \notin GroupNames /\ "" \notin ResGroups
    /\ Actions \cap {"", "*"} = {}
    /\ \A w \in PermRows : w.effect \in {"allow", "deny"}
    /\ \A x \in Resources :
          KindOf[x] \in {"host_account", "database_account"} =>
             ParentOf[x] \in Resources /\ KindOf[ParentOf[x]] \in {"host", "database_instance"}

VARIABLES
    part,   \* which of the components the behaviour is of
    user, role, perm, userRole, lapsed, rolePerm, ugroup, member, rgroup, res,
    grant, req, ops, overlap

Access == INSTANCE AccessControl WITH Names <- GroupNames

accessVars == <<user, role, perm, userRole, lapsed, rolePerm, ugroup, member, rgroup,
                res, grant, req, ops, overlap>>
all == <<part, vars, accessVars>>

MCResources == {"h1", "a1", "p1", "c1"}
MCKindOf == [x \in MCResources |-> CASE x = "h1" -> "host"
                                     [] x = "a1" -> "host_account"
                                     [] x = "p1" -> "platform_account"
                                     [] OTHER -> "container_endpoint"]
MCParentOf == [x \in MCResources |-> "h1"]

P(a, t, i, f) == [action |-> a, type |-> t, id |-> i, effect |-> f]
MCPermRows == {P("view", "", "", "allow"), P("*", "", "", "allow"), P("use", "", "", "deny"),
               P("view", "host_account", "a1", "deny"), P("view", "group", "g1", "deny")}

G(pt, pid, t, i, f) == [ptype |-> pt, pid |-> pid, type |-> t, id |-> i, effect |-> f]
MCGrantRows == {G("user", "u1", "host", "h1", "allow"), G("user_group", "s1", "group", "g1", "allow"),
                G("user", "u1", "account_group", "g2", "allow"),
                G("user_group", "s1", "host_account", "a1", "deny")}

(* A directory some requests were made on before: one role with up to two    *)
(* permissions, a group or two of one name, and the grants in force.         *)
Furnished(FirstPerms, SecondPerms, FirstGrants) ==
    /\ user = [u \in Users |-> "active"]
    /\ role = [r \in Roles |-> IF r = "r1" THEN [live |-> TRUE, status |-> "active"]
                                       ELSE [live |-> FALSE, status |-> "none"]]
    /\ \E v \in FirstPerms, w \in SecondPerms :
          perm = [p \in Perms |-> IF p = "p1" THEN [live |-> TRUE, row |-> v]
                                  ELSE [live |-> w # v, row |-> IF w # v THEN w ELSE Access!NoPerm]]
    /\ userRole = Users \X {"r1"}
    /\ lapsed = {}
    /\ rolePerm = {<<"r1", p>> : p \in {q \in Perms : perm[q].live}}
    /\ ugroup = [g \in UserGroups |-> IF g = "s1" THEN "live" ELSE "none"]
    /\ member = {"s1"} \X Users
    /\ \E named \in {{"g1"}, {"g1", "g2"}} :
          /\ rgroup = [g \in ResGroups |->
                          IF g \in named
                            THEN [live |-> TRUE, name |-> "A",
                                  type |-> IF g = "g1" THEN "resource" ELSE "account"]
                            ELSE Access!NoGroup]
          /\ \E in \in {{"h1", "c1"}} \cup (IF "g2" \in named THEN {{"a1", "p1"}} ELSE {}) :
                res = [x \in Resources |->
                         [live |-> TRUE, group |-> IF x \in in THEN "A" ELSE Access!NoName]]
    /\ \E on \in FirstGrants :
          grant = [w \in GrantRows |-> [state |-> IF w \in on THEN "live" ELSE "none", id |-> 0]]
    /\ req = [e \in Editors |-> Access!Idle]
    /\ ops = 0
    /\ overlap = FALSE

(* The directory of users is left alone while access is looked at. *)
OneDirectory ==
    /\ Init /\ bound = {}
    /\ \A u \in UserIds : users[u] # NoRow => users[u].expires = Never

MCInit ==
    \/ part = "users" /\ Init /\ Access!Init
    \/ /\ part = "roles"
       /\ OneDirectory
       /\ Furnished({P("view", "", "", "allow"), P("*", "", "", "allow")}, PermRows,
                    {GrantRows, {w \in GrantRows : w.effect = "allow"}})
    \/ /\ part = "grants"
       /\ OneDirectory
       /\ Furnished({P("view", "", "", "allow")},
                    {P("view", "group", "g1", "deny"), P("view", "", "", "allow")},
                    {on \in SUBSET GrantRows : Cardinality(on) = 2})

UsersNext == part = "users" /\ Next /\ UNCHANGED <<part, accessVars>>
RolesNext ==
    /\ part = "roles"
    /\ (\E e \in Editors : Access!RoleRequests(e)) \/ Access!RoleBindingLapses \/ Access!UserChanges
    /\ UNCHANGED <<part, vars>>
GrantsNext ==
    /\ part = "grants"
    /\ \/ \E e \in Editors : Access!GrantRequests(e)
       \/ \E x \in Resources : Access!AssignGroup(x) \/ Access!DeleteResource(x)
       \/ Access!GrantLapses
    /\ UNCHANGED <<part, vars>>

MCSpec == MCInit /\ [][UsersNext \/ RolesNext \/ GrantsNext]_all

Symmetric == Permutations(UserIds) \cup Permutations(Names) \cup Permutations(Editors)

-----------------------------------------------------------------------------
(* The batch decision of the lists is the single decision of the requests,   *)
(* the console's own query shows the actions the server accepts, and only    *)
(* overlapping saves strand a resource in a group that is gone.              *)
AccessConsistent == part # "users" => Access!AccessConsistent

(* Across the rename of a resource group every grant reaches what it reached *)
(* before, and no decision changes unless a group of the other type shares   *)
(* one of the two names.                                                     *)
RenameKeepsAccess == Access!RenameKeepsAccess
=============================================================================
