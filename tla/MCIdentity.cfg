SPECIFICATION MCSpec
CONSTANTS
    UserIds = {u1, u2, u3}
    Names = {n1, n2}
    Editors = {e1, e2}
    Year = 2
    MaxTime = 2
    MaxRequests = 4
    Users = {"u1"}
    SuperAdmins = {}
    Roles = {"r1", "r2"}
    Perms = {"p1", "p2"}
    UserGroups = {"s1", "s2"}
    ResGroups = {"g1", "g2", "g3"}
    Resources <- MCResources
    KindOf <- MCKindOf
    ParentOf <- MCParentOf
    Actions = {"view", "use"}
    GroupNames = {"A", "B"}
    PermRows <- MCPermRows
    GrantRows <- MCGrantRows
    MaxOps = 2
SYMMETRY Symmetric
CHECK_DEADLOCK FALSE
INVARIANT DirectorySafe
INVARIANT AccessConsistent
PROPERTY OnlyOverlappingSaveRevives
PROPERTY RenameKeepsAccess
