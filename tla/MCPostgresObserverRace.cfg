SPECIFICATION Spec
CONSTANTS
    Statements = {""}
    Portals = {""}
    Sql = {a, b}
    Types = {"Q", "P", "B", "E", "S", "C", "D"}
    Blocks = TRUE
    Pipelined = FALSE
    MaxMessages = 3
    MaxChanges = 0
    PendingLimit = 2
    ObjectLimit = 2
    OperationLimit = 4
INVARIANT SyncRecovers
SYMMETRY SqlSymmetry
CHECK_DEADLOCK FALSE
