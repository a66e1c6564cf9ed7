SPECIFICATION Spec
CONSTANTS
    UserIds = {u1, u2, u3}
    Names = {n1, n2}
    Editors = {e1, e2}
    Year = 2
    MaxTime = 2
    MaxRequests = 2
SYMMETRY Symmetries
CHECK_DEADLOCK FALSE
PROPERTY DeletedStaysDeleted
