SPECIFICATION MCSpec
CONSTANTS
    MaxRequests = 3
    Captchas = {c1, c2}
    FailureLimit = 2
    FailureWindow = 1
    Lockout = 1
    CaptchaTTL = 1
    MaxTime = 2
    MaxFaults = 1
    MaxRestarts = 1
    MaxCorrect = 1
    MaxChanges = 1
    Sessions = {s1}
    Tickets = {t1}
    SessionTTL = 2
    TicketTTL = 1
    Instances = {i1}
    Accounts = {a, b}
    Managers = {m1, m2}
    Operations = {o1, o2}
    Passwords = {p1, p2}
    Inputs <- MCInputs
    ProbeSlots = 1
    MaxStarted = 3
    LimiterRequests = 4
CONSTRAINT OneDisturbance
SYMMETRY Symmetric
CHECK_DEADLOCK FALSE
INVARIANT LoginAccounted
INVARIANT WebSessionHonoured
INVARIANT InventoryConsistent
PROPERTY LockoutHolds
