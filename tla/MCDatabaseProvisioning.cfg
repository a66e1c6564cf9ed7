SPECIFICATION FairSpec
CONSTANTS
    Ops = {o1}
    NoOp = NoOp
    Calls = {c1, c2}
    LeaseDuration = 6
    CleanupTimeout = 2
    StaleAfter = 6
    MaxFaults = 2
INVARIANT TypeOK
INVARIANT AccountsAccountedFor
PROPERTY ImplementsLifecycle
PROPERTY Converges
