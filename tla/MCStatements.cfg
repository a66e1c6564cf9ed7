SPECIFICATION MCSpec
CONSTANTS
    Kinds = {"query", "ping", "quit", "bad"}
    MaxCommands = 2
    PendingLimit = 2
    MaxFaults = 1
    Req = {r1, r2}
    Nobody = Nobody
    MaxFailures = 1
    MaxTouches = 1
SYMMETRY Symmetric
CHECK_DEADLOCK FALSE
INVARIANT OnlyAuditedTraffic
INVARIANT RelayRecordIsTrue
INVARIANT ConsoleAccounted
PROPERTY DrainNeverIdles
