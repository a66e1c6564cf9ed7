SPECIFICATION LiveSpec
CONSTANTS
    Kinds = {"query", "bad"}
    MaxCommands = 2
    PendingLimit = 1
    MaxFaults = 1
CHECK_DEADLOCK FALSE
PROPERTY RelayReturns
