SPECIFICATION MCSpec
CONSTANTS
    Statements = {"", "n"}
    Portals = {"", "n"}
    Sql = {a, b}
    Types = {"Q", "P", "B", "E", "S", "C", "D"}
    Blocks = TRUE
    Pipelined = FALSE
    MaxMessages = 5
    MaxChanges = 1
    PendingLimit = 2
    ObjectLimit = 1
    OperationLimit = 4
    Topics = {"t", "u"}
    Categories = {"c", "p"}
    Commands <- MCCommands
    MaxCommands = 3
    TopicLimit = 2
SYMMETRY Symmetric
CHECK_DEADLOCK FALSE
INVARIANT RecordIsTrue
INVARIANT StaysInStep
INVARIANT EveryRecordEnds
INVARIANT RedisInStep
INVARIANT RedisRecordsEnd
