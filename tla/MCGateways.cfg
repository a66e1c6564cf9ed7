SPECIFICATION MCSpec
CONSTANTS
    pg1 = pg1
    pg2 = pg2
    my = my
    rd = rd
    Conns = {c1, c2, c3}
    NoOne = none
    Instances = {pg1, pg2, my, rd}
    InstProtocol <- MCProtocol
    InstTLS <- MCTLS
    Keys = {k1}
    EnabledSets <- MCEnabled
    HandshakeLimit = 1
    Id = {i1, i2}
    NoId = NoId
    Accounts <- MCAccounts
    Toggled <- MCToggled
    MaxTracked = 2
    MaxEvents = 4
    MaxSent = 5
    MaxChanges = 1
    ResultCap = 2
CONSTRAINT Within
SYMMETRY Symmetric
CHECK_DEADLOCK FALSE
INVARIANT ListenersAccounted
INVARIANT PolicyOnTheWire
INVARIANT TrafficPermitted
INVARIANT SessionEndsHonestly
