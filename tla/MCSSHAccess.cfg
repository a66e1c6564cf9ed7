SPECIFICATION MCSpec
CONSTANTS
    Hosts = {h1}
    Accounts = {a1, a2}
    Endpoints = {e1, e2}
    Keys = {k1, k2}
    NoKey = NoKey
    Requests = {a1, a2}
    Dialers = {d1}
    MaxRev = 3
    MaxStarted = 3
    MaxRekeys = 1
    UserAccounts = {tu}
    AIAccounts = {ta}
    Passwords = {pwd}
    Procs = {a1, a2}
    NoOne = none
    Expiries = {1, 3}
    MaxTime = 2
    MaxSeq = 2
    MaxSecret = 3
    MaxAttempts = 2
    Channels = {a1, a2}
    Fronts = {"ssh", "web"}
    Configs <- MCConfigs
    Grants <- MCGrants
    MaxFrames <- MCFrames
    MaxFailures = 1
CONSTRAINT Within
SYMMETRY Symmetric
CHECK_DEADLOCK FALSE
INVARIANT HostKeyTrusted
 
INVARIANT OneLiveSecret
 
INVARIANT SSHRecordKept
PROPERTY HostChangesInOrder
