SPECIFICATION MCSpec
CONSTANTS
    Requests = {r1, r2, r3}
    MaxAttempts = 2
    MaxFaults = 2
    MaxChanges = 2
    Admin = {a1, a2}
    Field = {captcha, recording}
    Hot = {captcha}
    Risky = {captcha, recording}
    MaxRevision = 4
    MaxRestarts = 1
CHECK_DEADLOCK FALSE
INVARIANT OneAdminOneKey
INVARIANT RiskWasConfirmed
PROPERTY EveryRequestAnswered
