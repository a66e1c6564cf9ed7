SPECIFICATION MCSpec
CONSTANTS
    Process = {p1, p2, p3}
    Session = {s1}
    LeaseDuration = 5
    HeartbeatInterval = 2
    MaxLag = 1
    MaxFaults = 2
    Recoverer = Recoverer
    NoSession = NoSession
    MaxCrashes = 2
    MaxErrors = 2
CHECK_DEADLOCK FALSE
INVARIANT LeaseHolds
INVARIANT RecordingPreserved
PROPERTY OutcomeIsFinal
PROPERTY AbandonedSessionEnds
PROPERTY ExpiredSessionPurged
