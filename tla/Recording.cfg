SPECIFICATION Spec
CONSTANTS
    Payloads = {"flow", "other"}
    MaxRecordings = 2
    MaxEvents = 2
    MaxUploads = 2
    MaxCalls = 3
    MaxFaults = 2
CONSTRAINT Apart
INVARIANTS
    NothingLost
    TwiceOnlyIfUnanswered
    OncePerKey
CHECK_DEADLOCK FALSE
