CONSTANTS
    Calls = {"k1", "k2"}
    Runs = {"k1"}
    NoOne = "nobody"
    Unreadable = FALSE
    MaxFaults = 2
    Participants = {"a", "b", "c"}
SPECIFICATION MCFairSpec
INVARIANTS
    ServicesTypeOK
    NoFalseGreen
    AuditedCopyKept
    FailureHonest
    FramesAccounted
    IncidentReachesAll
PROPERTIES
    ServicesSettle
CHECK_DEADLOCK FALSE
