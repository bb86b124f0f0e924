CONSTANTS
    Clients = {c1, c2}
    Brokers <- MCBrokers
    Nobody = Nobody
    Faults <- MCFaults
    MaxCounter = 1
    MaxMishaps = 1
    Top = 2
    LimitV = 1
    LimitI = 1
SPECIFICATION MCSpec
SYMMETRY ClientSymmetry
INVARIANTS
    ServerTypeOK
    RendezvousHonest
    SessionHonest
    PairKept
    SupplyHonest
PROPERTIES
    SwitchedOnWithinLimits
CHECK_DEADLOCK FALSE
