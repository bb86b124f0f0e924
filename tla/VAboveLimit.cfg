CONSTANTS
    Top = 2
    LimitV = 1
    LimitI = 1
    MaxLate = 1
    MaxFaults = 2
SPECIFICATION Spec
INVARIANTS
    HeldAboveLimit
CHECK_DEADLOCK FALSE
