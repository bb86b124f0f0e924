CONSTANTS
    h1 = h1
    h2 = h2
    r1 = r1
    Handles = {h1, h2}
    Settings <- MCStartOrAsk
    Readers = {r1}
    Kept = 1
    LateWorkers = FALSE
    ReadFaults = {FALSE}
SPECIFICATION Spec
INVARIANTS
    ReadersHonest
CHECK_DEADLOCK FALSE
