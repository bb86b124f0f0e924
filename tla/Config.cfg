CONSTANTS
    Servers = {"s"}
    Operator = "op"
    Nobody = "nobody"
    Devices = {"dut"}
    Places = {"p", "q"}
    Absent = "absent"
    First <- AtFirst
    MaxWrites = 2
    MaxEdits = 1
SPECIFICATION MCFairSpec
INVARIANTS
    ConfigTypeOK
    GrantsFromStartup
    StatusHonest
PROPERTIES
    AgentNarrows
    GrantExcludesRuns
    CallEnds
CHECK_DEADLOCK FALSE
