CONSTANTS
    Servers = {"s"}
    Operator = "op"
    Nobody = "nobody"
    Devices = {"dut"}
    Places = {"p", "q"}
    Absent = "absent"
    First <- AtFirst
    MaxWrites = 2
    MaxEdits = 1
SPECIFICATION MCSpec
INVARIANTS
    GrantsDisclosed
CHECK_DEADLOCK FALSE
