CONSTANTS
    p1 = p1
    p2 = p2
    jA = jA
    jB = jB
    rootX = rootX
    rootY = rootY
    Procs = {p1, p2}
    Owners = {p1, p2}
    Projects = {jA, jB}
    NoProject = NoProject
    Roots = {rootX, rootY}
    Deployments <- MCNeighbours
    Resources <- MCOneResource
    Physical <- MCOneResource
    Retryables = {"unconfirmed"}
    Policy = {"unconfirmed", "owner_process_exited_without_release"}
    Reasons = {"unconfirmed"}
    MaxId = 3
    MaxLeases = 1
    MaxRes = 1
    Torn = {}
    Poisons <- MCPoison
    Uses = {}
SPECIFICATION Spec
PROPERTIES
    ForeignRecordUntouched
