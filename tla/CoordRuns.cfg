CONSTANTS
    p1 = p1
    p2 = p2
    jA = jA
    jB = jB
    rootX = rootX
    rootY = rootY
    Procs = {p1, p2}
    Owners = {p1}
    Projects = {jA}
    NoProject = NoProject
    Roots = {rootX, rootY}
    Deployments <- MCOneProject
    Resources <- MCOneResource
    Physical <- MCOneResource
    Retryables = {"unconfirmed"}
    Policy = {"unconfirmed", "owner_process_exited_without_release"}
    Reasons = {"unconfirmed", "audit_broken"}
    MaxId = 3
    MaxLeases = 1
    MaxRes = 1
    Torn = {p1, p2}
    Poisons <- MCNothing
    Uses = {"retire", "hold", "fault"}
SPECIFICATION MCSpec
INVARIANTS
    LeasesTypeOK
    AuditHaltKept
    AuditSignatureWorks
    RecoveryResumable
    LeasesAccounted
    DeathLeavesTruth
PROPERTIES
    AuditHaltGates
    NeighbourUntouched
