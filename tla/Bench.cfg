CONSTANTS
    Owners = {o1, o2}
    Devices <- MCDevices
    NoOwner = NoOwner
    NoDevice = NoDevice
    MaxHolders = 2
SPECIFICATION MCSpec
INVARIANTS
    BenchTypeOK
    MutualExclusion
    HolderRecordExact
    HaltHonest
    FailuresTold
PROPERTIES
    AllOrNothing
    ReclaimReported
    ImplementsDeviceLock
