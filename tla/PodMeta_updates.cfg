SPECIFICATION MetaSpec
CONSTANTS
    a = a
    b = b
    PodContainers = {a}
    PodHandler = PodHandler
    Nobody = Nobody
    MaxFaults = 1
    MaxCrashes = 1
INVARIANTS
    MetaKept
PROPERTIES
    GoneIsReclaimed
