SPECIFICATION Spec
CONSTANTS
    a = a
    b = b
    Pods = {p}
    Containers = {a, b}
    NodePods = {p}
    MaxUid = 2
    MaxGaps = 2
    MaxNotes = 2
CHECK_DEADLOCK FALSE
SYMMETRY Symmetry
INVARIANTS
    RegistryExact
    SettledIsExact
    FlagGoesWithPod
PROPERTIES
    StreamedOnce
