SPECIFICATION Spec
CONSTANTS
    a = a
    b = b
    Pods = {p}
    Containers = {a}
    NodePods = {}
    MaxUid = 2
    MaxGaps = 1
    MaxNotes = 1
CHECK_DEADLOCK FALSE
PROPERTIES
    PodsGetStreamed
