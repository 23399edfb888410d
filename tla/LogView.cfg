CONSTANTS
    Workloads = {w1, w2}
    Values = {v}
    LastPage = 3
    MaxClicks = 5
    MaxStreamed = 2
    w1 = w1
    w2 = w2
    v = v
SPECIFICATION ViewSpec
INVARIANT ShownIsSelected
PROPERTY SpinnerEnds
CHECK_DEADLOCK FALSE
