CONSTANTS
    Containers = {1, 2}
    MaxTime = 2
    DayLength = 1
    FirstLines = 1
    MaxChanges = 2
    LineCap = 1
SPECIFICATION Spec
PROPERTIES
    SendsInOrder
    LinesArrive
    StreamEnds
CHECK_DEADLOCK FALSE
