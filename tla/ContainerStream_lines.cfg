CONSTANTS
    Sources = {"file", "api"}
    MaxLines = 2
    MaxRuns = 2
    MaxSecond = 2
    MaxBackoff = 2
    MaxFaults = 1
    MaxStarts = 1
SPECIFICATION Spec
INVARIANTS
    MissingIsExcused
    TwiceIsExcused
PROPERTIES EveryLineRead ReturnsWhenDone
CHECK_DEADLOCK FALSE
