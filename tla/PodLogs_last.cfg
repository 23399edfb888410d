CONSTANTS
    Containers = {1, 2}
    MaxTime = 3
    DayLength = 2
    FirstLines = 3
    MaxChanges = 1
    PageSize = 2
    MaxAsks = 2
    Workers = {w1, w2}
    ResultCap = 1
    MaxResults = 3
    w1 = w1
    w2 = w2
SPECIFICATION Spec
INVARIANT LastPageIsNewest
