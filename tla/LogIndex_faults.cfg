CONSTANTS
    k1 = k1  s1 = s1  w1 = w1  w2 = w2
    Keys <- OneKey
    OldKeys <- OneKey
    Segments <- OneSegment
    Writers <- TwoWriters
    MaxLines = 2
    MaxFaults = 1
    MaxCrashes = 1
SPECIFICATION Spec
INVARIANTS
    StoredIsIndexed
    TwiceOnlyIfRead
    ReferenceReadsItsLine
    RestartKeepsIndexes
PROPERTIES
    ObserveReturns
