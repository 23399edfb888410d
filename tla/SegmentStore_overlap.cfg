SPECIFICATION Spec
CONSTANTS
    c1 = c1
    w1 = w1
    w2 = w2
    Containers = {c1}
    Writers = {w1, w2}
    ContainerOf <- OneContainer
    MaxDay = 1
    RetentionDays = 1
    Inodes = {i1, i2}
    NoInode = NoInode
    HighWater = 2
    LowWater = 1
    MaxFaults = 0
SYMMETRY Symmetry
INVARIANTS
    OpenSetExact
    SegmentsHaveDir
    LossNeedsRaceOrExpiry
