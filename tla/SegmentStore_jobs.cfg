SPECIFICATION Spec
CONSTANTS
    c1 = c1
    w1 = w1
    w2 = w2
    Containers = {c1}
    Writers = {w1}
    ContainerOf <- OneWriter
    MaxDay = 2
    RetentionDays = 1
    Inodes = {i1}
    NoInode = NoInode
    HighWater = 1
    LowWater = 0
    MaxFaults = 1
PROPERTIES
    RetentionKeepsWindow
    GuardCheckEnds
    ExpiredSegmentsDeleted
