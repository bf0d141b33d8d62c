SPECIFICATION Spec
CONSTANTS
    n1 = n1
    n2 = n2
    n3 = n3
    n4 = n4
    n5 = n5
    Nodes = {n1, n2, n3, n4, n5}
    NULL = NULL
    LastPts = 6
    Pts <- MCPts
    GOP = 3
    Reorder = 1
    RecordSeconds = 3
    TimeBase = 2
    IntHalf = 4
    Int64Half = 64
SYMMETRY NodeSymmetry
INVARIANT RecentKept
CHECK_DEADLOCK FALSE
