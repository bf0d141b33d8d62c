SPECIFICATION Spec

CONSTANTS
    c1 = c1
    c2 = c2
    Clients = {c1, c2}
    Nobody = Nobody
    Capacity = 2
    Backlog = 2
    Frames = 2
    Objects = {1, 2}

INVARIANTS
    TypeOK
    InSync
    FramesTrue

PROPERTIES
    Served
    Stops

CHECK_DEADLOCK FALSE
