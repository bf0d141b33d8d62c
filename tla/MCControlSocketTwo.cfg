SPECIFICATION Spec

CONSTANTS
    i1 = i1
    i2 = i2
    Instances = {i1, i2}
    Service = i1
    c1 = c1
    c2 = c2
    Clients = {c1, c2}
    Nobody = Nobody
    Dead = Dead
    Backlog = 2
    MaxCrashes = 2

INVARIANT
    Reachable
