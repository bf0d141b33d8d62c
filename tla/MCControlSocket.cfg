SPECIFICATION Spec

CONSTANTS
    i1 = i1
    i2 = i2
    Instances = {i1, i2}
    Service = i1
    c1 = c1
    c2 = c2
    c3 = c3
    Clients = {c1, c2, c3}
    Nobody = Nobody
    Dead = Dead
    Backlog = 2
    MaxCrashes = 2

INVARIANTS
    TypeOK
    SoleReachable

PROPERTIES
    SaveHonoured
    Recovers
