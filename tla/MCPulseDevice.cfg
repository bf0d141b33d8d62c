SPECIFICATION Spec

CONSTANTS
    s1 = s1
    s2 = s2
    s3 = s3
    Sinks = {s1, s2, s3}
    NoSink = NoSink
    Automatic = {TRUE, FALSE}
    MaxInbox = 3

INVARIANTS
    TypeOK
    InStep

PROPERTIES
    FollowsDefault

CHECK_DEADLOCK FALSE
