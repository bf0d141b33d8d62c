SPECIFICATION Spec

CONSTANTS
    r1 = r1
    r2 = r2
    Recorders = {r1, r2}
    Seconds <- MCSeconds
    Formats <- MCFormats
    NoName = ""
    MaxSaves = 3

INVARIANTS
    TypeOK
    DirectoriesMade
    ReplaysKept

CHECK_DEADLOCK FALSE
