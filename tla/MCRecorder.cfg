SPECIFICATION Spec

CONSTANTS
    MaxPending = 2
    MaxLag = 2
    Coalesces = FALSE

INVARIANTS
    TypeOK
    AudioBufferExclusive
    NoUseAfterFree
    SaveCleansUp
    SilenceMatches

PROPERTIES
    PressServed
    AudioResumes
    StopsOnSignal
